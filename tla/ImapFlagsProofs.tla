---------------------------- MODULE ImapFlagsProofs ----------------------------
(***************************************************************************)
(* \Deleted is only on mails a client asked to delete (DeletedWasAsked),   *)
(* for any number of connections, folders, mails, commands and faults.     *)
(*                                                                         *)
(* A command knows a mail only by a number or by folder name and uid, and  *)
(* writes a flag it read some statements ago.  Three facts make it act on  *)
(* the mail its client meant.  What it has still to treat are uids it was  *)
(* issued for, looking a number up included (DueKept).  A folder name and  *)
(* uid that a mail was seen at are never another mail's (SameMailAt).  And *)
(* the mails a STORE against \Deleted is to take back lie in its folder,   *)
(* flagged only where it has still to go, as long as no other command      *)
(* could write there (Goal).                                               *)
(***************************************************************************)
EXTENDS ImapProofs, FiniteSetTheorems

-----------------------------------------------------------------------------
(* Looking a number up                                                     *)

\* A folder has finitely many uids.
LEMMA UidsFinite ==
  ASSUME CommandInv, NEW n PROVE UidsOf(n) \subseteq Nat /\ IsFiniteSet(UidsOf(n))
<1>1. UidsOf(n) \subseteq 1 .. MaxUid
  BY BoundsAssumption DEF UidsOf, Stored, CommandInv, UidsBounded, TypeInv, TypeOK
<1>2. IsFiniteSet(1 .. MaxUid)
  BY BoundsAssumption, FS_Interval
<1> QED
  BY <1>1, <1>2, FS_Subset, BoundsAssumption

\* The row MailIDForSeq finds by counting the rows below it is the one that has
\* the number in the client's list of uids, and no other uid has it.
LEMMA Lookup ==
  ASSUME CommandInv, UniqueUids, NEW n, NEW k \in Nat, NEW x \in AtSeq(n, k)
  PROVE  Numbered(n, k) = {x.uid}
<1> DEFINE Low(u) == {v \in UidsOf(n) : v < u}
           Upto(u) == {v \in UidsOf(n) : v <= u}
           rows == {y \in Stored(box[n]) : y.uid < x.uid}
<1>1. UidsOf(n) \subseteq Nat /\ IsFiniteSet(UidsOf(n)) /\ x.uid \in UidsOf(n)
  BY UidsFinite DEF UidsOf, AtSeq
<1>2. \A u : IsFiniteSet(Low(u)) /\ IsFiniteSet(Upto(u))
  BY <1>1, FS_Subset
<1>3. \A u : Cardinality(Low(u)) \in Nat /\ Cardinality(Upto(u)) \in Nat
  BY <1>2, FS_CardinalityType
<1>4. Cardinality(Low(x.uid)) = k - 1
  <2> DEFINE f == [y \in rows |-> y.uid]
  <2>1. f \in Injection(rows, Low(x.uid))
    BY DEF Injection, IsInjective, UidsOf, Stored, UniqueUids
  <2>2. f \in Surjection(rows, Low(x.uid))
    BY DEF Surjection, UidsOf
  <2> HIDE DEF f, rows, Low
  <2>3. Cardinality(rows) = Cardinality(Low(x.uid))
    BY <1>2, <2>1, <2>2, FS_Injection
  <2>4. Cardinality(rows) = k - 1
    BY DEF AtSeq, rows
  <2> QED
    BY <2>3, <2>4
<1>5. \A u \in UidsOf(n) : Cardinality(Upto(u)) = Cardinality(Low(u)) + 1
  <2> SUFFICES ASSUME NEW u \in UidsOf(n)
               PROVE  Cardinality(Upto(u)) = Cardinality(Low(u)) + 1
    OBVIOUS
  <2>1. Upto(u) = Low(u) \cup {u} /\ u \notin Low(u)
    BY <1>1
  <2> QED
    BY <1>2, <2>1, FS_AddElement
<1>6. Cardinality(Upto(x.uid)) = k
  <2> HIDE DEF Low, Upto
  <2> QED
    BY <1>1, <1>4, <1>5
<1>7. ASSUME NEW u \in UidsOf(n), Cardinality(Upto(u)) = k PROVE u = x.uid
  <2>1. u \in Nat /\ x.uid \in Nat
    BY <1>1
  <2>2. CASE u < x.uid
    <3>1. Upto(u) \subseteq Low(x.uid)
      BY <1>1, <2>1, <2>2
    <3>2. Cardinality(Upto(u)) <= Cardinality(Low(x.uid))
      BY <1>2, <3>1, FS_Subset
    <3> QED
      BY <1>4, <1>7, <3>2
  <2>3. CASE x.uid < u
    <3>1. Upto(x.uid) \subseteq Low(u)
      BY <1>1, <2>1, <2>3
    <3>2. Cardinality(Upto(x.uid)) <= Cardinality(Low(u))
      BY <1>2, <3>1, FS_Subset
    <3>3. Cardinality(Upto(u)) = Cardinality(Low(u)) + 1
      BY <1>5
    <3> HIDE DEF Low, Upto
    <3> QED
      BY <1>3, <1>6, <1>7, <3>2, <3>3
  <2> QED
    BY <2>1, <2>2, <2>3
<1> QED
  BY <1>1, <1>6, <1>7 DEF Numbered

\* The loop's list is its head and the rest.
LEMMA RangeOfTail ==
  ASSUME NEW S, NEW s \in Seq(S), s # <<>>
  PROVE  Range(s) = {Head(s)} \cup Range(Tail(s))
<1>1. /\ Tail(s) \in Seq(S) /\ Len(Tail(s)) = Len(s) - 1 /\ Head(s) = s[1]
      /\ \A i \in 1 .. Len(Tail(s)) : Tail(s)[i] = s[i + 1]
  BY HeadTailProperties
<1>2. Len(s) \in Nat \ {0} /\ DOMAIN s = 1 .. Len(s) /\ DOMAIN Tail(s) = 1 .. Len(Tail(s))
  BY <1>1, EmptySeq, LenProperties
<1>3. ASSUME NEW i \in 1 .. Len(s) PROVE s[i] \in {Head(s)} \cup Range(Tail(s))
  <2>1. CASE i = 1
    BY <1>1, <2>1
  <2>2. CASE i # 1
    <3>1. i - 1 \in 1 .. Len(Tail(s)) /\ Tail(s)[i - 1] = s[i]
      BY <1>1, <1>2, <2>2
    <3> QED
      BY <1>2, <3>1 DEF Range
  <2> QED
    BY <2>1, <2>2
<1>4. ASSUME NEW i \in 1 .. Len(Tail(s)) PROVE Tail(s)[i] \in Range(s)
  <2>1. i + 1 \in 1 .. Len(s) /\ Tail(s)[i] = s[i + 1]
    BY <1>1, <1>2
  <2> QED
    BY <1>2, <2>1 DEF Range
<1>5. Head(s) \in Range(s)
  BY <1>1, <1>2 DEF Range
<1> QED
  BY <1>2, <1>3, <1>4, <1>5 DEF Range

-----------------------------------------------------------------------------
(* Rows after a step                                                       *)

\* Command t writes flag d to uid u of its folder.
Wrote(t, u, d) ==
    /\ WriteFlags(cmd[t].box, u, d)
    /\ \/ /\ Write(t)
          /\ u = Head(ids[t])
          /\ d = (cmd[t].op \in {"add", "set"} \/ (cmd[t].op = "keep" /\ read[t]))
       \/ AppendFlag(t) /\ u = pid[t] /\ d \in {FALSE, read[t]}
       \/ CopyFlags(t) /\ u = pid[t] /\ d = read[t]

NewRow(t) == [box |-> target[t], uid |-> slot[t], mail |-> job[t].mail, deleted |-> FALSE]

\* A flag that is written changes the rows it matches and no other.
LEMMA RowsWritten ==
  ASSUME TypeInv, NEW n, NEW u, NEW d, WriteFlags(n, u, d), NEW y \in messages'
  PROVE  y \in messages \/ \E x \in Row(n, u) : y = Flagged(x, d)
<1>1. CASE UNCHANGED vars
  BY <1>1 DEF vars, store
<1>2. CASE UpdateFlags(n, u, d)
  <2>1. PICK x \in messages :
           y = Flagged(x, IF x.box = box[n] /\ x.uid = u THEN d ELSE x.deleted)
    BY <1>2 DEF UpdateFlags
  <2>2. Flagged(x, x.deleted) = x
    BY DEF Flagged, TypeInv, TypeOK
  <2> QED
    BY <2>1, <2>2 DEF Row, Stored
<1> QED
  BY <1>1, <1>2 DEF WriteFlags

\* After it no row of that uid has another flag.
LEMMA RowsAgree ==
  ASSUME NEW n \in Names, NEW u, NEW d, WriteFlags(n, u, d), box' = box
  PROVE  \A y \in messages' : y.box = box'[n] /\ y.uid = u => y.deleted = d
<1>1. CASE UNCHANGED vars /\ ~ \E x \in Row(n, u) : x.deleted # d
  BY <1>1 DEF vars, store, Row, Stored
<1>2. CASE UpdateFlags(n, u, d)
  BY <1>2 DEF UpdateFlags, Flagged, Row, Stored
<1> QED
  BY <1>1, <1>2 DEF WriteFlags

\* Where each row of the tables comes from.
LEMMA RowStep ==
  ASSUME CommandInv, ImapNext, NEW y \in messages'
  PROVE  \/ y \in messages
         \/ \E t \in Threads : Create(t) /\ y = NewRow(t)
         \/ \E t \in Threads : Move(t) /\ \E x \in Moving(t) : y = At(x, target[t], slot[t])
         \/ \E t \in Threads : \E u : \E d \in BOOLEAN :
               Wrote(t, u, d) /\ \E x \in Row(cmd[t].box, u) : y = Flagged(x, d)
<1> DEFINE Old == y \in messages
           Made == \E t \in Threads : Create(t) /\ y = NewRow(t)
           Shifted == \E t \in Threads :
                         Move(t) /\ \E x \in Moving(t) : y = At(x, target[t], slot[t])
           Marked == \E t \in Threads : \E u : \E d \in BOOLEAN :
                        Wrote(t, u, d) /\ \E x \in Row(cmd[t].box, u) : y = Flagged(x, d)
<1>t. TypeInv
  BY DEF CommandInv
<1>0. ASSUME messages' \subseteq messages PROVE Old
  BY <1>0
<1>w. ASSUME NEW t \in Threads, NEW u, NEW d \in BOOLEAN, Wrote(t, u, d)
      PROVE  Old \/ Marked
  <2>1. WriteFlags(cmd[t].box, u, d)
    BY <1>w DEF Wrote
  <2>2. Old \/ \E x \in Row(cmd[t].box, u) : y = Flagged(x, d)
    BY <1>t, <2>1, RowsWritten
  <2> QED
    BY <1>w, <2>2
<1>1. ASSUME NEW t \in Threads, Command(t) PROVE Old \/ Made \/ Shifted \/ Marked
  <2>b. stage[t] # "idle" => read[t] \in BOOLEAN
    BY DEF CommandInv, CommandOK
  <2>1. CASE Write(t)
    <3> DEFINE d == cmd[t].op \in {"add", "set"} \/ (cmd[t].op = "keep" /\ read[t])
    <3>1. Wrote(t, Head(ids[t]), d)
      BY <2>1 DEF Write, Wrote
    <3>2. d \in BOOLEAN
      OBVIOUS
    <3> HIDE DEF d
    <3> QED
      BY <1>w, <3>1, <3>2
  <2>2. CASE AppendFlag(t)
    <3>1. PICK d \in {FALSE, read[t]} : WriteFlags(cmd[t].box, pid[t], d)
      BY <2>2, Zenon DEF AppendFlag
    <3>2. stage[t] # "idle"
      BY <2>2 DEF AppendFlag
    <3>3. d \in BOOLEAN
      BY <2>b, <3>2
    <3>4. Wrote(t, pid[t], d)
      BY <2>2, <3>1, Zenon DEF Wrote
    <3> QED
      BY <1>w, <3>3, <3>4
  <2>3. CASE CopyFlags(t)
    <3>1. stage[t] # "idle" /\ Wrote(t, pid[t], read[t])
      BY <2>3 DEF CopyFlags, Wrote
    <3> QED
      BY <1>w, <2>b, <3>1
  <2>4. CASE Create(t)
    <3>1. messages' = messages \cup {NewRow(t)}
      BY <2>4 DEF Create, Insert, NewRow
    <3> QED
      BY <2>4, <3>1
  <2>5. CASE Move(t)
    BY <2>5 DEF Move, MoveCommit, MoveRows, Moved
  <2>6. CASE \/ Resolve(t) \/ Peek(t) \/ CreateRejected(t) \/ Created(t) \/ BeginMove(t)
             \/ MoveFailed(t) \/ Finish(t)
             \/ \E n \in Names, m \in Mails, deleted \in BOOLEAN : Begin(t, n, m, deleted)
             \/ \E m \in Mails : BeginCopy(t, m)
    <3>1. messages' = messages
      BY <2>6 DEF Resolve, Peek, CreateRejected, Created, BeginMove, MoveFailed, Finish,
         Begin, BeginCopy, ReadNext, InsertRejected, Bump, BumpLost, MoveRead, MoveAborted,
         vars, store
    <3> QED
      BY <3>1
  <2> HIDE DEF Old, Made, Shifted, Marked
  <2> QED
    BY <1>1, <2>1, <2>2, <2>3, <2>4, <2>5, <2>6 DEF Command
<1>2. ASSUME NEW t \in Threads, Issued(t) PROVE Old
  BY <1>0, <1>2 DEF Issued, Issue, vars, store
<1>3. ASSUME Statement PROVE Old
  BY <1>3 DEF Statement, MailExpunge, Remove, MailboxCreate, MailboxDelete, MailboxRename
<1>4. ASSUME Stopped PROVE Old
  BY <1>4 DEF Stopped, Crash, store
<1> HIDE DEF Old, Made, Shifted, Marked
<1>5. Old \/ Made \/ Shifted \/ Marked
  BY <1>1, <1>2, <1>3, <1>4 DEF ImapNext, Issued
<1> QED
  BY <1>5 DEF Old, Made, Shifted, Marked

\* A mail stays in the tables or is removed on behalf of its owner.
LEMMA MailsStay ==
  [Next]_vars => MailsOf(messages) \cup gone \subseteq MailsOf(messages') \cup gone'
<1> SUFFICES ASSUME [Next]_vars
             PROVE  MailsOf(messages) \cup gone \subseteq MailsOf(messages') \cup gone'
  OBVIOUS
<1>0. ASSUME UNCHANGED <<messages, gone>>
      PROVE  MailsOf(messages) \cup gone \subseteq MailsOf(messages') \cup gone'
  BY <1>0
<1>1. ASSUME NEW rows, messages' = messages \ rows, gone' = gone \cup MailsOf(rows)
      PROVE  MailsOf(messages) \cup gone \subseteq MailsOf(messages') \cup gone'
  BY <1>1 DEF MailsOf
<1>2. ASSUME NEW t \in Threads, Insert(t) \/ MoveCommit(t)
      PROVE  MailsOf(messages) \cup gone \subseteq MailsOf(messages') \cup gone'
  BY <1>2, InsertedMail, MovedMails DEF Insert, MoveCommit, seen
<1>3. ASSUME NEW n \in Names, NEW u \in 1 .. MaxUid, NEW d \in BOOLEAN, UpdateFlags(n, u, d)
      PROVE  MailsOf(messages) \cup gone \subseteq MailsOf(messages') \cup gone'
  <2>1. gone' = gone
    BY <1>3 DEF UpdateFlags, seen
  <2>2. MailsOf(messages') = MailsOf(messages)
    BY <1>3, FlaggedMails
  <2> QED
    BY <2>1, <2>2
<1>4. ASSUME NEW n \in Names, NEW u \in 1 .. MaxUid, MailDelete(n, u)
      PROVE  MailsOf(messages) \cup gone \subseteq MailsOf(messages') \cup gone'
  BY <1>1, <1>4 DEF MailDelete, Remove
<1>5. ASSUME NEW n \in Names, MailExpunge(n) \/ MailboxDelete(n)
      PROVE  MailsOf(messages) \cup gone \subseteq MailsOf(messages') \cup gone'
  BY <1>1, <1>5 DEF MailExpunge, MailboxDelete, Remove
<1> QED
  BY <1>0, <1>2, <1>3, <1>4, <1>5
  DEF Next, vars, store, seen, ReadNext, InsertRejected, Bump, BumpLost, MoveRead,
      MoveAborted, MailboxCreate, MailboxRename, Crash

-----------------------------------------------------------------------------
(* A step that keeps names, uids and numbers stable                        *)

Steady ==
    /\ stable
    /\ \A n \in Names : box[n] # 0 => box'[n] = box[n]
    /\ \A p \in Places' \ Places : <<p[1], p[2]>> \notin given
    /\ \A p \in Places' : <<p[1], p[2]>> \in given'
    /\ given \subseteq given'
    /\ \A t \in Threads : ~Slides(t)
    /\ asked' = (asked \ TakenBack) \cup Asking'

\* What Remember says of such a step.
LEMMA SteadyStep == Remember /\ stable' => Steady
  BY DEF Remember, StillStable, Steady

\* A folder name and uid that a mail was seen at shows that mail or none.
LEMMA SameMailAt ==
  ASSUME Steady, NEW n \in Names, box[n] # 0, NEW u, <<n, u>> \in given
  PROVE  \A y \in messages' : y.box = box'[n] /\ y.uid = u =>
            \E x \in Row(n, u) : x.mail = y.mail
<1> SUFFICES ASSUME NEW y \in messages', y.box = box'[n], y.uid = u
             PROVE  \E x \in Row(n, u) : x.mail = y.mail
  OBVIOUS
<1> DEFINE p == <<n, y.uid, y.mail>>
<1>1. y.uid = u /\ y \in Stored(box[n])'
  BY DEF Stored
<1>2. p \in Places'
  BY <1>1 DEF Places
<1>3. p[1] = n /\ p[2] = u
  BY <1>1
<1> HIDE DEF p
<1>4. p \in Places
  BY <1>2, <1>3 DEF Steady
<1>5. PICK k \in Names : \E x \in Stored(box[k]) : p = <<k, x.uid, x.mail>>
  BY <1>4 DEF Places
<1>6. PICK x \in Stored(box[k]) : p = <<k, x.uid, x.mail>>
  BY <1>5
<1>7. k = n /\ x.uid = u /\ x.mail = y.mail
  BY <1>1, <1>6 DEF p
<1> QED
  BY <1>7 DEF Row

\* A number still to be looked up means what it did before the step.
LEMMA SameNumbers ==
  ASSUME Steady, CommandInv, NEW t \in Threads, stage[t] = "resolve",
         NEW k \in Range(nums[t])
  PROVE  Numbered(cmd[t].box, k)' = Numbered(cmd[t].box, k) \/ cmd'[t] # cmd[t]
<1>1. cmd[t].box \in Names
  BY DEF CommandInv, CommandOK, Commands
<1>2. \A n \in Names : cmd[t].box = n => Numbered(n, k) = Numbered(n, k)'
  BY DEF Steady, Slides
<1> QED
  BY <1>1, <1>2

\* Nothing is left to treat in an empty list.
LEMMA RangeOfEmpty == Range(<<>>) = {}
  BY DEF Range

\* A command treats the uids it was issued for: a step adds none, and drops none
\* but the one it has treated.
LEMMA DueKept ==
  ASSUME CommandInv, UniqueUids, Steady, NEW t \in Threads, Shape(t),
         stage[t] # "idle", stage'[t] # "idle", Bystander(t) \/ Command(t)
  PROVE  /\ cmd'[t] = cmd[t]
         /\ Due(t)' \subseteq Due(t)
         /\ \/ Due(t) \subseteq Due(t)'
            \/ /\ Write(t) \/ CopyFlags(t) \/ Move(t)
               /\ Due(t) \subseteq Due(t)' \cup {Head(ids[t])}
<1> DEFINE Left == {Numbered(cmd[t].box, k) : k \in Range(nums[t])}
<1>q. ids[t] \in Seq(1 .. MaxUid) /\ nums[t] \in Seq(Nat)
  BY DEF CommandInv, CommandOK
<1>n. ASSUME NEW k \in Range(nums[t]), cmd'[t] = cmd[t]
      PROVE  Numbered(cmd[t].box, k)' = Numbered(cmd[t].box, k)
  <2>1. CASE stage[t] = "resolve"
    BY <1>n, <2>1, SameNumbers
  <2>2. CASE stage[t] # "resolve"
    BY <1>n, <2>2, RangeOfEmpty DEF Shape
  <2> QED
    BY <2>1, <2>2
<1>1. CASE cmd'[t] = cmd[t] /\ nums'[t] = nums[t] /\ ids'[t] = ids[t]
  <2>1. Left' = Left
    BY <1>1, <1>n
  <2>2. Range(ids[t])' = Range(ids[t])
    BY <1>1
  <2> HIDE DEF Left
  <2>3. Due(t)' = Due(t)
    BY <2>1, <2>2 DEF Due, Left
  <2> QED
    BY <1>1, <2>3
<1>2. CASE Resolve(t)
  <2>1. nums[t] # <<>> /\ cmd'[t] = cmd[t] /\ UNCHANGED <<messages, box>>
    BY <1>2 DEF Resolve, CommandInv, CommandOK, vars, store
  <2>2. Head(nums[t]) \in Nat /\ Range(nums[t]) = {Head(nums[t])} \cup Range(Tail(nums[t]))
    BY <1>q, <2>1, HeadTailProperties, RangeOfTail
  <2>3. PICK x \in AtSeq(cmd[t].box, Head(nums[t])) : ids' = [ids EXCEPT ![t] = Append(@, x.uid)]
    BY <1>2 DEF Resolve
  <2>4. x.uid \in 1 .. MaxUid
    BY <2>3, BoundsAssumption DEF AtSeq, Stored, CommandInv, TypeInv, TypeOK, UidsBounded
  <2>5. Numbered(cmd[t].box, Head(nums[t])) = {x.uid}
    BY <2>2, Lookup
  <2>6. ids'[t] = Append(ids[t], x.uid) /\ nums'[t] = Tail(nums[t])
    BY <1>2, <2>3 DEF Resolve, CommandInv, CommandOK
  <2>7. Range(ids[t])' = Range(ids[t]) \cup {x.uid}
    <3> DEFINE l == Len(ids[t])
    <3>1. /\ Append(ids[t], x.uid) \in Seq(1 .. MaxUid)
          /\ Len(Append(ids[t], x.uid)) = l + 1
          /\ \A i \in 1 .. l : Append(ids[t], x.uid)[i] = ids[t][i]
          /\ Append(ids[t], x.uid)[l + 1] = x.uid
      BY <1>q, <2>4, AppendProperties
    <3>2. l \in Nat /\ DOMAIN ids[t] = 1 .. l /\ DOMAIN ids'[t] = 1 .. l + 1
      BY <1>q, <2>6, <3>1, LenProperties
    <3>3. (\A i \in 1 .. l : ids'[t][i] = ids[t][i]) /\ ids'[t][l + 1] = x.uid
      BY <2>6, <3>1
    <3> HIDE DEF l
    <3>4. Range(ids'[t]) = Range(ids[t]) \cup {x.uid}
      BY <3>2, <3>3 DEF Range
    <3> QED
      BY <3>4
  <2>8. \A k : Numbered(cmd[t].box, k)' = Numbered(cmd[t].box, k)
    BY <2>1 DEF Numbered, UidsOf, Stored
  <2>9. Left' = {Numbered(cmd[t].box, k) : k \in Range(Tail(nums[t]))}
    BY <2>6, <2>8
  <2>10. UNION Left = {x.uid} \cup UNION Left'
    BY <2>2, <2>5, <2>9
  <2> HIDE DEF Left
  <2>11. Due(t)' = Due(t)
    BY <2>7, <2>10 DEF Due, Left
  <2> QED
    BY <2>1, <2>11
<1>3. CASE NextId(t) /\ (Write(t) \/ CopyFlags(t) \/ Move(t))
  <2>1. /\ cmd'[t] = cmd[t] /\ nums'[t] = nums[t] /\ ids'[t] = Tail(ids[t])
        /\ ids[t] # <<>> /\ nums[t] = <<>>
    BY <1>3 DEF NextId, Write, CopyFlags, Move, Treating, HasId, CommandInv, CommandOK, Shape
  <2>2. Range(ids[t]) = {Head(ids[t])} \cup Range(ids[t])'
    BY <1>q, <2>1, RangeOfTail
  <2>3. Left = {} /\ Left' = {}
    BY <2>1, RangeOfEmpty
  <2> HIDE DEF Left
  <2>4. Due(t) = Range(ids[t]) /\ Due(t)' = Range(ids[t])'
    BY <2>3 DEF Due, Left
  <2> QED
    BY <1>3, <2>1, <2>2, <2>4
<1>4. CASE Bystander(t)
  BY <1>1, <1>4 DEF Bystander
<1>5. CASE Command(t)
  <2>1. Peek(t) \/ AppendFlag(t) \/ Create(t) \/ BeginMove(t) \/ Created(t)
           \/ (\E m \in Mails : BeginCopy(t, m)) =>
              cmd'[t] = cmd[t] /\ nums'[t] = nums[t] /\ ids'[t] = ids[t]
    BY DEF Peek, AppendFlag, Create, BeginMove, Created, BeginCopy, command
  <2>2. Write(t) \/ CopyFlags(t) \/ Move(t) => NextId(t)
    BY DEF Write, CopyFlags, Move
  <2>3. ~(CreateRejected(t) \/ MoveFailed(t) \/ Finish(t))
    BY DEF CreateRejected, MoveFailed, Finish, Done, StageTo, CommandInv, CommandOK
  <2>4. ~(\E n \in Names, m \in Mails, deleted \in BOOLEAN : Begin(t, n, m, deleted))
    BY DEF Begin
  <2> QED
    BY <1>1, <1>2, <1>3, <1>5, <2>1, <2>2, <2>3, <2>4 DEF Command
<1> QED
  BY <1>4, <1>5

-----------------------------------------------------------------------------
(* What the history says of the commands in progress                       *)

\* The mails of a STORE that takes \Deleted back are in its folder, and flagged
\* only where it has still to go; nobody else may write there.
Goal(t) ==
    goal[t] # {} =>
        /\ Running(t, {"remove", "clear"})
        /\ \A r \in Threads \ {t} : ~Rival(r, cmd[t].box)
        /\ goal[t] \subseteq MailsOf(messages) \cup gone
        /\ \A x \in messages : x.mail \in goal[t] =>
              x.box = box[cmd[t].box] /\ (x.deleted => x.uid \in Due(t))

MeantInv ==
    stable =>
        /\ \A p \in Places : <<p[1], p[2]>> \in given
        /\ Asking \subseteq asked
        /\ \A t \in Threads :
              /\ stage[t] # "idle" => box[cmd[t].box] # 0
              /\ Running(t, {"add", "set"}) => Due(t) \subseteq named[t]
              /\ Goal(t)

\* Commands, tables and history together.
BaseInv == CommandInv /\ HistoryInv /\ TablesInv

\* A command is in a folder that is there: its name is stable.
LEMMA FolderThere ==
  ASSUME BaseInv, ImapNext, Steady, NEW t \in Threads,
         stage[t] # "idle" => box[cmd[t].box] # 0, stage'[t] # "idle"
  PROVE  box'[cmd'[t].box] # 0
<1> USE DEF BaseInv
<1>1. Bystander(t) \/ Command(t) \/ Issued(t)
  BY WhoActs DEF Stopped
<1>2. CASE Issued(t)
  <2>1. PICK n \in Names : box[n] # 0 /\ cmd'[t].box = n
    BY <1>2 DEF Issued, Issue, CommandInv, CommandOK
  <2> QED
    BY <2>1 DEF Steady
<1>3. CASE stage[t] # "idle" /\ (Bystander(t) \/ Command(t))
  <2>1. cmd'[t] = cmd[t] /\ cmd[t].box \in Names
    BY <1>3, DueKept DEF HistoryInv, ShapeInv, TablesInv, FolderInv, CommandInv, CommandOK,
       Commands
  <2> QED
    BY <1>3, <2>1 DEF Steady
<1>4. CASE stage[t] = "idle" /\ Command(t)
  <2>1. PICK n \in Names : \E m \in Mails, deleted \in BOOLEAN : Begin(t, n, m, deleted)
    BY <1>4 DEF Command, Resolve, Peek, Treating, Write, BeginCopy, Create, CreateRejected,
       Created, AppendFlag, CopyFlags, BeginMove, Move, MoveFailed, Finish
  <2>2. box[n] # 0 /\ cmd'[t].box = n
    BY <2>1 DEF Begin, ReadNext, CommandInv, CommandOK
  <2> QED
    BY <2>2 DEF Steady
<1>5. CASE stage[t] = "idle" /\ Bystander(t)
  BY <1>5 DEF Bystander
<1> QED
  BY <1>1, <1>2, <1>3, <1>4, <1>5

\* Two commands on one folder have its name in common.
LEMMA SameFolder ==
  ASSUME BaseInv, NEW t \in Threads, NEW r \in Threads, stage[t] # "idle", stage[r] # "idle",
         box[cmd[t].box] # 0, box[cmd[r].box] = box[cmd[t].box]
  PROVE  cmd[r].box = cmd[t].box
  BY DEF BaseInv, TablesInv, FolderInv, OneName, CommandInv, CommandOK, Commands

\* What a STORE is to take back stays in its folder, and flagged only where it
\* has still to go: no delivery, move or other STORE touches it.
LEMMA GoalStep ==
  ASSUME BaseInv, OneCopy', ImapNext, Remember, stable', NEW t \in Threads, Goal(t),
         stage[t] # "idle" => box[cmd[t].box] # 0
  PROVE  Goal(t)'
<1> SUFFICES ASSUME goal'[t] # {}
             PROVE  /\ Running(t, {"remove", "clear"})'
                    /\ \A r \in Threads \ {t} : ~Rival(r, cmd[t].box)'
                    /\ goal'[t] \subseteq MailsOf(messages') \cup gone'
                    /\ \A y \in messages' : y.mail \in goal'[t] =>
                          y.box = box'[cmd'[t].box] /\ (y.deleted => y.uid \in Due(t)')
  BY DEF Goal
<1>1. /\ Running(t, {"remove", "clear"})'
      /\ \A r \in Threads \ {t} : ~Rival(r, cmd[t].box)'
      /\ goal'[t] = IF stage[t] = "idle"
                    THEN MailsOf({x \in Stored(box[cmd[t].box]) : x.uid \in Due(t)})'
                    ELSE goal[t]
  BY DEF Remember
<1>2. CASE stage[t] = "idle"
  <2>1. goal'[t] = {x.mail : x \in {z \in messages' : z.box = box'[cmd'[t].box] /\ z.uid \in Due(t)'}}
    BY <1>1, <1>2 DEF MailsOf, Stored
  <2>2. goal'[t] \subseteq MailsOf(messages')
    BY <2>1 DEF MailsOf
  <2>3. ASSUME NEW y \in messages', y.mail \in goal'[t]
        PROVE  y.box = box'[cmd'[t].box] /\ y.uid \in Due(t)'
    <3>1. PICK x \in messages' : x.box = box'[cmd'[t].box] /\ x.uid \in Due(t)' /\ x.mail = y.mail
      BY <2>1, <2>3
    <3>2. x = y
      BY <3>1 DEF OneCopy
    <3> QED
      BY <3>1, <3>2
  <2> QED
    BY <1>1, <2>2, <2>3
<1>3. CASE stage[t] # "idle"
  <2>s. Steady
    BY SteadyStep
  <2>g. /\ goal'[t] = goal[t] /\ goal[t] # {} /\ stage'[t] # "idle"
        /\ cmd[t].op \in {"remove", "clear"}
        /\ \A r \in Threads \ {t} : ~Rival(r, cmd[t].box)
        /\ goal[t] \subseteq MailsOf(messages) \cup gone
        /\ \A x \in messages : x.mail \in goal[t] =>
              x.box = box[cmd[t].box] /\ (x.deleted => x.uid \in Due(t))
    BY <1>1, <1>3 DEF Goal, Running
  <2>a. Bystander(t) \/ Command(t)
    BY <1>3, <2>g, WhoActs DEF BaseInv, Issued, Issue, Stopped
  <2>c. /\ cmd'[t] = cmd[t]
        /\ \/ Due(t) \subseteq Due(t)'
           \/ /\ Write(t) \/ CopyFlags(t) \/ Move(t)
              /\ Due(t) \subseteq Due(t)' \cup {Head(ids[t])}
    BY <1>3, <2>s, <2>g, <2>a, DueKept DEF BaseInv, HistoryInv, ShapeInv, TablesInv, FolderInv
  <2>b. cmd[t].box \in Names /\ box'[cmd[t].box] = box[cmd[t].box]
    BY <1>3, <2>s DEF BaseInv, CommandInv, CommandOK, Commands, Steady
  <2>1. goal[t] \subseteq MailsOf(messages') \cup gone'
    BY <2>g, MailsStay, StepRefines DEF BaseInv
  <2>2. ASSUME NEW y \in messages', y.mail \in goal[t]
        PROVE  y.box = box[cmd[t].box] /\ (y.deleted => y.uid \in Due(t)')
    <3>1. CASE y \in messages
      <4>1. y.box = box[cmd[t].box] /\ (y.deleted => y.uid \in Due(t))
        BY <2>g, <2>2, <3>1
      <4>2. ASSUME Write(t), y.uid = Head(ids[t]) PROVE ~y.deleted
        <5>1. WriteFlags(cmd[t].box, Head(ids[t]), FALSE) /\ box' = box
          BY <2>g, <4>2 DEF Write, WriteFlags, UpdateFlags, vars, store
        <5>2. \A z \in messages' : z.box = box'[cmd[t].box] /\ z.uid = Head(ids[t]) =>
                 z.deleted = FALSE
          <6>1. PICK d \in BOOLEAN : d = FALSE
            OBVIOUS
          <6>2. WriteFlags(cmd[t].box, Head(ids[t]), d)
            BY <5>1, <6>1
          <6>3. \A z \in messages' : z.box = box'[cmd[t].box] /\ z.uid = Head(ids[t]) =>
                   z.deleted = d
            BY <2>b, <5>1, <6>2, RowsAgree
          <6> QED
            BY <6>1, <6>3
        <5> QED
          BY <2>b, <4>1, <4>2, <5>2
      <4>3. ~CopyFlags(t) /\ ~Move(t)
        BY <2>g DEF CopyFlags, Move, BaseInv, HistoryInv, ShapeInv, Shape
      <4> QED
        BY <2>c, <4>1, <4>2, <4>3
    <3>2. ASSUME NEW r \in Threads, Create(r), y = NewRow(r) PROVE FALSE
      <4>1. y.mail = job[r].mail /\ pc[r] = "insert"
        BY <3>2 DEF NewRow, Create, Insert
      <4>2. job[r].mail \notin MailsOf(messages) /\ job[r].mail \notin gone
        BY <4>1 DEF BaseInv, TablesInv, MailInv, CarriedOnce, FolderInv, RemovedForGood
      <4> QED
        BY <2>g, <2>2, <4>1, <4>2
    <3>3. ASSUME NEW r \in Threads, Move(r), NEW x \in Moving(r), y = At(x, target[r], slot[r])
          PROVE  FALSE
      <4>1. /\ stage[r] = "move" /\ x \in messages /\ x.mail = y.mail
            /\ x.box = box[job[r].from]
        BY <3>3 DEF Move, Moving, At
      <4>2. cmd[r].op = "move" /\ job[r].from = cmd[r].box
        BY <4>1 DEF BaseInv, HistoryInv, ShapeInv, Shape
      <4>3. cmd[r].box = cmd[t].box
        BY <1>3, <2>g, <2>2, <4>1, <4>2, SameFolder
      <4>4. r # t
        BY <2>g, <4>2
      <4> QED
        BY <2>g, <4>1, <4>2, <4>3, <4>4 DEF Rival
    <3>4. ASSUME NEW r \in Threads, NEW u, NEW d \in BOOLEAN, Wrote(r, u, d),
                 NEW x \in Row(cmd[r].box, u), y = Flagged(x, d)
          PROVE  y.box = box[cmd[t].box] /\ ~y.deleted
      <4>1. /\ x \in messages /\ x.mail = y.mail /\ x.box = y.box /\ y.deleted = d
            /\ x.box = box[cmd[r].box]
        BY <3>4 DEF Row, Stored, Flagged
      <4>2. x.box = box[cmd[t].box]
        BY <2>g, <2>2, <4>1
      <4>3. stage[r] # "idle"
        BY <3>4 DEF Wrote, Write, Treating, AppendFlag, CopyFlags
      <4>4. cmd[r].box = cmd[t].box
        BY <1>3, <4>1, <4>2, <4>3, SameFolder
      <4>5. r = t \/ (cmd[r].op = "append" /\ ~read[r])
        BY <2>g, <4>3, <4>4 DEF Rival
      <4>6. ~d
        <5>1. CASE Write(r) /\ d = (cmd[r].op \in {"add", "set"} \/ (cmd[r].op = "keep" /\ read[r]))
          BY <2>g, <4>5, <5>1
        <5>2. CASE AppendFlag(r) /\ d \in {FALSE, read[r]}
          BY <2>g, <4>5, <5>2 DEF AppendFlag
        <5>3. CASE CopyFlags(r)
          BY <2>g, <4>5, <5>3 DEF CopyFlags
        <5> QED
          BY <3>4, <5>1, <5>2, <5>3 DEF Wrote
      <4> QED
        BY <4>1, <4>2, <4>6
    <3> QED
      BY <3>1, <3>2, <3>3, <3>4, RowStep DEF BaseInv
  <2> QED
    BY <1>1, <2>g, <2>c, <2>b, <2>1, <2>2
<1> QED
  BY <1>2, <1>3

\* What is remembered of the commands stays true of them.
LEMMA MeantStep ==
  BaseInv /\ BaseInv' /\ MeantInv /\ [ImapNext]_imapVars => MeantInv'
<1> SUFFICES ASSUME BaseInv, BaseInv', MeantInv, [ImapNext]_imapVars, stable'
             PROVE  /\ \A p \in Places' : <<p[1], p[2]>> \in given'
                    /\ Asking' \subseteq asked'
                    /\ \A t \in Threads :
                          /\ stage'[t] # "idle" => box'[cmd'[t].box] # 0
                          /\ Running(t, {"add", "set"})' => Due(t)' \subseteq named'[t]
                          /\ Goal(t)'
  BY DEF MeantInv
<1>1. CASE UNCHANGED imapVars
  <2>1. /\ UNCHANGED <<box, messages, job, gone, stage, cmd, nums, ids, read>>
        /\ UNCHANGED <<stable, given, named, goal, asked>>
    BY <1>1 DEF imapVars, vars, store, calls, seen, command, history
  <2>2. \A t \in Threads : Due(t)' = Due(t)
    BY <2>1 DEF Due, Numbered, UidsOf, Stored
  <2>3. Places' = Places /\ Asking' = Asking
    BY <2>1 DEF Places, Asking, MailsOf, Stored
  <2>4. \A t \in Threads : Goal(t)' = Goal(t)
    BY <2>1, <2>2 DEF Goal, Running, Rival, MailsOf
  <2> QED
    BY <2>1, <2>2, <2>3, <2>4 DEF MeantInv, Running
<1>2. CASE ImapNext
  <2>r. Remember /\ Steady
    BY <1>2, SteadyStep DEF ImapNext
  <2>m. /\ stable
        /\ \A t \in Threads :
              /\ stage[t] # "idle" => box[cmd[t].box] # 0
              /\ Running(t, {"add", "set"}) => Due(t) \subseteq named[t]
              /\ Goal(t)
    BY <2>r DEF MeantInv, Steady
  <2>1. (\A p \in Places' : <<p[1], p[2]>> \in given') /\ Asking' \subseteq asked'
    BY <2>r DEF Steady
  <2>2. ASSUME NEW t \in Threads PROVE stage'[t] # "idle" => box'[cmd'[t].box] # 0
    BY <1>2, <2>r, <2>m, FolderThere
  <2>3. ASSUME NEW t \in Threads, Running(t, {"add", "set"})'
        PROVE  Due(t)' \subseteq named'[t]
    <3>1. named'[t] = IF stage[t] = "idle" THEN Due(t)' ELSE named[t]
      BY <2>r, <2>3 DEF Remember
    <3>2. CASE stage[t] # "idle"
      <4>1. stage'[t] # "idle" /\ (Bystander(t) \/ Command(t))
        BY <1>2, <2>3, <3>2, WhoActs DEF BaseInv, Running, Issued, Issue, Stopped
      <4>2. cmd'[t] = cmd[t] /\ Due(t)' \subseteq Due(t)
        BY <2>r, <3>2, <4>1, DueKept DEF BaseInv, HistoryInv, ShapeInv, TablesInv, FolderInv
      <4>3. Running(t, {"add", "set"})
        BY <2>3, <3>2, <4>2 DEF Running
      <4> QED
        BY <2>m, <3>1, <3>2, <4>2, <4>3
    <3> QED
      BY <3>1, <3>2
  <2>4. ASSUME NEW t \in Threads PROVE Goal(t)'
    <3>1. OneCopy'
      BY DEF BaseInv, TablesInv, MailInv
    <3> QED
      BY <1>2, <2>r, <2>m, <3>1, GoalStep
  <2> QED
    BY <2>1, <2>2, <2>3, <2>4
<1> QED
  BY <1>1, <1>2

-----------------------------------------------------------------------------
(* What a command that is to write \Deleted relies on                      *)

\* Folder n shows under uid u, now and from now on, only mails asked for.
AllAsked(n, u) == <<n, u>> \in given /\ \A x \in Row(n, u) : x.mail \in asked

Sure(t) ==
    /\ stage[t] = "write" /\ cmd[t].op = "keep" /\ read[t] =>
          AllAsked(cmd[t].box, Head(ids[t]))
    /\ stage[t] = "create" /\ cmd[t].op = "append" =>
          /\ target[t] = box[cmd[t].box]
          /\ pc[t] = "bump" =>
                /\ <<cmd[t].box, slot[t]>> \in given
                /\ \A x \in Row(cmd[t].box, slot[t]) : x.mail = job[t].mail
    /\ stage[t] = "flags" /\ cmd[t].op = "append" /\ read[t] =>
          AllAsked(cmd[t].box, pid[t])
    /\ stage[t] = "flags" /\ cmd[t].op = "copy" => ~read[t]

FlagsAsked == \A x \in messages : x.deleted => x.mail \in asked

FlagInv == stable /\ ~copied => FlagsAsked /\ \A t \in Threads : Sure(t)

\* Only a STORE against \Deleted that returns takes a wish back.
LEMMA NoneTakenBack ==
  ASSUME CommandInv, NEW t \in Threads, Command(t), stage'[t] # "idle"
  PROVE  TakenBack = {}
<1>1. \A r \in Threads : stage[r] = "treat" => stage'[r] # "idle"
  BY OthersStandBy DEF Bystander
<1> QED
  BY <1>1 DEF TakenBack

\* It takes back no mail that is still flagged.
LEMMA FlaggedNotTakenBack ==
  ASSUME BaseInv, MeantInv, stable, NEW x \in messages, x.deleted
  PROVE  x.mail \notin TakenBack
<1> SUFFICES ASSUME x.mail \in TakenBack PROVE FALSE
  OBVIOUS
<1>1. PICK r \in Threads : stage[r] = "treat" /\ ids[r] = <<>> /\ x.mail \in goal[r]
  BY DEF TakenBack
<1>2. x.uid \in Due(r)
  BY <1>1 DEF MeantInv, Goal
<1>3. nums[r] = <<>>
  BY <1>1 DEF BaseInv, HistoryInv, ShapeInv, Shape
<1> QED
  BY <1>1, <1>2, <1>3, RangeOfEmpty DEF Due

\* Nor a mail in a folder where another command may write flags.
LEMMA RivalNotTakenBack ==
  ASSUME BaseInv, MeantInv, stable, NEW t \in Threads, Rival(t, cmd[t].box), stage'[t] # "idle",
         NEW x \in messages, x.box = box[cmd[t].box]
  PROVE  x.mail \notin TakenBack
<1> SUFFICES ASSUME x.mail \in TakenBack PROVE FALSE
  OBVIOUS
<1>1. PICK r \in Threads :
         stage[r] = "treat" /\ ids[r] = <<>> /\ stage'[r] = "idle" /\ x.mail \in goal[r]
  BY DEF TakenBack
<1>2. x.box = box[cmd[r].box] /\ r # t /\ ~Rival(t, cmd[r].box)
  BY <1>1 DEF MeantInv, Goal
<1>3. stage[t] # "idle" /\ box[cmd[t].box] # 0
  BY DEF Rival, MeantInv
<1>4. cmd[r].box = cmd[t].box
  BY <1>1, <1>2, <1>3, SameFolder
<1> QED
  BY <1>2, <1>4

\* What such a command relies on holds through the steps of the others.
LEMMA StillAsked ==
  ASSUME BaseInv, MeantInv, Steady, NEW t \in Threads, Rival(t, cmd[t].box),
         stage'[t] # "idle", cmd'[t] = cmd[t], NEW u, AllAsked(cmd[t].box, u)
  PROVE  /\ <<cmd[t].box, u>> \in given'
         /\ \A y \in messages' : y.box = box'[cmd'[t].box] /\ y.uid = u => y.mail \in asked'
<1>1. cmd[t].box \in Names /\ box[cmd[t].box] # 0
  BY DEF Rival, BaseInv, CommandInv, CommandOK, Commands, MeantInv, Steady
<1>2. ASSUME NEW y \in messages', y.box = box'[cmd'[t].box], y.uid = u PROVE y.mail \in asked'
  <2>1. PICK x \in Row(cmd[t].box, u) : x.mail = y.mail
    BY <1>1, <1>2, SameMailAt DEF AllAsked
  <2>2. x \in messages /\ x.box = box[cmd[t].box] /\ x.mail \in asked
    BY <2>1 DEF Row, Stored, AllAsked
  <2>3. x.mail \notin TakenBack
    BY <2>2, RivalNotTakenBack DEF Steady
  <2> QED
    BY <2>1, <2>2, <2>3 DEF Steady
<1> QED
  BY <1>2 DEF Steady, AllAsked

\* Each flagged row of the tables after a step is of a mail asked for.
LEMMA FlagsStep ==
  ASSUME BaseInv, MeantInv, FlagInv, ImapNext, Steady, ~copied
  PROVE  FlagsAsked'
<1> SUFFICES ASSUME NEW y \in messages', y.deleted PROVE y.mail \in asked'
  BY DEF FlagsAsked
<1>s. stable /\ FlagsAsked /\ \A t \in Threads : Sure(t)
  BY DEF FlagInv, Steady
<1>1. ASSUME NEW x \in messages, x.deleted PROVE x.mail \in asked'
  BY <1>s, <1>1, FlaggedNotTakenBack DEF FlagsAsked, Steady
<1>2. ASSUME NEW t \in Threads, y = NewRow(t) PROVE FALSE
  BY <1>2 DEF NewRow
<1>3. ASSUME NEW t \in Threads, NEW x \in Moving(t), y = At(x, target[t], slot[t])
      PROVE  y.mail \in asked'
  BY <1>1, <1>3 DEF Moving, At
<1>4. ASSUME NEW t \in Threads, NEW u, NEW d \in BOOLEAN, Wrote(t, u, d),
             NEW x \in Row(cmd[t].box, u), y = Flagged(x, d)
      PROVE  y.mail \in asked'
  <2>1. d /\ y.mail = x.mail /\ x \in Stored(box[cmd[t].box]) /\ x.uid = u
    BY <1>4 DEF Flagged, Row
  <2>2. Command(t) /\ stage[t] # "idle" /\ stage'[t] # "idle"
    BY <1>4 DEF Wrote, Command, Write, Treating, AppendFlag, CopyFlags, NextId, StageTo,
       command, BaseInv, CommandInv, CommandOK
  <2>3. asked \subseteq asked'
    BY <2>2, NoneTakenBack DEF BaseInv, Steady
  <2>4. CASE Write(t) /\ u = Head(ids[t]) /\ cmd[t].op \in {"add", "set"}
    <3>1. ids[t] # <<>> /\ ids[t] \in Seq(1 .. MaxUid)
      BY <2>4 DEF Write, Treating, HasId, BaseInv, CommandInv, CommandOK
    <3>2. u \in Due(t)
      BY <2>4, <3>1, RangeOfTail DEF Due
    <3>3. u \in named[t]
      BY <1>s, <2>2, <2>4, <3>2 DEF MeantInv, Running
    <3>4. x.mail \in Asking
      BY <2>1, <3>3 DEF Asking, MailsOf
    <3> QED
      BY <1>s, <2>1, <2>3, <3>4 DEF MeantInv
  <2>5. CASE Write(t) /\ u = Head(ids[t]) /\ cmd[t].op = "keep" /\ read[t]
    <3>1. AllAsked(cmd[t].box, u)
      BY <1>s, <2>5 DEF Sure, Write, Treating
    <3> QED
      BY <1>4, <2>1, <2>3, <3>1 DEF AllAsked
  <2>6. CASE AppendFlag(t) /\ u = pid[t] /\ d \in {FALSE, read[t]}
    <3>1. read[t]
      BY <2>1, <2>6
    <3>2. AllAsked(cmd[t].box, u)
      BY <1>s, <2>6, <3>1 DEF Sure, AppendFlag
    <3> QED
      BY <1>4, <2>1, <2>3, <3>2 DEF AllAsked
  <2>7. CASE CopyFlags(t) /\ d = read[t]
    BY <1>s, <2>1, <2>7 DEF Sure, CopyFlags
  <2> QED
    BY <1>4, <2>1, <2>4, <2>5, <2>6, <2>7 DEF Wrote
<1> QED
  BY <1>1, <1>2, <1>3, <1>4, RowStep DEF BaseInv

\* What a connection relies on while others step.
LEMMA SureStandsBy ==
  ASSUME BaseInv, MeantInv, Steady, NEW t \in Threads, Sure(t), Bystander(t)
  PROVE  Sure(t)'
<1>1. CASE stage[t] \notin {"write", "create", "flags"}
  BY <1>1 DEF Bystander, Sure
<1>2. CASE stage[t] \in {"write", "create", "flags"}
  <2>b. /\ cmd[t].box \in Names /\ box[cmd[t].box] # 0 /\ box'[cmd[t].box] = box[cmd[t].box]
    BY <1>2 DEF BaseInv, CommandInv, CommandOK, Commands, MeantInv, Steady
  <2>1. ASSUME NEW u, AllAsked(cmd[t].box, u), cmd[t].op = "append" => read[t]
        PROVE  /\ <<cmd[t].box, u>> \in given'
               /\ \A y \in messages' : y.box = box'[cmd'[t].box] /\ y.uid = u => y.mail \in asked'
    BY <1>2, <2>1, StillAsked DEF Bystander, Rival
  <2>2. CASE stage[t] = "write"
    BY <2>1, <2>2 DEF Bystander, Sure, AllAsked, Row, Stored
  <2>3. CASE stage[t] = "flags"
    BY <2>1, <2>3 DEF Bystander, Sure, AllAsked, Row, Stored
  <2>4. CASE stage[t] = "create"
    <3>1. ASSUME cmd[t].op = "append", pc[t] = "bump"
          PROVE  /\ <<cmd[t].box, slot[t]>> \in given'
                 /\ \A y \in messages' : y.box = box'[cmd[t].box] /\ y.uid = slot[t] =>
                       y.mail = job[t].mail
      <4>1. /\ <<cmd[t].box, slot[t]>> \in given
            /\ \A x \in Row(cmd[t].box, slot[t]) : x.mail = job[t].mail
        BY <2>4, <3>1 DEF Sure
      <4>2. \A y \in messages' : y.box = box'[cmd[t].box] /\ y.uid = slot[t] =>
               \E x \in Row(cmd[t].box, slot[t]) : x.mail = y.mail
        BY <2>b, <4>1, SameMailAt
      <4> QED
        BY <4>1, <4>2 DEF Steady
    <3> QED
      BY <2>b, <2>4, <3>1 DEF Bystander, Sure, Row, Stored
  <2> QED
    BY <1>2, <2>2, <2>3, <2>4
<1> QED
  BY <1>1, <1>2

\* A command relies on what it has just seen or stored.
LEMMA SureCommand ==
  ASSUME BaseInv, MeantInv, FlagsAsked, Steady, NEW t \in Threads, Sure(t), Command(t),
         ~(Running(t, {"copy"})' /\ stage'[t] = "flags" /\ read'[t])
  PROVE  Sure(t)'
<1> USE DEF BaseInv
<1>i. TypeInv /\ CommandOK /\ Shape(t)
  BY DEF CommandInv, HistoryInv, ShapeInv
<1>a. ASSUME stage'[t] # "idle" PROVE asked \subseteq asked'
  BY <1>a, NoneTakenBack DEF Steady
<1>c. stage[t] # "idle" => cmd[t].box \in Names /\ box[cmd[t].box] # 0
  BY <1>i DEF CommandOK, Commands, MeantInv, Steady
<1>0. ASSUME stage'[t] \in {"idle", "resolve", "treat", "move", "copy"} PROVE Sure(t)'
  BY <1>0 DEF Sure
<1>1. CASE Peek(t)
  <2>1. /\ stage[t] = "treat" /\ UNCHANGED <<messages, box, cmd, ids>>
        /\ stage'[t] \in {"copy", "write"}
    BY <1>1, <1>i DEF Peek, Treating, StageTo, CommandOK, vars, store
  <2>2. PICK x \in Row(cmd[t].box, Head(ids[t])) : read' = [read EXCEPT ![t] = x.deleted]
    BY <1>1 DEF Peek
  <2>3. x \in messages /\ x.box = box[cmd[t].box] /\ x.uid = Head(ids[t])
    BY <2>2 DEF Row, Stored
  <2>4. <<cmd[t].box, Head(ids[t])>> \in given'
    <3> DEFINE p == <<cmd[t].box, x.uid, x.mail>>
    <3>1. p \in Places
      BY <1>c, <2>1, <2>2 DEF Places, Row
    <3>2. <<p[1], p[2]>> \in given
      BY <3>1 DEF MeantInv, Steady
    <3> QED
      BY <2>3, <3>2 DEF Steady
  <2>5. ASSUME read'[t] PROVE \A y \in Row(cmd[t].box, Head(ids[t])) : y.mail \in asked'
    <3>1. x.deleted
      BY <1>i, <2>2, <2>5 DEF CommandOK
    <3>2. x.mail \in asked'
      BY <1>a, <2>1, <2>3, <3>1 DEF FlagsAsked
    <3>3. \A y \in Row(cmd[t].box, Head(ids[t])) : y = x
      BY <2>3 DEF Row, Stored, TablesInv, FolderInv, UniqueUids
    <3> QED
      BY <3>2, <3>3
  <2> QED
    BY <2>1, <2>4, <2>5 DEF Sure, AllAsked, Row, Stored
<1>2. ASSUME NEW n \in Names, NEW m \in Mails, NEW deleted \in BOOLEAN,
             Begin(t, n, m, deleted)
      PROVE  Sure(t)'
  <2>1. /\ stage'[t] = "create" /\ cmd'[t].box = n
        /\ pc'[t] = "insert" /\ target'[t] = box'[n]
    BY <1>2, <1>i DEF Begin, ReadNext, StageTo, CommandOK, TypeInv, TypeOK, store
  <2> QED
    BY <2>1 DEF Sure
<1>3. ASSUME NEW m \in Mails, BeginCopy(t, m) PROVE Sure(t)'
  <2>1. stage'[t] = "create" /\ cmd'[t].op = "copy"
    BY <1>3, <1>i DEF BeginCopy, StageTo, CommandOK, Shape
  <2> QED
    BY <2>1 DEF Sure
<1>4. CASE Create(t)
  <2>1. /\ stage[t] = "create" /\ pc[t] = "insert"
        /\ UNCHANGED <<stage, cmd, read, box, job, target, slot>>
        /\ messages' = messages \cup {NewRow(t)}
        /\ \A x \in Stored(target[t]) : x.uid # slot[t]
    BY <1>4 DEF Create, Insert, command, NewRow, CanInsert
  <2>2. ASSUME cmd[t].op = "append"
        PROVE  /\ target[t] = box[cmd[t].box]
               /\ <<cmd[t].box, slot[t]>> \in given'
               /\ \A y \in messages' : y.box = box[cmd[t].box] /\ y.uid = slot[t] =>
                     y.mail = job[t].mail
    <3> DEFINE p == <<cmd[t].box, slot[t], job[t].mail>>
    <3>1. target[t] = box[cmd[t].box]
      BY <2>1, <2>2 DEF Sure
    <3>2. /\ NewRow(t).box = target[t] /\ NewRow(t).uid = slot[t]
          /\ NewRow(t).mail = job[t].mail
      BY DEF NewRow
    <3>3. NewRow(t) \in Stored(box[cmd[t].box])'
      BY <2>1, <3>1, <3>2 DEF Stored
    <3>4. p \in Places'
      BY <1>c, <2>1, <3>2, <3>3 DEF Places
    <3>5. <<p[1], p[2]>> \in given'
      BY <3>4 DEF Steady
    <3> QED
      BY <2>1, <3>1, <3>2, <3>5 DEF Stored
  <2> QED
    BY <2>1, <2>2 DEF Sure, Row, Stored
<1>5. CASE Created(t)
  <2>1. /\ stage[t] = "create" /\ stage'[t] = "flags" /\ pid'[t] = slot[t]
        /\ UNCHANGED <<cmd, read, messages, box>> /\ pc[t] = "bump"
    BY <1>5, <1>i DEF Created, Bump, BumpLost, StageTo, CommandOK, store
  <2>2. ASSUME cmd[t].op = "append", read[t]
        PROVE  /\ <<cmd[t].box, slot[t]>> \in given'
               /\ \A x \in Row(cmd[t].box, slot[t]) : x.mail \in asked'
    <3>1. /\ <<cmd[t].box, slot[t]>> \in given
          /\ \A x \in Row(cmd[t].box, slot[t]) : x.mail = job[t].mail
      BY <2>1, <2>2 DEF Sure
    <3>2. job[t].mail \in Asking
      BY <2>1, <2>2 DEF Asking
    <3> QED
      BY <1>a, <2>1, <3>1, <3>2 DEF MeantInv, Steady
  <2>3. cmd[t].op = "copy" => ~read[t]
    BY <2>1 DEF Running
  <2> QED
    BY <2>1, <2>2, <2>3 DEF Sure, AllAsked, Row, Stored
<1>6. CASE AppendFlag(t)
  <2>1. stage[t] = "flags" /\ cmd[t].op = "append" /\ UNCHANGED <<stage, cmd, read, pid>>
    BY <1>6 DEF AppendFlag, command
  <2>2. ASSUME read[t]
        PROVE  /\ <<cmd[t].box, pid[t]>> \in given'
               /\ \A y \in messages' : y.box = box'[cmd'[t].box] /\ y.uid = pid[t] =>
                     y.mail \in asked'
    BY <2>1, <2>2, StillAsked DEF Sure, Rival
  <2> QED
    BY <2>1, <2>2 DEF Sure, AllAsked, Row, Stored
<1>7. Resolve(t) \/ Write(t) \/ CopyFlags(t) \/ Move(t) \/ BeginMove(t) \/ CreateRejected(t)
         \/ MoveFailed(t) \/ Finish(t) => stage'[t] \in {"idle", "resolve", "treat", "move"}
  BY <1>i DEF Resolve, Write, CopyFlags, Move, BeginMove, CreateRejected, MoveFailed, Finish,
     NextId, Done, StageTo, CommandOK
<1> QED
  BY <1>0, <1>1, <1>2, <1>3, <1>4, <1>5, <1>6, <1>7 DEF Command

\* \Deleted is on mails asked for, and stays so, in every step.
LEMMA FlagStep ==
  BaseInv /\ MeantInv /\ FlagInv /\ [ImapNext]_imapVars => FlagInv'
<1> SUFFICES ASSUME BaseInv, MeantInv, FlagInv, [ImapNext]_imapVars, stable', ~copied'
             PROVE  FlagsAsked' /\ \A t \in Threads : Sure(t)'
  BY DEF FlagInv
<1>1. CASE UNCHANGED imapVars
  <2>1. /\ UNCHANGED <<box, messages, pc, job, target, slot, stage, cmd, ids, read, pid>>
        /\ UNCHANGED <<stable, given, asked, copied>>
    BY <1>1 DEF imapVars, vars, store, calls, command, history
  <2> QED
    BY <2>1 DEF FlagInv, FlagsAsked, Sure, AllAsked, Row, Stored
<1>2. CASE ImapNext
  <2>1. Remember /\ Steady
    BY <1>2, SteadyStep DEF ImapNext
  <2>2. ~copied /\ \A t \in Threads :
           ~(Running(t, {"copy"})' /\ stage'[t] = "flags" /\ read'[t])
    BY <2>1 DEF Remember
  <2>3. FlagsAsked /\ \A t \in Threads : Sure(t)
    BY <2>1, <2>2 DEF FlagInv, Steady
  <2>4. FlagsAsked'
    BY <1>2, <2>1, <2>2, FlagsStep
  <2>5. ASSUME NEW t \in Threads PROVE Sure(t)'
    <3>1. CASE Bystander(t)
      BY <2>1, <2>3, <3>1, SureStandsBy
    <3>2. CASE Command(t)
      BY <2>1, <2>2, <2>3, <3>2, SureCommand
    <3>3. CASE Issued(t) \/ Stopped
      <4>1. stage'[t] \in {"idle", "resolve", "treat"}
        BY <3>3 DEF Issued, Issue, StageTo, Stopped, BaseInv, CommandInv, CommandOK
      <4> QED
        BY <4>1 DEF Sure
    <3> QED
      BY <1>2, <3>1, <3>2, <3>3, WhoActs DEF BaseInv
  <2> QED
    BY <2>4, <2>5
<1> QED
  BY <1>1, <1>2

\* The tables are MailStore's, and what MailStore keeps of them holds here.
LEMMA BaseInvariant == ImapSpec => []BaseInv
<1>1. ImapInit => BaseInv
  <2>1. ImapInit => Init
    BY DEF ImapInit
  <2> QED
    BY <2>1, CommandInit, HistoryInit, TablesInit DEF BaseInv
<1>2. BaseInv /\ [ImapNext]_imapVars => BaseInv'
  BY StepRefines, TypeStep, BoundedStep, CommandStep, HistoryStep, TablesStep
  DEF BaseInv, CommandInv
<1> QED
  BY <1>1, <1>2, PTL DEF ImapSpec

\* However STOREs that look numbers up, read, wait and write back, moves,
\* appends and copies of any number of connections interleave, \Deleted is only
\* on mails that a client's STORE or APPEND meant when it was issued, and that
\* no undisturbed STORE has taken the flag from since (mailbox.go:44-49,
\* 226-249).  Names, uids and the numbers still to be looked up are taken to be
\* stable, and no COPY to have written \Deleted (mailbox.go:268).
THEOREM DeletedMailsWereAsked == ImapSpec => []DeletedWasAsked
<1>1. ImapInit => MeantInv /\ FlagInv
  <2> SUFFICES ASSUME ImapInit PROVE MeantInv /\ FlagInv
    OBVIOUS
  <2>1. /\ messages = {} /\ \A t \in Threads : /\ stage[t] = "idle"
                                                /\ named[t] = {} /\ goal[t] = {}
    BY DEF ImapInit, Init
  <2>2. Places = {} /\ Asking = {}
    BY <2>1 DEF Places, Asking, Stored
  <2> QED
    BY <2>1, <2>2 DEF MeantInv, FlagInv, FlagsAsked, Sure, Running, Goal
<1>2. FlagInv => DeletedWasAsked
  BY DEF FlagInv, FlagsAsked, DeletedWasAsked
<1> QED
  BY <1>1, <1>2, BaseInvariant, MeantStep, FlagStep, PTL DEF ImapSpec

=============================================================================
