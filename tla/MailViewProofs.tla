---------------------------- MODULE MailViewProofs ----------------------------
(***************************************************************************)
(* Proofs about MailView: what sequence numbers and UIDNEXT mean, for any  *)
(* number of goroutines, folders, mails and faults.                        *)
(*                                                                         *)
(* The argument is about one mailbox that never lost a row and never       *)
(* counted a uid for nothing.  Its uids are 1 .. N; the counter is at N    *)
(* while a writer still owes the increment (or will never pay it), and at  *)
(* N + 1 otherwise.  The keys refuse a slot up to N and no slot is above   *)
(* the counter, so the next row can only be N + 1.                         *)
(*                                                                         *)
(* A listing is complete because an acknowledged mail is below the uid     *)
(* counter, so the request reaches it, and every mail due is then shown,   *)
(* read and about to be shown, or still to be asked for.                   *)
(***************************************************************************)
EXTENDS MailView, MailStoreProofs, FiniteSetTheorems

Uids(b) == {x.uid : x \in Stored(b)}

Bumping(t, b) == pc[t] = "bump" /\ target[t] = b

EvenBox(b) ==
    \E N \in Nat :
        /\ Uids(b) = 1 .. N
        /\ uidNext[b] \in {N, N + 1}
        /\ \A t \in Threads : Bumping(t, b) => slot[t] = N /\ uidNext[b] = N
        /\ \A t, u \in Threads : Bumping(t, b) /\ Bumping(u, b) => t = u

EvenInv == \A b \in BoxIds \ uneven : EvenBox(b)

\* This step takes no row from b and counts nothing for nothing.
StaysEven(b) == ~LosesRow(b) /\ ~CountsNothing(b)

-----------------------------------------------------------------------------
(* One mailbox through one step                                            *)

\* A mailbox that keeps its rows keeps their uids.
LEMMA UidsKept ==
  ASSUME NEW b \in BoxIds, StaysEven(b) PROVE Uids(b) \subseteq Uids(b)'
  BY DEF StaysEven, LosesRow, Uids

\* No rows, no counter and no new debt: nothing has changed for b.
LEMMA EvenKept ==
  ASSUME NEW b \in BoxIds, EvenBox(b), StaysEven(b),
         Uids(b)' \subseteq Uids(b),
         uidNext'[b] = uidNext[b],
         \A t \in Threads : Bumping(t, b)' => Bumping(t, b) /\ slot'[t] = slot[t]
  PROVE  EvenBox(b)'
<1>1. Uids(b)' = Uids(b)
  BY UidsKept
<1>2. PICK N \in Nat :
         /\ Uids(b) = 1 .. N
         /\ uidNext[b] \in {N, N + 1}
         /\ \A t \in Threads : Bumping(t, b) => slot[t] = N /\ uidNext[b] = N
         /\ \A t, u \in Threads : Bumping(t, b) /\ Bumping(u, b) => t = u
  BY DEF EvenBox
<1>3. /\ Uids(b)' = 1 .. N
      /\ uidNext'[b] \in {N, N + 1}
      /\ \A t \in Threads : Bumping(t, b)' => slot'[t] = N /\ uidNext'[b] = N
      /\ \A t, u \in Threads : Bumping(t, b)' /\ Bumping(u, b)' => t = u
  BY <1>1, <1>2
<1> QED
  BY <1>3 DEF EvenBox

\* The INSERT of another writer can only have been at N + 1.
LEMMA EvenInsert ==
  ASSUME TypeInv, NEW b \in BoxIds, EvenBox(b), StaysEven(b),
         NEW t \in Threads, Insert(t)
  PROVE  EvenBox(b)'
<1>t. /\ pc \in [Threads -> {"idle", "insert", "bump", "move"}]
      /\ target \in [Threads -> 0 .. MaxBox]
      /\ slot[t] \in 1 .. uidNext[target[t]]
      /\ uidNext \in [BoxIds -> Nat \ {0}]
      /\ target[t] \in BoxIds
  BY DEF TypeInv, TypeOK, CallsOK, Insert
<1>1. CASE target[t] # b
  <2>1. Uids(b)' \subseteq Uids(b)
    BY <1>1 DEF Insert, Uids, Stored
  <2>2. \A u \in Threads : Bumping(u, b)' => Bumping(u, b) /\ slot'[u] = slot[u]
    BY <1>1, <1>t DEF Insert, Bumping
  <2> QED
    BY <2>1, <2>2, EvenKept DEF Insert
<1>2. CASE target[t] = b
  <2>1. PICK N \in Nat :
           /\ Uids(b) = 1 .. N
           /\ uidNext[b] \in {N, N + 1}
           /\ \A u \in Threads : Bumping(u, b) => slot[u] = N /\ uidNext[b] = N
    BY DEF EvenBox
  <2>2. slot[t] \notin Uids(b)
    BY <1>2 DEF Insert, CanInsert, Uids
  <2>3. slot[t] = N + 1 /\ uidNext[b] = N + 1
    BY <1>2, <1>t, <2>1, <2>2
  <2>4. Uids(b)' = Uids(b) \cup {N + 1}
    <3> DEFINE row == [box |-> target[t], uid |-> slot[t], mail |-> job[t].mail,
                       deleted |-> FALSE]
    <3>1. messages' = messages \cup {row} /\ row.box = b /\ row.uid = N + 1
      BY <1>2, <2>3 DEF Insert
    <3> HIDE DEF row
    <3> QED
      BY <3>1 DEF Uids, Stored
  <2>5. Uids(b)' = 1 .. N + 1
    BY <2>1, <2>4
  <2>6. \A u \in Threads : Bumping(u, b)' => u = t
    BY <1>2, <1>t, <2>1, <2>3 DEF Insert, Bumping
  <2>7. slot' = slot /\ uidNext' = uidNext
    BY DEF Insert
  <2>8. /\ \A u \in Threads : Bumping(u, b)' => slot'[u] = N + 1 /\ uidNext'[b] = N + 1
        /\ \A u, v \in Threads : Bumping(u, b)' /\ Bumping(v, b)' => u = v
        /\ uidNext'[b] \in {N + 1, (N + 1) + 1}
    BY <2>3, <2>6, <2>7
  <2> QED
    BY <2>5, <2>8 DEF EvenBox
<1> QED
  BY <1>1, <1>2

\* The writer that owes the increment pays it; there was only one.
LEMMA EvenBump ==
  ASSUME TypeInv, NEW b \in BoxIds, EvenBox(b), StaysEven(b),
         NEW t \in Threads, Bump(t)
  PROVE  EvenBox(b)'
<1>t. /\ pc \in [Threads -> {"idle", "insert", "bump", "move"}]
      /\ target \in [Threads -> 0 .. MaxBox]
      /\ slot \in [Threads -> Nat]
      /\ uidNext \in [BoxIds -> Nat \ {0}]
      /\ target[t] \in BoxIds
  BY DEF TypeInv, TypeOK, CallsOK, Bump
<1>1. Uids(b)' = Uids(b)
  BY DEF Bump, Uids, Stored
<1>2. \A u \in Threads : Bumping(u, b)' => u # t /\ Bumping(u, b) /\ slot'[u] = slot[u]
  BY <1>t DEF Bump, Return, Bumping
<1>3. CASE target[t] # b \/ target[t] \notin Live
  <2>1. uidNext'[b] = uidNext[b]
    BY <1>3, <1>t DEF Bump, Increment
  <2> QED
    BY <1>1, <1>2, <2>1, EvenKept
<1>4. CASE target[t] = b /\ target[t] \in Live
  <2>1. PICK N \in Nat :
           /\ Uids(b) = 1 .. N
           /\ \A u \in Threads : Bumping(u, b) => slot[u] = N /\ uidNext[b] = N
           /\ \A u, v \in Threads : Bumping(u, b) /\ Bumping(v, b) => u = v
    BY DEF EvenBox
  <2>2. Bumping(t, b)
    BY <1>4 DEF Bump, Bumping
  <2>3. uidNext'[b] = N + 1
    BY <1>4, <1>t, <2>1, <2>2 DEF Bump, Increment
  <2>4. \A u \in Threads : ~Bumping(u, b)'
    BY <1>2, <2>1, <2>2
  <2>5. /\ Uids(b)' = 1 .. N
        /\ uidNext'[b] \in {N, N + 1}
        /\ \A u \in Threads : Bumping(u, b)' => slot'[u] = N /\ uidNext'[b] = N
        /\ \A u, v \in Threads : Bumping(u, b)' /\ Bumping(v, b)' => u = v
    BY <1>1, <2>1, <2>3, <2>4
  <2> QED
    BY <2>5 DEF EvenBox
<1> QED
  BY <1>3, <1>4

\* A MOVE that takes nothing from b and does not count in vain moves a row to
\* N + 1 and the counter to N + 2.
LEMMA EvenMove ==
  ASSUME TypeInv, NEW b \in BoxIds, EvenBox(b), StaysEven(b),
         NEW t \in Threads, MoveCommit(t)
  PROVE  EvenBox(b)'
<1>t. /\ pc \in [Threads -> {"idle", "insert", "bump", "move"}]
      /\ target \in [Threads -> 0 .. MaxBox]
      /\ slot[t] \in 1 .. uidNext[target[t]]
      /\ uidNext \in [BoxIds -> Nat \ {0}]
      /\ target[t] \in BoxIds
      /\ pc[t] = "move"
  BY DEF TypeInv, TypeOK, CallsOK, MoveCommit
<1>1. \A u \in Threads : Bumping(u, b)' => Bumping(u, b) /\ slot'[u] = slot[u]
  BY <1>t DEF MoveCommit, Return, Bumping
<1>2. CASE target[t] # b
  <2>1. Uids(b)' \subseteq Uids(b)
    BY <1>2 DEF MoveCommit, MoveRows, Moved, At, Uids, Stored
  <2>2. uidNext'[b] = uidNext[b]
    BY <1>2, <1>t DEF MoveCommit, Increment
  <2> QED
    BY <1>1, <2>1, <2>2, EvenKept
<1>3. CASE target[t] = b /\ ~CanInsert(b, slot[t])
  <2>1. \A x \in Moving(t) : At(x, b, slot[t]) \in Stored(b) /\ x = At(x, b, slot[t])
    BY <1>3 DEF MoveCommit, CanMove, Moving, At, Stored, TypeInv, TypeOK
  <2>2. Moved(t) = Moving(t) /\ Moving(t) \subseteq messages
    BY <1>3, <2>1 DEF Moved, Moving
  <2>3. messages' = messages
    BY <2>2 DEF MoveCommit, MoveRows
  <2>4. uidNext'[b] = uidNext[b]
    BY <1>3, <1>t, <2>3 DEF StaysEven, CountsNothing, Stored, MoveCommit, Return
  <2>5. Uids(b)' \subseteq Uids(b)
    BY <2>3 DEF Uids, Stored
  <2> QED
    BY <1>1, <2>4, <2>5, EvenKept
<1>4. CASE target[t] = b /\ CanInsert(b, slot[t])
  <2>1. PICK N \in Nat :
           /\ Uids(b) = 1 .. N
           /\ uidNext[b] \in {N, N + 1}
           /\ \A u \in Threads : Bumping(u, b) => slot[u] = N /\ uidNext[b] = N
           /\ \A u, v \in Threads : Bumping(u, b) /\ Bumping(v, b) => u = v
    BY DEF EvenBox
  <2>2. slot[t] \notin Uids(b) /\ b \in Live
    BY <1>4 DEF CanInsert, Uids
  <2>3. slot[t] = N + 1 /\ uidNext[b] = N + 1
    BY <1>4, <1>t, <2>1, <2>2
  <2>4. uidNext'[b] = N + 2
    BY <1>4, <1>t, <2>2, <2>3 DEF MoveCommit, Increment
  <2>5. \A u \in Threads : ~Bumping(u, b)'
    BY <1>1, <2>1, <2>3
  <2>6. Uids(b)' \subseteq Uids(b) \cup {N + 1}
    BY <1>4, <2>3 DEF MoveCommit, MoveRows, Moved, At, Uids, Stored
  <2>7. N + 1 \in Uids(b)'
    <3>1. Moving(t) # {}
      <4>1. SUFFICES ASSUME Moving(t) = {} PROVE FALSE
        OBVIOUS
      <4>2. messages' = messages
        BY <4>1 DEF MoveCommit, MoveRows, Moved
      <4> QED
        BY <1>4, <1>t, <2>3, <2>4, <4>2
        DEF StaysEven, CountsNothing, Stored, MoveCommit, Return
    <3>2. PICK x \in Moving(t) : TRUE
      BY <3>1
    <3>3. At(x, b, N + 1) \in messages'
      BY <1>4, <2>3, <3>2 DEF MoveCommit, MoveRows, Moved
    <3> QED
      BY <3>3 DEF Uids, Stored, At
  <2>8. Uids(b)' = 1 .. N + 1
    <3>1. 1 .. N \subseteq Uids(b)'
      BY <2>1, UidsKept
    <3>2. Uids(b)' \subseteq (1 .. N) \cup {N + 1}
      BY <2>1, <2>6
    <3>3. (1 .. N) \cup {N + 1} = 1 .. N + 1
      OBVIOUS
    <3> QED
      BY <2>7, <3>1, <3>2, <3>3
  <2>9. /\ uidNext'[b] \in {N + 1, (N + 1) + 1}
        /\ \A u \in Threads : Bumping(u, b)' => slot'[u] = N + 1 /\ uidNext'[b] = N + 1
        /\ \A u, v \in Threads : Bumping(u, b)' /\ Bumping(v, b)' => u = v
    BY <2>4, <2>5
  <2> QED
    BY <2>8, <2>9 DEF EvenBox
<1> QED
  BY <1>2, <1>3, <1>4

\* No other statement adds a row, a debt or a uid.
LEMMA EvenStep ==
  TypeInv /\ Next => \A b \in BoxIds : EvenBox(b) /\ StaysEven(b) => EvenBox(b)'
<1> SUFFICES ASSUME TypeInv, Next, NEW b \in BoxIds, EvenBox(b), StaysEven(b)
             PROVE  EvenBox(b)'
  OBVIOUS
<1>t. /\ pc \in [Threads -> {"idle", "insert", "bump", "move"}]
      /\ target \in [Threads -> 0 .. MaxBox]
      /\ slot \in [Threads -> Nat]
  BY DEF TypeInv, TypeOK
<1> DEFINE Quiet == \A t \in Threads : Bumping(t, b)' => Bumping(t, b) /\ slot'[t] = slot[t]
<1>1. ASSUME UNCHANGED <<messages, uidNext>>, Quiet PROVE EvenBox(b)'
  BY <1>1, EvenKept DEF Uids, Stored
<1>2. ASSUME messages' \subseteq messages, UNCHANGED <<uidNext, calls>>
      PROVE  EvenBox(b)'
  <2>1. Quiet
    BY <1>2 DEF calls, Bumping
  <2>2. Uids(b)' \subseteq Uids(b)
    BY <1>2 DEF Uids, Stored
  <2> QED
    BY <1>2, <2>1, <2>2, EvenKept
<1>3. ASSUME NEW n \in Names, NEW u \in 1 .. MaxUid, NEW d \in BOOLEAN,
             UpdateFlags(n, u, d)
      PROVE  EvenBox(b)'
  <2>1. Quiet
    BY <1>3 DEF UpdateFlags, calls, Bumping
  <2>2. Uids(b)' \subseteq Uids(b)
    BY <1>3 DEF UpdateFlags, Flagged, Uids, Stored
  <2> QED
    BY <1>3, <2>1, <2>2, EvenKept DEF UpdateFlags
<1>4. ASSUME NEW t \in Threads, NEW n \in Names, NEW m \in Mails,
             NEW via \in {"MailCreate", "Deliver"}, ReadNext(t, n, m, via)
      PROVE  EvenBox(b)'
  <2>1. Quiet
    BY <1>4, <1>t DEF ReadNext, Bumping
  <2> QED
    BY <1>1, <1>4, <2>1 DEF ReadNext, store
<1>5. ASSUME NEW t \in Threads,
             InsertRejected(t) \/ BumpLost(t) \/ MoveAborted(t)
      PROVE  EvenBox(b)'
  <2>1. Quiet
    BY <1>5, <1>t DEF InsertRejected, BumpLost, MoveAborted, Return, Bumping
  <2> QED
    BY <1>1, <1>5, <2>1 DEF InsertRejected, BumpLost, MoveAborted, store
<1>6. ASSUME NEW t \in Threads, NEW n \in Names, NEW dest \in Names,
             NEW u \in 1 .. MaxUid, MoveRead(t, n, u, dest)
      PROVE  EvenBox(b)'
  <2>1. Quiet
    BY <1>6, <1>t DEF MoveRead, Bumping
  <2> QED
    BY <1>1, <1>6, <2>1 DEF MoveRead, store
<1>7. ASSUME Crash PROVE EvenBox(b)'
  <2>1. Quiet
    BY <1>7, <1>t DEF Crash, Bumping
  <2> QED
    BY <1>1, <1>7, <2>1 DEF Crash, store
<1> HIDE DEF Quiet
<1> QED
  BY <1>2, <1>3, <1>4, <1>5, <1>6, <1>7, EvenInsert, EvenBump, EvenMove
  DEF Next, MailDelete, MailExpunge, Remove, MailboxCreate, MailboxDelete,
      MailboxRename

-----------------------------------------------------------------------------
(* Sequence numbers                                                        *)

\* An empty mailbox is even, whatever rows are removed from others later.
LEMMA EvenInit == ViewInit => EvenInv
<1> SUFFICES ASSUME ViewInit, NEW b \in BoxIds PROVE EvenBox(b)
  BY DEF EvenInv
<1>1. /\ Uids(b) = 1 .. 0
      /\ uidNext[b] \in {0, 0 + 1}
      /\ \A t \in Threads : ~Bumping(t, b)
  BY DEF ViewInit, Init, Uids, Stored, Bumping
<1> QED
  BY <1>1 DEF EvenBox

\* A command of the client leaves the tables alone.
LEMMA ViewStep ==
  TypeInv /\ EvenInv /\ [ViewNext]_viewVars => (TypeInv /\ EvenInv)'
<1> SUFFICES ASSUME TypeInv, EvenInv, [ViewNext]_viewVars PROVE (TypeInv /\ EvenInv)'
  OBVIOUS
<1>1. TypeInv'
  BY TypeStep DEF ViewNext, StoreNext, viewVars
<1>2. CASE StoreNext
  <2>1. ASSUME NEW b \in BoxIds \ uneven' PROVE EvenBox(b)'
    <3>1. b \notin uneven /\ StaysEven(b)
      BY <1>2, <2>1 DEF StoreNext, StaysEven
    <3> QED
      BY <1>2, <3>1, EvenStep DEF StoreNext, EvenInv
  <2> QED
    BY <1>1, <2>1 DEF EvenInv, BoxIds
<1>3. CASE UNCHANGED <<vars, uneven>>
  <2>1. ASSUME NEW b \in BoxIds \ uneven' PROVE EvenBox(b)'
    <3>1. PICK N \in Nat :
             /\ Uids(b) = 1 .. N
             /\ uidNext[b] \in {N, N + 1}
             /\ \A t \in Threads : Bumping(t, b) => slot[t] = N /\ uidNext[b] = N
             /\ \A t, u \in Threads : Bumping(t, b) /\ Bumping(u, b) => t = u
      BY <1>3 DEF EvenInv, EvenBox
    <3>2. /\ Uids(b)' = Uids(b)
          /\ uidNext' = uidNext /\ slot' = slot
          /\ \A t \in Threads : Bumping(t, b)' = Bumping(t, b)
      BY <1>3 DEF vars, store, calls, Uids, Stored, Bumping
    <3>3. /\ Uids(b)' = 1 .. N
          /\ uidNext'[b] \in {N, N + 1}
          /\ \A t \in Threads : Bumping(t, b)' => slot'[t] = N /\ uidNext'[b] = N
          /\ \A t, u \in Threads : Bumping(t, b)' /\ Bumping(u, b)' => t = u
      BY <3>1, <3>2
    <3> QED
      BY <3>3 DEF EvenBox
  <2> QED
    BY <1>1, <2>1 DEF EvenInv, BoxIds
<1> QED
  BY <1>2, <1>3 DEF ViewNext, viewVars

\* A folder's mailbox is one of those the invariant is about.
LEMMA FolderBox ==
  ASSUME TypeInv, NEW n \in Names, box[n] # 0 PROVE box[n] \in BoxIds
  BY BoundsAssumption DEF TypeInv, TypeOK, BoxIds

\* What evenness says of a folder.
LEMMA EvenFolder == TypeInv /\ EvenInv => SequenceIsUid
<1> SUFFICES ASSUME TypeInv, EvenInv, NEW n \in Names, box[n] # 0, box[n] \notin uneven
             PROVE  /\ \A r \in Rows(n) : \A k \in 1 .. r[1] : \E q \in Rows(n) : q[1] = k
                    /\ \A k \in 1 .. NextID(n) - 1 : \E q \in Rows(n) : q[1] = k
  BY DEF SequenceIsUid
<1>1. PICK N \in Nat : Uids(box[n]) = 1 .. N /\ uidNext[box[n]] \in {N, N + 1}
  BY FolderBox DEF EvenInv, EvenBox
<1>2. ASSUME NEW k \in 1 .. N PROVE \E q \in Rows(n) : q[1] = k
  <2>1. PICK x \in Stored(box[n]) : x.uid = k
    BY <1>1 DEF Uids
  <2>2. <<x.uid, x.mail>> \in Rows(n)
    BY DEF Rows
  <2> QED
    BY <2>1, <2>2
<1>3. \A r \in Rows(n) : r[1] \in 1 .. N
  BY <1>1 DEF Uids, Rows
<1> QED
  BY <1>1, <1>2, <1>3 DEF NextID

\* Where no mail is ever removed, sequence numbers are uids and uid_next - 1 is
\* the last of both (mailbox.go:43), under every interleaving of deliveries and
\* moves, lost statements and crashes.
THEOREM NumbersAreUids == ViewSpec => []SequenceIsUid
<1>1. ViewInit => TypeInv
  BY TypeInit DEF ViewInit
<1> QED
  BY <1>1, EvenInit, ViewStep, EvenFolder, PTL DEF ViewSpec

-----------------------------------------------------------------------------
(* UIDNEXT                                                                 *)

\* Every row a step adds to an even mailbox is at its counter.
LEMMA NewRowsAtNext ==
  ASSUME TypeInv, Next, NEW b \in BoxIds, EvenBox(b)
  PROVE  \A y \in Stored(b)' :
            \/ \E x \in Stored(b) : x.uid = y.uid /\ x.mail = y.mail
            \/ y.uid = uidNext[b]
<1> DEFINE Claim(y) == \/ \E x \in Stored(b) : x.uid = y.uid /\ x.mail = y.mail
                       \/ y.uid = uidNext[b]
<1> SUFFICES ASSUME NEW y \in Stored(b)' PROVE Claim(y)
  OBVIOUS
<1>1. ASSUME NEW t \in Threads, pc[t] # "idle", target[t] = b, CanInsert(b, slot[t])
      PROVE  slot[t] = uidNext[b]
  <2>1. PICK N \in Nat : Uids(b) = 1 .. N /\ uidNext[b] \in {N, N + 1}
    BY DEF EvenBox
  <2>2. slot[t] \in 1 .. uidNext[b] /\ slot[t] \notin Uids(b)
    BY <1>1 DEF TypeInv, CallsOK, CanInsert, Uids
  <2> QED
    BY <2>1, <2>2
<1>2. ASSUME y \in messages PROVE Claim(y)
  BY <1>2 DEF Stored
<1>3. ASSUME NEW t \in Threads, Insert(t) PROVE Claim(y)
  <2>1. y \in messages \/ (y.box = target[t] /\ y.uid = slot[t])
    BY <1>3 DEF Insert, Stored
  <2>2. y.box = b
    BY DEF Stored
  <2> QED
    BY <1>1, <1>2, <1>3, <2>1, <2>2 DEF Insert
<1>4. ASSUME NEW t \in Threads, MoveCommit(t), y \notin messages PROVE Claim(y)
  <2>1. PICK z \in Moving(t) : y.box = target[t] /\ y.uid = slot[t] /\ y.mail = z.mail
    BY <1>4 DEF MoveCommit, MoveRows, Moved, At, Stored
  <2>2. y.box = b
    BY DEF Stored
  <2>3. CASE CanInsert(b, slot[t])
    BY <1>1, <1>4, <2>1, <2>2, <2>3 DEF MoveCommit
  <2>4. CASE \E x \in Moving(t) : x.box = target[t] /\ x.uid = slot[t]
    <3>1. z \in Stored(b) /\ z.uid = slot[t]
      BY <2>1, <2>2, <2>4 DEF Moving, Stored
    <3> QED
      BY <2>1, <3>1
  <2> QED
    BY <1>4, <2>1, <2>2, <2>3, <2>4 DEF MoveCommit, CanMove
<1>5. ASSUME NEW n \in Names, NEW u \in 1 .. MaxUid, NEW d \in BOOLEAN,
             UpdateFlags(n, u, d)
      PROVE  Claim(y)
  BY <1>5 DEF UpdateFlags, Flagged, Stored
<1>6. ASSUME messages' \subseteq messages PROVE Claim(y)
  BY <1>2, <1>6 DEF Stored
<1> HIDE DEF Claim
<1> QED
  BY <1>2, <1>3, <1>4, <1>5, <1>6
  DEF Next, store, ReadNext, InsertRejected, Bump, BumpLost, MoveRead, MoveAborted,
      MailDelete, MailExpunge, Remove, MailboxCreate, MailboxDelete, MailboxRename,
      Crash

\* uid_next never goes down.
LEMMA CounterGrowsStep == TypeInv /\ Next => CounterGrows
<1> SUFFICES ASSUME TypeInv, Next PROVE CounterGrows
  OBVIOUS
<1>t. uidNext \in [BoxIds -> Nat \ {0}]
  BY DEF TypeInv, TypeOK
<1>1. ASSUME NEW t \in Threads, Bump(t) \/ MoveCommit(t) PROVE CounterGrows
  <2>1. target[t] \in BoxIds
    BY <1>1 DEF Bump, MoveCommit, TypeInv, CallsOK
  <2> QED
    BY <1>1, <1>t, <2>1, Incremented DEF Bump, MoveCommit, CounterGrows
<1>2. ASSUME UNCHANGED uidNext PROVE CounterGrows
  BY <1>2, <1>t DEF CounterGrows
<1> QED
  BY <1>1, <1>2
  DEF Next, store, ReadNext, Insert, InsertRejected, BumpLost, MoveRead, MoveAborted,
      UpdateFlags, MailDelete, MailExpunge, Remove, MailboxCreate, MailboxDelete,
      MailboxRename, Crash

\* A protected folder keeps its mailbox.
LEMMA ProtectedKept ==
  ASSUME TypeInv, Next, NEW n \in Protected, box[n] # 0 PROVE box'[n] = box[n]
<1>1. box \in [Names -> 0 .. MaxBox] /\ n \in Names
  BY BoundsAssumption DEF TypeInv, TypeOK
<1> QED
  BY <1>1
  DEF Next, store, ReadNext, Insert, InsertRejected, Bump, BumpLost, MoveRead,
      MoveCommit, MoveAborted, UpdateFlags, MailDelete, MailExpunge, Remove,
      MailboxCreate, MailboxDelete, MailboxRename, Crash

\* What STATUS reported of a protected folder is still at most its UIDNEXT.
ReportInv ==
    /\ reported \in [Names -> [next : Nat, rows : SUBSET (Nat \X Mails)]]
    /\ \A n \in Protected :
          reported[n].next <= IF box[n] = 0 THEN 1 ELSE uidNext[box[n]]

ViewInv == TypeInv /\ EvenInv /\ ReportInv /\ NothingArrivesBehind

\* Nothing is stored, and STATUS has reported nothing.
LEMMA ReportInit == ViewInit => ReportInv /\ NothingArrivesBehind
  BY BoundsAssumption DEF ViewInit, Init, ReportInv, NothingArrivesBehind

\* A step of the tables only adds rows at or above what was reported.
LEMMA ReportStoreStep ==
  ViewInv /\ StoreNext /\ TypeInv' => (ReportInv /\ NothingArrivesBehind)'
<1> SUFFICES ASSUME ViewInv, StoreNext, TypeInv'
             PROVE  (ReportInv /\ NothingArrivesBehind)'
  OBVIOUS
<1>1. Next /\ reported' = reported /\ CounterGrows
  BY CounterGrowsStep DEF StoreNext, ViewInv
<1>2. ReportInv'
  <2>1. ASSUME NEW n \in Protected
        PROVE  reported[n].next <= IF box'[n] = 0 THEN 1 ELSE uidNext'[box'[n]]
    <3>1. n \in Names /\ reported[n].next \in Nat
      BY BoundsAssumption DEF ViewInv, ReportInv
    <3>2. CASE box[n] = 0
      <4>1. reported[n].next <= 1
        BY <3>2 DEF ViewInv, ReportInv
      <4>2. box'[n] # 0 => uidNext'[box'[n]] \in Nat \ {0}
        BY <1>1, <3>1, BoundsAssumption DEF TypeInv, TypeOK, BoxIds
      <4> QED
        BY <3>1, <4>1, <4>2
    <3>3. CASE box[n] # 0
      <4>1. box'[n] = box[n] /\ box[n] \in BoxIds
        BY <1>1, <3>1, <3>3, ProtectedKept, FolderBox DEF ViewInv
      <4>2. /\ reported[n].next <= uidNext[box[n]]
            /\ uidNext[box[n]] <= uidNext'[box[n]]
            /\ uidNext[box[n]] \in Nat /\ uidNext'[box[n]] \in Nat
        BY <1>1, <3>3, <4>1 DEF ViewInv, ReportInv, CounterGrows, TypeInv, TypeOK
      <4> QED
        BY <3>1, <3>3, <4>1, <4>2
    <3> QED
      BY <3>2, <3>3
  <2> QED
    BY <1>1, <2>1 DEF ViewInv, ReportInv
<1>3. ASSUME NEW n \in Protected, box'[n] # 0, box'[n] \notin uneven',
             NEW r \in Rows(n)', r[1] < reported[n].next
      PROVE  r \in reported[n].rows
  <2>1. n \in Names /\ reported[n].next \in Nat
    BY BoundsAssumption DEF ViewInv, ReportInv
  <2>2. PICK y \in Stored(box[n])' : r = <<y.uid, y.mail>> /\ y.uid \in Nat \ {0}
    BY DEF Rows, Stored, TypeInv, TypeOK
  <2>3. box[n] # 0
    <3>1. box[n] = 0 => reported[n].next <= 1
      BY DEF ViewInv, ReportInv
    <3> QED
      BY <1>3, <2>1, <2>2, <3>1
  <2>4. box'[n] = box[n] /\ box[n] \in BoxIds /\ box[n] \notin uneven
    BY <1>1, <1>3, <2>1, <2>3, ProtectedKept, FolderBox DEF ViewInv, StoreNext
  <2>5. PICK b \in BoxIds : b = box[n]
    BY <2>4
  <2>6. y \in Stored(b)'
    BY <2>2, <2>4, <2>5 DEF Stored
  <2>7. \/ \E x \in Stored(b) : x.uid = y.uid /\ x.mail = y.mail
        \/ y.uid = uidNext[b]
    BY <1>1, <2>4, <2>5, <2>6, NewRowsAtNext DEF ViewInv, EvenInv
  <2>8. y.uid # uidNext[b]
    BY <1>3, <2>1, <2>2, <2>3, <2>5 DEF ViewInv, ReportInv, TypeInv, TypeOK
  <2>9. r \in Rows(n)
    BY <2>2, <2>5, <2>7, <2>8 DEF Rows
  <2> QED
    BY <1>3, <2>3, <2>4, <2>9 DEF ViewInv, NothingArrivesBehind
<1> QED
  BY <1>1, <1>2, <1>3 DEF NothingArrivesBehind

\* STATUS reports what there is; the other commands report nothing.
LEMMA ReportClientStep ==
  ViewInv /\ UNCHANGED <<vars, uneven>> /\ (ClientNext \/ UNCHANGED reported)
     => (ReportInv /\ NothingArrivesBehind)'
<1> SUFFICES ASSUME ViewInv, UNCHANGED <<vars, uneven>>,
                    ClientNext \/ UNCHANGED reported
             PROVE  (ReportInv /\ NothingArrivesBehind)'
  OBVIOUS
<1>1. /\ box' = box /\ uidNext' = uidNext /\ uneven' = uneven
      /\ \A n \in Names : Rows(n)' = Rows(n)
  BY DEF vars, store, Rows, Stored
<1>2. CASE UNCHANGED reported
  BY <1>1, <1>2, BoundsAssumption DEF ViewInv, ReportInv, NothingArrivesBehind
<1>3. ASSUME NEW n \in Names, Status(n) PROVE (ReportInv /\ NothingArrivesBehind)'
  <2>1. box[n] \in BoxIds /\ uidNext[box[n]] \in Nat
    BY <1>3, FolderBox DEF Status, ViewInv, TypeInv, TypeOK
  <2>2. Rows(n) \in SUBSET (Nat \X Mails)
    BY DEF Rows, Stored, ViewInv, TypeInv, TypeOK
  <2>3. /\ reported \in [Names -> [next : Nat, rows : SUBSET (Nat \X Mails)]]
        /\ reported' = [reported EXCEPT ![n] = [next |-> uidNext[box[n]], rows |-> Rows(n)]]
    BY <1>3 DEF Status, NextID, ViewInv, ReportInv
  <2>4. /\ reported' \in [Names -> [next : Nat, rows : SUBSET (Nat \X Mails)]]
        /\ reported'[n].next = uidNext[box[n]] /\ reported'[n].rows = Rows(n)
        /\ \A k \in Names \ {n} : reported'[k] = reported[k]
    BY <2>1, <2>2, <2>3
  <2>5. ReportInv'
    BY <1>1, <1>3, <2>1, <2>4, BoundsAssumption DEF Status, ViewInv, ReportInv
  <2>6. NothingArrivesBehind'
    BY <1>1, <2>4, BoundsAssumption DEF ViewInv, NothingArrivesBehind
  <2> QED
    BY <2>5, <2>6
<1> QED
  BY <1>2, <1>3
  DEF ClientNext, FetchUids, FetchNumbers, FetchFound, Begin, Resolve, ResolveFailed,
      Show, EndFetch

\* Where no mail is ever removed, a client that fetches from the UIDNEXT of its
\* last STATUS on misses none (mailbox.go:84, mariadb.go:75).
THEOREM NothingArrivesUnseen == ViewSpec => []NothingArrivesBehind
<1>1. ViewInit => ViewInv
  BY TypeInit, EvenInit, ReportInit DEF ViewInit, ViewInv
<1>2. ViewInv /\ [ViewNext]_viewVars => ViewInv'
  BY ViewStep, ReportStoreStep, ReportClientStep
  DEF ViewInv, ViewNext, viewVars, client
<1>3. ViewInv => NothingArrivesBehind
  BY DEF ViewInv
<1> QED
  BY <1>1, <1>2, <1>3, PTL DEF ViewSpec

-----------------------------------------------------------------------------
(* Listings: what the tables owe them                                      *)

\* The only mail at uid_next is the one whose writer owes the increment.
CountedOrOwed ==
    faults = 0 =>
        \A x \in messages :
            \/ x.uid < uidNext[x.box]
            \/ /\ x.uid = uidNext[x.box]
               /\ \E t \in Threads : Owes(t, x.box) /\ job[t].mail = x.mail

StoreInv ==
    /\ TypeInv
    /\ ForeignKey
    /\ UniqueUids
    /\ CountedOrOwed
    /\ MailInv

\* There are no rows yet.
LEMMA StoreInit == Init => StoreInv
  BY TypeInit, CounterInit, MailInit DEF Init, StoreInv, CounterInv, UniqueUids, CountedOrOwed

\* The step that writes a mail at uid_next makes its goroutine the debtor, and
\* the debt is paid before the goroutine goes on to another mail.
LEMMA CountedOrOwedStep ==
  TypeInv /\ ForeignKey /\ UniqueUids /\ CountedOrOwed /\ Next => CountedOrOwed'
<1> SUFFICES ASSUME TypeInv, ForeignKey, UniqueUids, CountedOrOwed, Next, faults' = 0
             PROVE  CountedOrOwed'
  BY DEF CountedOrOwed
<1> DEFINE Owing(t, x) == Owes(t, x.box) /\ job[t].mail = x.mail
           Below(x) == \/ x.uid < uidNext[x.box]
                       \/ x.uid = uidNext[x.box] /\ \E t \in Threads : Owing(t, x)
<1>f. faults \in Nat
  BY BoundsAssumption DEF TypeInv, TypeOK
<1>0. ASSUME faults = 0 PROVE \A x \in messages : Below(x)
  BY <1>0 DEF CountedOrOwed
<1>t. /\ uidNext \in [BoxIds -> Nat \ {0}]
      /\ pc \in [Threads -> {"idle", "insert", "bump", "move"}]
      /\ job \in [Threads -> Deliveries \cup Moves \cup {NoJob}]
      /\ target \in [Threads -> 0 .. MaxBox]
      /\ slot \in [Threads -> Nat]
      /\ \A x \in messages : x.box \in BoxIds /\ x.uid \in Nat
  BY DEF TypeInv, TypeOK
<1>s. \A t \in Threads : pc[t] # "idle" =>
         /\ target[t] \in BoxIds
         /\ slot[t] \in Nat
         /\ slot[t] <= uidNext[target[t]]
  BY <1>t DEF TypeInv, CallsOK
<1> USE DEF Owes
<1>1. ASSUME NEW t \in Threads, NEW n \in Names, NEW m \in Mails,
             NEW via \in {"MailCreate", "Deliver"}, ReadNext(t, n, m, via)
      PROVE  \A x \in messages' : Below(x)'
  BY <1>1, <1>0, <1>t, <1>s DEF ReadNext, store
<1>2. ASSUME NEW t \in Threads, Insert(t) PROVE \A x \in messages' : Below(x)'
  <2>1. ASSUME NEW x \in messages PROVE Below(x)'
    BY <1>2, <1>0, <1>t, <1>s DEF Insert
  <2>2. ASSUME NEW x \in messages', x \notin messages PROVE Below(x)'
    <3>1. x.box = target[t] /\ x.uid = slot[t] /\ x.mail = job[t].mail
      BY <1>2, <2>2 DEF Insert
    <3>2. UNCHANGED <<uidNext, target, slot, job>> /\ pc'[t] = "bump"
      BY <1>2, <1>t DEF Insert
    <3>3. x.uid = uidNext'[x.box] => Owing(t, x)'
      BY <3>1, <3>2
    <3> QED
      BY <1>2, <1>t, <1>s, <3>1, <3>2, <3>3 DEF Insert
  <2> QED
    BY <2>1, <2>2
<1>3. ASSUME NEW t \in Threads, InsertRejected(t)
      PROVE  \A x \in messages' : Below(x)'
  BY <1>3, <1>0, <1>t, <1>s, <1>f DEF InsertRejected, Return, store, Fault
<1>4. ASSUME NEW t \in Threads, Bump(t) PROVE \A x \in messages' : Below(x)'
  <2>1. CASE target[t] \in Live
    <3>1. ASSUME NEW x \in messages, x.box = target[t] PROVE x.uid < uidNext'[x.box]
      BY <1>4, <1>0, <1>t, <1>s, <2>1, <3>1 DEF Bump, Increment
    <3>2. ASSUME NEW x \in messages, x.box # target[t] PROVE Below(x)'
      BY <1>4, <1>0, <1>t, <1>s, <2>1, <3>2 DEF Bump, Return, Increment
    <3> QED
      BY <1>4, <3>1, <3>2 DEF Bump
  <2>2. CASE target[t] \notin Live
    BY <1>4, <1>0, <1>t, <1>s, <2>2 DEF Bump, Return, ForeignKey
  <2> QED
    BY <2>1, <2>2
<1>5. ASSUME NEW t \in Threads, NEW n \in Names, NEW dest \in Names,
             NEW u \in 1 .. MaxUid, MoveRead(t, n, u, dest)
      PROVE  \A x \in messages' : Below(x)'
  BY <1>5, <1>0, <1>t, <1>s DEF MoveRead, store
<1>6. ASSUME NEW t \in Threads, MoveCommit(t)
      PROVE  \A x \in messages' : Below(x)'
  <2>1. CASE target[t] \in Live
    <3>1. ASSUME NEW x \in messages, x.box = target[t] PROVE x.uid < uidNext'[x.box]
      BY <1>6, <1>0, <1>t, <1>s, <2>1, <3>1 DEF MoveCommit, Increment
    <3>2. ASSUME NEW x \in messages, x.box # target[t] PROVE Below(x)'
      BY <1>6, <1>0, <1>t, <1>s, <2>1, <3>2 DEF MoveCommit, Return, Increment
    <3>3. slot[t] < uidNext'[target[t]]
      BY <1>6, <1>t, <1>s, <2>1 DEF MoveCommit, Increment
    <3> QED
      BY <1>6, <3>1, <3>2, <3>3 DEF MoveCommit, MoveRows, Moved, At
  <2>2. CASE target[t] \notin Live
    <3>1. Moving(t) = {}
      BY <1>6, <2>2 DEF MoveCommit, CanMove, CanInsert, Moving, ForeignKey
    <3>2. messages' = messages /\ uidNext' = uidNext
      BY <1>6, <2>2, <3>1 DEF MoveCommit, MoveRows, Moved
    <3> QED
      BY <1>6, <1>0, <1>t, <3>2 DEF MoveCommit, Return
  <2> QED
    BY <2>1, <2>2
<1>7. ASSUME NEW t \in Threads, MoveAborted(t)
      PROVE  \A x \in messages' : Below(x)'
  BY <1>7, <1>0, <1>t, <1>s DEF MoveAborted, Return, store
<1>8. ASSUME NEW n \in Names, NEW u \in 1 .. MaxUid, NEW d \in BOOLEAN,
             UpdateFlags(n, u, d)
      PROVE  \A x \in messages' : Below(x)'
  BY <1>8, <1>0, <1>t, <1>s DEF UpdateFlags, Flagged, calls
<1>9. ASSUME UNCHANGED <<uidNext, calls, faults>>, messages' \subseteq messages
      PROVE  \A x \in messages' : Below(x)'
  BY <1>9, <1>0, <1>t, <1>s DEF calls
<1>10. ASSUME NEW t \in Threads, BumpLost(t) PROVE FALSE
  BY <1>10, <1>f DEF BumpLost, Fault
<1>11. ASSUME Crash PROVE FALSE
  BY <1>11, <1>f DEF Crash, Fault
<1> HIDE DEF Owes, Below
<1>12. \A x \in messages' : Below(x)'
  BY <1>1, <1>2, <1>3, <1>4, <1>5, <1>6, <1>7, <1>8, <1>9, <1>10, <1>11
  DEF Next, store, calls, MailDelete, MailExpunge, Remove, MailboxCreate,
      MailboxDelete, MailboxRename
<1> QED
  BY <1>12 DEF Below, CountedOrOwed

\* The tables' part of the invariant is inductive by itself.
LEMMA StoreStep == StoreInv /\ [Next]_vars => StoreInv'
<1> SUFFICES ASSUME StoreInv, [Next]_vars PROVE StoreInv'
  OBVIOUS
<1>1. TypeInv' /\ ForeignKey' /\ MailInv'
  BY TypeStep, ForeignKeyStep, MailStep DEF StoreInv
<1>2. CASE Next
  BY <1>1, <1>2, UniqueUidsStep, CountedOrOwedStep DEF StoreInv
<1>3. CASE UNCHANGED vars
  <2>1. UNCHANGED <<messages, uidNext, pc, job, target, slot, faults>>
    BY <1>3 DEF vars, store, calls
  <2>2. UniqueUids'
    BY <2>1 DEF StoreInv, UniqueUids
  <2>3. CountedOrOwed'
    BY <2>1 DEF StoreInv, CountedOrOwed, Owes
  <2> QED
    BY <1>1, <2>2, <2>3 DEF StoreInv
<1> QED
  BY <1>2, <1>3

\* Without faults an acknowledged mail is below its mailbox's uid_next: the
\* writer that owes an increment has not answered yet.
LEMMA AcknowledgedIsCounted ==
  ASSUME StoreInv, faults = 0, NEW x \in messages, told[x.mail] = "ok"
  PROVE  x.uid \in 1 .. uidNext[x.box] - 1
<1>1. x.uid \in Nat \ {0} /\ x.box \in BoxIds /\ uidNext[x.box] \in Nat
  BY DEF StoreInv, TypeInv, TypeOK
<1>2. x.uid < uidNext[x.box]
  BY DEF StoreInv, CountedOrOwed, Owes, MailInv, CarriedOnce
<1> QED
  BY <1>1, <1>2

-----------------------------------------------------------------------------
(* Listings: what numbers and sets mean                                    *)

\* In an even mailbox the row with k - 1 smaller uids is the one with uid k.
LEMMA NumberIsUid ==
  ASSUME TypeInv, UniqueUids, NEW n \in Names, box[n] \in BoxIds, EvenBox(box[n]),
         NEW k \in Int, NEW x \in AtSeq(n, k)
  PROVE  x.uid = k
<1> DEFINE Smaller == {y \in Stored(box[n]) : y.uid < x.uid}
           RowOf == [i \in 1 .. x.uid - 1 |-> CHOOSE y \in Smaller : y.uid = i]
<1>1. PICK N \in Nat : Uids(box[n]) = 1 .. N
  BY DEF EvenBox
<1>2. x \in Stored(box[n]) /\ x.uid \in 1 .. N /\ Cardinality(Smaller) = k - 1
  BY <1>1 DEF AtSeq, Uids
<1>3. \A y \in Smaller : y.uid \in 1 .. x.uid - 1
  BY <1>1, <1>2 DEF Uids
<1>4. \A i \in 1 .. x.uid - 1 : \E y \in Smaller : y.uid = i
  <2>1. SUFFICES ASSUME NEW i \in 1 .. x.uid - 1 PROVE \E y \in Smaller : y.uid = i
    OBVIOUS
  <2>2. i \in Uids(box[n]) /\ i < x.uid
    BY <1>1, <1>2
  <2> QED
    BY <2>2 DEF Uids
<1>5. \A y, z \in Smaller : y.uid = z.uid => y = z
  BY DEF UniqueUids, Stored
<1> HIDE DEF Smaller
<1>6. \A i \in 1 .. x.uid - 1 : RowOf[i] \in Smaller /\ RowOf[i].uid = i
  BY <1>4
<1>7. RowOf \in Bijection(1 .. x.uid - 1, Smaller)
  <2>1. RowOf \in [1 .. x.uid - 1 -> Smaller]
    BY <1>6
  <2>2. \A i, j \in 1 .. x.uid - 1 : RowOf[i] = RowOf[j] => i = j
    BY <1>6
  <2>3. \A y \in Smaller : \E i \in 1 .. x.uid - 1 : RowOf[i] = y
    BY <1>3, <1>5, <1>6
  <2> HIDE DEF RowOf
  <2> QED
    BY <2>1, <2>2, <2>3 DEF Bijection, Injection, Surjection, IsInjective
<1>8. ExistsBijection(1 .. x.uid - 1, Smaller)
  BY <1>7 DEF ExistsBijection
<1>9. IsFiniteSet(1 .. x.uid - 1) /\ Cardinality(1 .. x.uid - 1) = x.uid - 1
  <2>1. PICK u \in Nat : u = x.uid - 1
    BY <1>2
  <2>2. IsFiniteSet(1 .. u) /\ Cardinality(1 .. u) = IF 1 > u THEN 0 ELSE u - 1 + 1
    BY FS_Interval
  <2>3. (IF 1 > u THEN 0 ELSE u - 1 + 1) = u
    OBVIOUS
  <2> QED
    BY <2>1, <2>2, <2>3
<1>10. Cardinality(Smaller) = x.uid - 1
  BY <1>8, <1>9, FS_Bijection
<1> QED
  BY <1>2, <1>10

\* A sequence set is a sequence of numbers, and "1:*" has all uids that count.
LEMMA NumbersOf ==
  ASSUME TypeInv, NEW n \in Names, box[n] \in BoxIds, NEW s \in Sets
  PROVE  /\ Numbers(n, s) \in Seq(Int)
         /\ s.start <= 1 /\ s.stop = 0 =>
               \A u \in 1 .. uidNext[box[n]] - 1 :
                  \E i \in DOMAIN Numbers(n, s) : Numbers(n, s)[i] = u
<1>1. s.start \in Nat /\ s.stop \in Nat /\ uidNext[box[n]] \in Nat
  BY ViewAssumption, BoundsAssumption DEF TypeInv, TypeOK
<1>2. Stop(n, s) \in Int
  BY <1>1 DEF Stop
<1>3. PICK k \in Nat : k = IF Stop(n, s) < s.start THEN 0 ELSE Stop(n, s) - s.start + 1
  BY <1>1, <1>2
<1>4. Numbers(n, s) = [i \in 1 .. k |-> s.start + i - 1]
  BY <1>3 DEF Numbers
<1>5. Numbers(n, s) \in Seq(Int)
  BY <1>1, <1>4
<1>6. ASSUME s.start <= 1, s.stop = 0, NEW u \in 1 .. uidNext[box[n]] - 1
      PROVE  \E i \in DOMAIN Numbers(n, s) : Numbers(n, s)[i] = u
  <2>1. Stop(n, s) = uidNext[box[n]] - 1
    BY <1>6 DEF Stop
  <2>2. u - s.start + 1 \in 1 .. k
    BY <1>1, <1>3, <1>6, <2>1
  <2>3. s.start + (u - s.start + 1) - 1 = u
    BY <1>1
  <2> QED
    BY <1>4, <2>2, <2>3
<1> QED
  BY <1>5, <1>6

-----------------------------------------------------------------------------
(* Listings: a FETCH under way                                             *)

FetchOK ==
    fetch # NoFetch =>
        fetch \in [box : Names, due : SUBSET (Nat \X Mails), nums : Seq(Int),
                   ids : SUBSET Int, got : SUBSET (Nat \X Mails)]

\* A row that is due is still there, and has been shown, or will be selected by
\* its uid, or is one of the numbers to look up in a folder where those are uids.
Pending(r) ==
    \/ r \in fetch.got
    \/ r[1] \in fetch.ids
    \/ /\ box[fetch.box] \notin uneven
       /\ \E i \in DOMAIN fetch.nums : fetch.nums[i] = r[1]

ListInv ==
    fetch # NoFetch /\ faults = 0 =>
        \A r \in fetch.due : r \in Rows(fetch.box) /\ Pending(r)

ListingInv == StoreInv /\ EvenInv /\ FetchOK /\ ListInv

\* No FETCH is under way.
LEMMA ListingInit == ViewInit => ListingInv
  BY StoreInit, EvenInit DEF ViewInit, ListingInv, FetchOK, ListInv

\* The rows of a folder are uids with mails, in a mailbox there is.
LEMMA RowsTyped ==
  ASSUME TypeInv, NEW n \in Names, NEW r \in Rows(n)
  PROVE  /\ box[n] \in BoxIds
         /\ r \in Nat \X Mails
         /\ \E x \in Stored(box[n]) : r = <<x.uid, x.mail>>
  BY DEF Rows, Stored, TypeInv, TypeOK

\* A new command owes what its uids or its numbers will give it.
LEMMA BeginLists ==
  ASSUME ListingInv, UNCHANGED <<vars, uneven>>, NEW n \in Names,
         NEW due \in SUBSET Rows(n), NEW nums \in Seq(Int), NEW ids \in SUBSET Int,
         Begin(n, due, nums, ids),
         faults = 0 =>
            \A r \in due :
               \/ r[1] \in ids
               \/ box[n] \notin uneven /\ \E i \in DOMAIN nums : nums[i] = r[1]
  PROVE  (FetchOK /\ ListInv)'
<1>1. fetch' = [box |-> n, due |-> due, nums |-> nums, ids |-> ids, got |-> {}]
  BY DEF Begin
<1>2. /\ box' = box /\ faults' = faults /\ uneven' = uneven
      /\ Rows(n)' = Rows(n)
  BY DEF vars, store, Rows, Stored
<1>3. due \subseteq Nat \X Mails /\ box[n] \in BoxIds
  BY RowsTyped, FolderBox DEF Begin, ListingInv, StoreInv
<1>4. /\ fetch'.box = n /\ fetch'.due = due /\ fetch'.nums = nums
      /\ fetch'.ids = ids /\ fetch'.got = {}
      /\ fetch' \in [box : Names, due : SUBSET (Nat \X Mails), nums : Seq(Int),
                     ids : SUBSET Int, got : SUBSET (Nat \X Mails)]
  BY <1>1, <1>3
<1>5. FetchOK'
  BY <1>2, <1>3, <1>4 DEF FetchOK, BoxIds
<1>6. ListInv'
  BY <1>2, <1>4 DEF ListInv, Pending
<1> QED
  BY <1>5, <1>6

\* FETCH by uid: "1:*" has the uids of all that was acknowledged.
LEMMA FetchUidsLists ==
  ASSUME ListingInv, UNCHANGED <<vars, uneven>>, NEW n \in Names, NEW s \in Sets,
         FetchUids(n, s)
  PROVE  (FetchOK /\ ListInv)'
<1> DEFINE due == IF s.start <= 1 /\ s.stop = 0 THEN Settled(n) ELSE {}
           ids == Elements(Numbers(n, s))
<1>1. TypeInv /\ box[n] \in BoxIds
  BY FolderBox DEF FetchUids, Begin, ListingInv, StoreInv
<1>2. Numbers(n, s) \in Seq(Int)
  BY <1>1, NumbersOf
<1>3. ids \in SUBSET Int /\ <<>> \in Seq(Int)
  BY <1>2 DEF Elements
<1>4. due \in SUBSET Rows(n)
  BY DEF Settled
<1>5. ASSUME faults = 0, NEW r \in due PROVE r[1] \in ids
  <2>1. s.start <= 1 /\ s.stop = 0 /\ r \in Rows(n) /\ told[r[2]] = "ok"
    BY <1>5 DEF Settled
  <2>2. PICK x \in Stored(box[n]) : r = <<x.uid, x.mail>>
    BY <1>1, <2>1, RowsTyped
  <2>3. r[1] \in 1 .. uidNext[box[n]] - 1
    BY <1>5, <2>1, <2>2, AcknowledgedIsCounted DEF ListingInv, Stored
  <2>4. PICK i \in DOMAIN Numbers(n, s) : Numbers(n, s)[i] = r[1]
    BY <1>1, <2>1, <2>3, NumbersOf
  <2> QED
    BY <2>4 DEF Elements
<1>6. Begin(n, due, <<>>, ids)
  BY DEF FetchUids
<1> HIDE DEF due, ids
<1> QED
  BY <1>3, <1>4, <1>5, <1>6, BeginLists

\* FETCH by number, in a folder where numbers are uids.
LEMMA FetchNumbersLists ==
  ASSUME ListingInv, UNCHANGED <<vars, uneven>>, NEW n \in Names, NEW s \in Sets,
         FetchNumbers(n, s)
  PROVE  (FetchOK /\ ListInv)'
<1> DEFINE due == IF s.start = 1 /\ s.stop = 0 /\ box[n] \notin uneven THEN Settled(n) ELSE {}
           nums == Numbers(n, s)
<1>1. TypeInv /\ box[n] \in BoxIds
  BY FolderBox DEF FetchNumbers, Begin, ListingInv, StoreInv
<1>2. nums \in Seq(Int)
  BY <1>1, NumbersOf
<1>3. due \in SUBSET Rows(n)
  BY DEF Settled
<1>4. ASSUME faults = 0, NEW r \in due
      PROVE  box[n] \notin uneven /\ \E i \in DOMAIN nums : nums[i] = r[1]
  <2>1. /\ s.start = 1 /\ s.stop = 0 /\ box[n] \notin uneven
        /\ r \in Rows(n) /\ told[r[2]] = "ok"
    BY <1>4 DEF Settled
  <2>2. PICK x \in Stored(box[n]) : r = <<x.uid, x.mail>>
    BY <1>1, <2>1, RowsTyped
  <2>3. r[1] \in 1 .. uidNext[box[n]] - 1
    BY <1>4, <2>1, <2>2, AcknowledgedIsCounted DEF ListingInv, Stored
  <2> QED
    BY <1>1, <2>1, <2>3, NumbersOf
<1>5. Begin(n, due, nums, {})
  BY DEF FetchNumbers
<1> HIDE DEF due, nums
<1>6. {} \in SUBSET Int
  OBVIOUS
<1>7. faults = 0 =>
         \A r \in due :
            \/ r[1] \in {}
            \/ box[n] \notin uneven /\ \E i \in DOMAIN nums : nums[i] = r[1]
  BY <1>4
<1> QED
  BY <1>2, <1>3, <1>5, <1>6, <1>7, BeginLists

\* FETCH of what a SEARCH found: the uids of all rows.
LEMMA FetchFoundLists ==
  ASSUME ListingInv, UNCHANGED <<vars, uneven>>, NEW n \in Names, FetchFound(n)
  PROVE  (FetchOK /\ ListInv)'
<1> DEFINE ids == {x.uid : x \in Stored(box[n])}
<1>1. Begin(n, Rows(n), <<>>, ids)
  BY DEF FetchFound
<1>2. ids \in SUBSET Int /\ <<>> \in Seq(Int)
  BY DEF Stored, ListingInv, StoreInv, TypeInv, TypeOK
<1>3. \A r \in Rows(n) : r[1] \in ids
  BY DEF Rows
<1> HIDE DEF ids
<1> QED
  BY <1>1, <1>2, <1>3, BeginLists

\* A number looked up where numbers are uids gives the uid it names.
LEMMA ResolveLists ==
  ASSUME ListingInv, UNCHANGED <<vars, uneven>>, Resolve
  PROVE  (FetchOK /\ ListInv)'
<1> DEFINE n == fetch.box
           k == Head(fetch.nums)
<1>1. PICK x \in AtSeq(n, k) :
         fetch' = [fetch EXCEPT !.nums = Tail(@), !.ids = @ \cup {x.uid}]
  BY DEF Resolve
<1>2. /\ fetch \in [box : Names, due : SUBSET (Nat \X Mails), nums : Seq(Int),
                    ids : SUBSET Int, got : SUBSET (Nat \X Mails)]
      /\ fetch.nums # <<>> /\ fetch # NoFetch
      /\ n \in Names /\ k \in Int /\ x.uid \in Int
      /\ TypeInv /\ UniqueUids
  BY SMTT(30) DEF Resolve, ListingInv, StoreInv, FetchOK, AtSeq, Stored, TypeInv, TypeOK
<1>3. /\ fetch'.box = fetch.box /\ fetch'.due = fetch.due /\ fetch'.got = fetch.got
      /\ fetch'.nums = Tail(fetch.nums) /\ fetch'.ids = fetch.ids \cup {x.uid}
      /\ fetch' \in [box : Names, due : SUBSET (Nat \X Mails), nums : Seq(Int),
                     ids : SUBSET Int, got : SUBSET (Nat \X Mails)]
  <2>1. fetch.nums \in Seq(Int) /\ fetch.ids \cup {x.uid} \in SUBSET Int
    BY <1>2
  <2>2. Tail(fetch.nums) \in Seq(Int)
    BY <1>2, <2>1
  <2> QED
    BY <1>1, <1>2, <2>1, <2>2
<1>4. box' = box /\ faults' = faults /\ uneven' = uneven /\ messages' = messages
  BY DEF vars, store
<1>5. FetchOK'
  BY <1>2, <1>3, <1>4 DEF ListingInv, FetchOK, BoxIds
<1>6. ASSUME faults = 0, NEW r \in fetch.due PROVE Pending(r)'
  <2>1. r \in Rows(fetch.box) /\ Pending(r)
    BY <1>2, <1>6 DEF ListingInv, ListInv
  <2>2. CASE r \in fetch.got \/ r[1] \in fetch.ids
    BY <1>3, <2>2 DEF Pending
  <2>3. ASSUME box[fetch.box] \notin uneven,
               NEW i \in DOMAIN fetch.nums, fetch.nums[i] = r[1]
        PROVE  Pending(r)'
    <3>1. CASE i = 1
      <4>1. box[n] \in BoxIds /\ EvenBox(box[n])
        BY <1>2, <2>1, <2>3, RowsTyped DEF ListingInv, EvenInv
      <4>2. x.uid = k
        BY <1>2, <4>1, NumberIsUid
      <4>3. r[1] = k
        BY <1>2, <2>3, <3>1
      <4> QED
        BY <1>3, <4>2, <4>3 DEF Pending
    <3>2. CASE i # 1
      <4>1. i - 1 \in DOMAIN Tail(fetch.nums) /\ Tail(fetch.nums)[i - 1] = r[1]
        BY <1>2, <2>3, <3>2
      <4> QED
        BY <1>3, <1>4, <2>3, <4>1 DEF Pending
    <3> QED
      BY <3>1, <3>2
  <2> QED
    BY <2>1, <2>2, <2>3 DEF Pending
<1>7. ListInv'
  BY <1>2, <1>3, <1>4, <1>6 DEF ListingInv, ListInv, Rows, Stored
<1> QED
  BY <1>5, <1>7

\* The SELECT of a uid shows every row of the folder that has it.
LEMMA ShowLists ==
  ASSUME ListingInv, UNCHANGED <<vars, uneven>>, Show
  PROVE  (FetchOK /\ ListInv)'
<1>1. PICK u \in fetch.ids :
         fetch' = [fetch EXCEPT !.ids = @ \ {u},
                                !.got = @ \cup {r \in Rows(fetch.box) : r[1] = u}]
  BY DEF Show
<1>2. /\ fetch \in [box : Names, due : SUBSET (Nat \X Mails), nums : Seq(Int),
                    ids : SUBSET Int, got : SUBSET (Nat \X Mails)]
      /\ fetch # NoFetch /\ TypeInv
  BY DEF Show, ListingInv, StoreInv, FetchOK
<1>3. Rows(fetch.box) \subseteq Nat \X Mails
  BY <1>2, RowsTyped
<1>4. /\ fetch'.box = fetch.box /\ fetch'.due = fetch.due /\ fetch'.nums = fetch.nums
      /\ fetch'.ids = fetch.ids \ {u}
      /\ fetch'.got = fetch.got \cup {r \in Rows(fetch.box) : r[1] = u}
      /\ fetch' \in [box : Names, due : SUBSET (Nat \X Mails), nums : Seq(Int),
                     ids : SUBSET Int, got : SUBSET (Nat \X Mails)]
  BY <1>1, <1>2, <1>3
<1>5. box' = box /\ faults' = faults /\ uneven' = uneven /\ messages' = messages
  BY DEF vars, store
<1>6. FetchOK'
  BY <1>2, <1>4, <1>5 DEF ListingInv, FetchOK, BoxIds
<1>7. ASSUME faults = 0, NEW r \in fetch.due PROVE Pending(r)' /\ r \in Rows(fetch.box)
  BY <1>2, <1>4, <1>5, <1>7 DEF ListingInv, ListInv, Pending
<1>8. ListInv'
  BY <1>2, <1>4, <1>5, <1>7 DEF ListInv, Rows, Stored
<1> QED
  BY <1>6, <1>8

\* No step of the tables takes a fault back.
LEMMA FaultsStay == TypeInv /\ Next /\ faults' = 0 => faults = 0
<1> SUFFICES ASSUME TypeInv, Next, faults' = 0 PROVE faults = 0
  OBVIOUS
<1>1. faults \in Nat
  BY BoundsAssumption DEF TypeInv, TypeOK
<1>2. Fault => FALSE
  BY <1>1 DEF Fault
<1> QED
  BY <1>2
  DEF Next, ReadNext, Insert, InsertRejected, Bump, BumpLost, MoveRead, MoveCommit,
      MoveAborted, UpdateFlags, MailDelete, MailExpunge, Remove, MailboxCreate,
      MailboxDelete, MailboxRename, Crash

\* What leaves the folder is no longer due, nor what numbers no longer mean.
LEMMA StoreLists ==
  ASSUME ListingInv, StoreNext, TypeInv' PROVE (FetchOK /\ ListInv)'
<1>1. CASE fetch = NoFetch
  <2>1. fetch' = NoFetch
    BY <1>1 DEF StoreNext, Forgive
  <2> QED
    BY <2>1 DEF FetchOK, ListInv, NoFetch
<1>2. CASE fetch # NoFetch
  <2>1. PICK n \in Names :
           /\ fetch.box = n
           /\ fetch' = [fetch EXCEPT !.due =
                           IF fetch.nums # <<>> /\ box'[n] \in uneven' THEN {}
                           ELSE @ \cap Rows(n)']
    BY <1>2 DEF StoreNext, Forgive
  <2>2. fetch \in [box : Names, due : SUBSET (Nat \X Mails), nums : Seq(Int),
                   ids : SUBSET Int, got : SUBSET (Nat \X Mails)]
    BY <1>2 DEF ListingInv, FetchOK
  <2>3. /\ fetch'.box = n /\ fetch'.nums = fetch.nums
        /\ fetch'.ids = fetch.ids /\ fetch'.got = fetch.got
        /\ fetch'.due \subseteq fetch.due
        /\ fetch'.due \subseteq Rows(n)'
        /\ fetch.nums # <<>> /\ box'[n] \in uneven' => fetch'.due = {}
        /\ fetch' \in [box : Names, due : SUBSET (Nat \X Mails), nums : Seq(Int),
                       ids : SUBSET Int, got : SUBSET (Nat \X Mails)]
    BY <2>1, <2>2
  <2>4. FetchOK'
    BY <2>3, BoundsAssumption DEF FetchOK, TypeInv, TypeOK, BoxIds
  <2>5. ASSUME faults' = 0, NEW r \in fetch'.due
        PROVE  r \in Rows(fetch.box)' /\ Pending(r)'
    <3>1. faults = 0
      BY <2>5, FaultsStay DEF StoreNext, ListingInv, StoreInv
    <3>2. Pending(r)
      BY <1>2, <2>3, <2>5, <3>1 DEF ListingInv, ListInv
    <3>3. (\E i \in DOMAIN fetch.nums : TRUE) => fetch.nums # <<>>
      BY <2>2
    <3>4. (\E i \in DOMAIN fetch.nums : TRUE) => box'[n] \notin uneven'
      BY <2>3, <2>5, <3>3
    <3>5. Pending(r)'
      BY <2>3, <3>2, <3>4 DEF Pending
    <3>6. r \in Rows(fetch.box)'
      BY <2>3, <2>5 DEF Rows
    <3> QED
      BY <3>5, <3>6
  <2> QED
    BY <2>4, <2>5 DEF ListInv
<1> QED
  BY <1>1, <1>2

\* Every step of the client or of the tables keeps the listing complete so far.
LEMMA ListingStep == ListingInv /\ [ViewNext]_viewVars => ListingInv'
<1> SUFFICES ASSUME ListingInv, [ViewNext]_viewVars PROVE ListingInv'
  OBVIOUS
<1>1. StoreInv'
  BY StoreStep DEF ListingInv, ViewNext, StoreNext, viewVars
<1>2. EvenInv' /\ TypeInv'
  BY ViewStep DEF ListingInv, StoreInv
<1>3. CASE StoreNext
  BY <1>1, <1>2, <1>3, StoreLists DEF ListingInv
<1>4. CASE ClientNext /\ UNCHANGED <<vars, uneven>>
  <2>1. ASSUME fetch' = NoFetch PROVE (FetchOK /\ ListInv)'
    BY <2>1 DEF FetchOK, ListInv, NoFetch
  <2>2. ASSUME NEW n \in Names, Status(n) PROVE (FetchOK /\ ListInv)'
    BY <2>1, <2>2 DEF Status
  <2>3. (FetchOK /\ ListInv)'
    BY <1>4, <2>1, <2>2, FetchUidsLists, FetchNumbersLists, FetchFoundLists,
       ResolveLists, ShowLists
    DEF ClientNext, ResolveFailed, EndFetch
  <2> QED
    BY <1>1, <1>2, <2>3 DEF ListingInv
<1>5. CASE UNCHANGED viewVars
  <2>1. UNCHANGED <<fetch, uneven, box, messages, faults>>
    BY <1>5 DEF viewVars, client, vars, store
  <2>2. (FetchOK /\ ListInv)'
    BY <2>1 DEF ListingInv, FetchOK, ListInv, Pending, Rows, Stored
  <2> QED
    BY <1>1, <1>2, <2>2 DEF ListingInv
<1> QED
  BY <1>3, <1>4, <1>5 DEF ViewNext

\* Without faults a listing of a whole folder shows every mail that had been
\* acknowledged when it began and was not removed (mailbox.go:33-60, 118-135),
\* whatever is delivered, moved or expunged while it runs.
THEOREM ListingsAreComplete == ViewSpec => []ListingIsComplete
<1>1. ListingInv => ListingIsComplete
  <2> SUFFICES ASSUME ListingInv, faults = 0, Listed, NEW r \in fetch.due
               PROVE  r \in fetch.got
    BY DEF ListingIsComplete
  <2>1. Pending(r)
    BY DEF ListingInv, ListInv, Listed
  <2>2. DOMAIN fetch.nums = {} /\ fetch.ids = {}
    BY DEF Listed
  <2> QED
    BY <2>1, <2>2 DEF Pending
<1> QED
  BY ListingInit, ListingStep, <1>1, PTL DEF ViewSpec

=============================================================================
