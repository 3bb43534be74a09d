---------------------------- MODULE OutboundProofs ----------------------------
(***************************************************************************)
(* Proofs about Outbound for any sessions, envelopes, destinations, number *)
(* of retries and number of faults.  The invariant says who is in charge   *)
(* of each Outbox id: the session about to queue it, its one queue row, or *)
(* the one runner cleaning up after it.                                    *)
(***************************************************************************)
EXTENDS Outbound, TLAPS

Working == {"send", "dequeue", "pending", "file", "delete"}

-----------------------------------------------------------------------------
(* Types                                                                   *)

\* What TypeOK leaves open: a session past SELECT has a recipient with a
\* route, and a runner at work has a row and a mail.
StagesOK ==
    /\ \A s \in Sessions :
          spc[s] \in {"insert", "bump", "enqueue", "wake"} =>
              /\ left[s] # <<>>
              /\ DestOf[Head(left[s])] \in Dests
    /\ \A d \in Dests : rpc[d] \in Working => cur[d] \in Rows /\ body[d] \in Mails

TypeInv == TypeOK /\ StagesOK

\* The node starts with empty tables and nothing running.
LEMMA TypeInit == Init => TypeInv
  BY OutboundAssumption DEF Init, TypeInv, TypeOK, StagesOK, Working

\* The recipient loop of QueueFor stays inside the list of recipients.
LEMMA HeadTail ==
  ASSUME NEW q \in Seq(Rcpts), q # <<>>
  PROVE  Head(q) \in Rcpts /\ Tail(q) \in Seq(Rcpts)
  OBVIOUS

\* An arrival counts up.
LEMMA ArriveCounts ==
  ASSUME arrived \in [Mails -> Nat], NEW M, Arrive(M)
  PROVE  /\ arrived' \in [Mails -> Nat]
         /\ \A m \in Mails : m \in M => arrived'[m] = arrived[m] + 1
         /\ \A m \in Mails : m \notin M => arrived'[m] = arrived[m]
<1>1. \A m \in Mails : arrived[m] + (IF m \in M THEN 1 ELSE 0) \in Nat
  OBVIOUS
<1> QED
  BY <1>1 DEF Arrive

\* Every handler keeps the state well typed.
LEMMA TypeStep == TypeInv /\ [Next]_vars => TypeInv'
<1> SUFFICES ASSUME TypeInv, [Next]_vars PROVE TypeInv'
  OBVIOUS
<1> USE OutboundAssumption
    DEF TypeInv, TypeOK, StagesOK, Working, tables, ends, sessions, runners,
        StepTo, RunnerTo, Fault
<1>a. ASSUME NEW M, Arrive(M) PROVE arrived' \in [Mails -> Nat]
  BY <1>a, ArriveCounts
<1>1. ASSUME NEW s \in Sessions, Session(s) PROVE TypeInv'
  <2>h. left[s] # <<>> => /\ Head(left[s]) \in Rcpts
                          /\ Tail(left[s]) \in Seq(Rcpts)
                          /\ Mail(s) \in Mails
    BY HeadTail DEF Mail, Mails
  <2>1. CASE Submit(s)
    BY <2>1 DEF Submit
  <2>2. CASE DeliverLocally(s)
    BY <2>2, <2>h DEF DeliverLocally, NextRcpt
  <2>3. CASE SkipRcpt(s)
    BY <2>3, <2>h DEF SkipRcpt, NotDelivered, NextRcpt
  <2>12. CASE CopyFailed(s)
    BY <2>12, <2>h DEF CopyFailed, NotDelivered, NextRcpt
  <2>4. CASE ReadNext(s)
    BY <2>4, <2>h DEF ReadNext, NotDelivered
  <2>5. CASE Insert(s)
    BY <2>5, <2>h DEF Insert
  <2>6. CASE InsertRejected(s)
    BY <2>6 DEF InsertRejected
  <2>7. CASE Bump(s)
    BY SMTT(30), <2>7 DEF Bump
  <2>8. CASE Enqueue(s)
    BY <2>8, <2>h DEF Enqueue, Rows
  <2>9. CASE EnqueueFailed(s)
    BY <2>9 DEF EnqueueFailed
  <2>10. CASE WakeRunner(s)
    BY <2>10, <2>h DEF WakeRunner, NextRcpt, Wake
  <2>11. CASE Finish(s)
    BY <2>11 DEF Finish
  <2> QED
    BY <1>1, <2>1, <2>2, <2>3, <2>4, <2>5, <2>6, <2>7, <2>8, <2>9, <2>10, <2>11,
       <2>12 DEF Session
<1>2. ASSUME Manager PROVE TypeInv'
  <2>1. CASE ManagerList
    BY <2>1 DEF ManagerList, Rows
  <2>2. ASSUME NEW d \in Dests, ManagerWake(d) PROVE TypeInv'
    BY <2>2 DEF ManagerWake, Wake
  <2> QED
    BY <1>2, <2>1, <2>2 DEF Manager
<1>3. ASSUME NEW d \in Dests, Runner(d) PROVE TypeInv'
  <2>1. CASE Snapshot(d)
    BY <1>3, <2>1 DEF Snapshot
  <2>2. CASE SnapshotFailed(d)
    BY <2>2 DEF SnapshotFailed
  <2>3. CASE Take(d)
    BY <2>3 DEF Take
  <2>4. CASE Skip(d)
    BY <2>4 DEF Skip
  <2>5. CASE Sent(d)
    BY <2>5, <1>a DEF Sent
  <2>6. CASE SendFailed(d)
    <3>1. body[d] \in Mails /\ tries[d] \in 0 .. maxRetries
      BY <2>6 DEF SendFailed
    <3>2. arrived' \in [Mails -> Nat]
      BY <2>6, <1>a DEF SendFailed
    <3>3. faults' \in 0 .. MaxFaults
      BY <2>6 DEF SendFailed
    <3>4. CASE UNCHANGED <<rpc, cur, body>> /\ tries[d] < maxRetries
               /\ tries' = [tries EXCEPT ![d] = @ + 1]
      <4>1. tries' \in [Dests -> 0 .. maxRetries]
        BY <3>1, <3>4
      <4> QED
        BY <2>6, <3>2, <3>3, <3>4, <4>1 DEF SendFailed, Retry, Abandon
    <3>5. CASE Forget(d)
      BY <2>6, <3>2, <3>3, <3>5 DEF SendFailed, Retry, Abandon, Forget
    <3> QED
      BY <2>6, <3>4, <3>5 DEF SendFailed, Retry, Abandon
  <2>7. CASE Dequeue(d)
    BY <2>7 DEF Dequeue
  <2>8. CASE NotPending(d)
    BY <2>8 DEF NotPending
  <2>9. CASE StillPending(d)
    BY <2>9 DEF StillPending, Forget
  <2>10. CASE FileSent(d)
    BY <2>10 DEF FileSent
  <2>11. CASE DeleteMail(d)
    BY <2>11 DEF DeleteMail, Forget
  <2>12. CASE Stop(d)
    BY <2>12 DEF Stop
  <2> QED
    BY <1>3, <2>1, <2>2, <2>3, <2>4, <2>5, <2>6, <2>7, <2>8, <2>9, <2>10, <2>11,
       <2>12 DEF Runner
<1>4. ASSUME Crash PROVE TypeInv'
  BY <1>4, <1>a DEF Crash
<1>5. ASSUME UNCHANGED vars PROVE TypeInv'
  BY <1>5 DEF vars
<1> HIDE DEF TypeInv
<1> QED
  BY <1>1, <1>2, <1>3, <1>4, <1>5 DEF Next

\* The tables, the sessions and the runners stay well typed.
THEOREM TypeCorrect == Spec => []TypeOK
<1>1. TypeInv => TypeOK
  BY DEF TypeInv
<1> QED
  BY TypeInit, TypeStep, <1>1, PTL DEF Spec

-----------------------------------------------------------------------------
(* Who is in charge of an Outbox id                                        *)

Pending(s) == spc[s] \in {"bump", "enqueue"}

Entry(i, m) == [id |-> i, mail |-> m]

\* UNIQUE (mailbox_id, uid).
IdsUnique == \A x, y \in outbox : x.id = y.id => x = y

RowsUnique == \A r, q \in queue : r.id = q.id => r = q

\* Between its INSERT and its queue row a session alone knows the id.
SessionClaims ==
    \A s \in Sessions : Pending(s) =>
        /\ Entry(slot[s], Mail(s)) \in outbox
        /\ \A r \in queue : r.id # slot[s]
        /\ \A d \in Dests : rpc[d] \in Working => cur[d].id # slot[s]

\* A runner holds rows of its destination; until it deletes the Outbox
\* message nobody else has the id, and once it has looked for other rows
\* there is none.
RunnerClaims ==
    \A d \in Dests :
        /\ \A r \in refs[d] : r \in queue /\ r.dest = d
        /\ rpc[d] \in Working =>
              /\ cur[d].dest = d
              /\ cur[d] \notin refs[d]
              /\ body[d] = cur[d].mail
              /\ Entry(cur[d].id, cur[d].mail) \in outbox
              /\ \A e \in Dests : rpc[e] \in Working /\ cur[e].id = cur[d].id => e = d
        /\ rpc[d] \in {"send", "dequeue"} => cur[d] \in queue
        /\ rpc[d] = "pending" =>
              cur[d] \in queue \/ \A r \in queue : r.id # cur[d].id
        /\ rpc[d] \in {"file", "delete"} => \A r \in queue : r.id # cur[d].id

ClaimInv ==
    IdsUnique /\ RowsUnique /\ RowHasItsMail /\ SessionClaims /\ RunnerClaims

\* Nobody claims a message before there is one.
LEMMA ClaimInit == Init => ClaimInv
  BY DEF Init, ClaimInv, IdsUnique, RowsUnique, RowHasItsMail, SessionClaims,
         RunnerClaims, Pending, Working

\* Every handler keeps the claims on Outbox messages apart: a session, a
\* queue row or one runner cleaning up, and all for the same mail.
LEMMA ClaimStep == TypeInv /\ ClaimInv /\ [Next]_vars => ClaimInv'
<1> SUFFICES ASSUME TypeInv, ClaimInv, [Next]_vars PROVE ClaimInv'
  OBVIOUS
<1>t. /\ outbox \subseteq [id : Nat, mail : Mails]
      /\ queue \subseteq Rows
      /\ spc \in [Sessions -> {"idle", "route", "insert", "bump", "enqueue",
                               "wake", "done", "failed"}]
      /\ left \in [Sessions -> Seq(Rcpts)]
      /\ slot \in [Sessions -> Nat]
      /\ rpc \in [Dests -> {"off", "select", "next", "send", "dequeue",
                            "pending", "file", "delete"}]
      /\ refs \in [Dests -> SUBSET Rows]
      /\ cur \in [Dests -> Rows \cup {<<>>}]
      /\ body \in [Dests -> Mails \cup {<<>>}]
  BY DEF TypeInv, TypeOK
<1>e. \A i, m : Entry(i, m).id = i /\ Entry(i, m).mail = m
  BY DEF Entry
<1>h. RowHasItsMail <=> \A r \in queue : Entry(r.id, r.mail) \in outbox
  BY DEF RowHasItsMail, Entry
<1>g. RowHasItsMail' <=> \A r \in queue' : Entry(r.id, r.mail) \in outbox'
  BY DEF RowHasItsMail, Entry
<1>m. \A s, u \in Sessions : Mail(s) = Mail(u) => s = u
  BY DEF Mail
<1> USE <1>t, <1>e, <1>h, <1>g DEF ClaimInv, IdsUnique, RowsUnique, SessionClaims,
        RunnerClaims, Pending, Working, tables, sessions, runners, StepTo, RunnerTo
<1>1. ASSUME NEW s \in Sessions, Session(s) PROVE ClaimInv'
  <2>1. CASE Submit(s)
    BY <2>1 DEF Submit, Mail
  <2>2. CASE DeliverLocally(s)
    BY <2>2 DEF DeliverLocally, NextRcpt, Mail
  <2>3. CASE SkipRcpt(s)
    BY <2>3 DEF SkipRcpt, NextRcpt, Mail
  <2>12. CASE CopyFailed(s)
    BY <2>12 DEF CopyFailed, NextRcpt, Mail
  <2>4. CASE ReadNext(s)
    BY <2>4 DEF ReadNext, Mail
  <2>5. CASE Insert(s)
    <3>1. /\ outbox' = outbox \cup {Entry(slot[s], Mail(s))}
          /\ \A x \in outbox : x.id # slot[s]
          /\ UNCHANGED <<queue, left, slot, runners>>
          /\ spc' = [spc EXCEPT ![s] = "bump"]
      BY <2>5 DEF Insert, Entry
    <3>2. /\ \A r \in queue : r.id # slot[s]
          /\ \A d \in Dests : rpc[d] \in Working => cur[d].id # slot[s]
      BY <3>1
    <3>3. IdsUnique' /\ RowsUnique' /\ RowHasItsMail'
      BY <3>1
    <3>4. RunnerClaims'
      BY <3>1
    <3>5. SessionClaims'
      BY <3>1, <3>2 DEF Mail
    <3> QED
      BY <3>3, <3>4, <3>5
  <2>6. CASE InsertRejected(s)
    BY <2>6 DEF InsertRejected, Mail
  <2>7. CASE Bump(s)
    BY <2>7 DEF Bump, Mail
  <2>8. CASE Enqueue(s)
    <3> DEFINE row == [dest |-> DestOf[Head(left[s])], id |-> slot[s],
                       mail |-> Mail(s)]
    <3>1. /\ queue' = queue \cup {row}
          /\ row.id = slot[s] /\ row.mail = Mail(s)
          /\ UNCHANGED <<outbox, left, slot, runners>>
          /\ spc' = [spc EXCEPT ![s] = "wake"]
          /\ spc[s] = "enqueue"
      BY <2>8 DEF Enqueue
    <3> HIDE DEF row
    <3>2. /\ Entry(row.id, row.mail) \in outbox
          /\ \A r \in queue : r.id # row.id
          /\ \A d \in Dests : rpc[d] \in Working => cur[d].id # row.id
      BY <3>1
    <3>3. IdsUnique' /\ RowsUnique' /\ RowHasItsMail'
      BY <3>1, <3>2
    <3>4. RunnerClaims'
      BY <3>1, <3>2
    <3>5. ASSUME NEW u \in Sessions, Pending(u), u # s PROVE slot[u] # row.id
      BY SMTT(30), <3>1, <3>2, <3>5, <1>m
    <3>6. SessionClaims'
      BY <3>1, <3>2, <3>5 DEF Mail
    <3> QED
      BY <3>3, <3>4, <3>6
  <2>9. CASE EnqueueFailed(s)
    BY <2>9 DEF EnqueueFailed, Mail
  <2>10. CASE WakeRunner(s)
    BY <2>10 DEF WakeRunner, NextRcpt, Wake, Mail
  <2>11. CASE Finish(s)
    BY <2>11 DEF Finish, Mail
  <2> QED
    BY <1>1, <2>1, <2>2, <2>3, <2>4, <2>5, <2>6, <2>7, <2>8, <2>9, <2>10, <2>11,
       <2>12 DEF Session
<1>2. ASSUME Manager PROVE ClaimInv'
  <2>1. CASE ManagerList
    BY <2>1 DEF ManagerList, Mail
  <2>2. ASSUME NEW d \in Dests, ManagerWake(d) PROVE ClaimInv'
    BY <2>2 DEF ManagerWake, Wake, Mail
  <2> QED
    BY <1>2, <2>1, <2>2 DEF Manager
<1>3. ASSUME NEW d \in Dests, Runner(d) PROVE ClaimInv'
  <2>1. CASE Snapshot(d)
    BY <2>1 DEF Snapshot, Mail
  <2>2. CASE SnapshotFailed(d)
    BY <2>2 DEF SnapshotFailed, Mail
  <2>3. CASE Take(d)
    <3>1. PICK r \in refs[d], x \in outbox :
             /\ x.id = r.id
             /\ refs' = [refs EXCEPT ![d] = @ \ {r}]
             /\ cur' = [cur EXCEPT ![d] = r]
             /\ body' = [body EXCEPT ![d] = x.mail]
      BY <2>3 DEF Take
    <3>2. /\ rpc[d] = "next"
          /\ rpc' = [rpc EXCEPT ![d] = "send"]
          /\ UNCHANGED <<outbox, queue, spc, left, slot>>
      BY <2>3 DEF Take
    <3>3. /\ r \in queue /\ r.dest = d
          /\ Entry(r.id, r.mail) \in outbox /\ x.mail = r.mail
      BY <3>1
    <3>4. ASSUME NEW e \in Dests, rpc[e] \in Working PROVE cur[e].id # r.id
      <4>1. CASE cur[e] \in queue
        BY <3>2, <3>3, <3>4, <4>1
      <4>2. CASE \A q \in queue : q.id # cur[e].id
        BY <3>3, <4>2
      <4> QED
        BY <3>4, <4>1, <4>2
    <3>5. IdsUnique' /\ RowsUnique' /\ RowHasItsMail'
      BY <3>2
    <3>6. SessionClaims'
      BY <3>1, <3>2, <3>3 DEF Mail
    <3>7. RunnerClaims'
      BY <3>1, <3>2, <3>3, <3>4
    <3> QED
      BY <3>5, <3>6, <3>7
  <2>4. CASE Skip(d)
    BY <2>4 DEF Skip, Mail
  <2>5. CASE Sent(d)
    BY <2>5 DEF Sent, Mail
  <2>6. CASE SendFailed(d)
    <3>1. CASE UNCHANGED <<rpc, cur, body>>
      BY <2>6, <3>1 DEF SendFailed, Mail
    <3>2. CASE Forget(d)
      BY <2>6, <3>2 DEF SendFailed, Retry, Abandon, Forget, Mail
    <3> QED
      BY <2>6, <3>1, <3>2 DEF SendFailed, Retry, Abandon
  <2>7. CASE Dequeue(d)
    BY <2>7 DEF Dequeue, Mail
  <2>8. CASE NotPending(d)
    BY <2>8 DEF NotPending, Mail
  <2>9. CASE StillPending(d)
    BY <2>9 DEF StillPending, Forget, Mail
  <2>10. CASE FileSent(d)
    BY <2>10 DEF FileSent, Mail
  <2>11. CASE DeleteMail(d)
    <3>1. /\ rpc[d] = "delete"
          /\ outbox' \subseteq outbox
          /\ \A x \in outbox : x.id # cur[d].id => x \in outbox'
          /\ rpc' = [rpc EXCEPT ![d] = "next"]
          /\ cur' = [cur EXCEPT ![d] = <<>>]
          /\ body' = [body EXCEPT ![d] = <<>>]
          /\ UNCHANGED <<queue, spc, left, slot, refs>>
      BY <2>11 DEF DeleteMail, Forget
    <3>2. IdsUnique' /\ RowsUnique' /\ RowHasItsMail'
      BY <3>1
    <3>3. SessionClaims'
      BY SMTT(30), <3>1 DEF Mail
    <3>4. RunnerClaims'
      BY <3>1
    <3> QED
      BY <3>2, <3>3, <3>4
  <2>12. CASE Stop(d)
    BY <2>12 DEF Stop, Mail
  <2> QED
    BY <1>3, <2>1, <2>2, <2>3, <2>4, <2>5, <2>6, <2>7, <2>8, <2>9, <2>10, <2>11,
       <2>12 DEF Runner
<1>4. ASSUME Crash PROVE ClaimInv'
  BY <1>4 DEF Crash, Mail
<1>5. ASSUME UNCHANGED vars PROVE ClaimInv'
  BY <1>5 DEF vars, Mail
<1> HIDE DEF ClaimInv
<1> QED
  BY <1>1, <1>2, <1>3, <1>4, <1>5 DEF Next

\* Every queue row names its own mail in Outbox (sender.go:201, 233-246),
\* whatever sessions, runners, failed statements and crashes interleave.
THEOREM RowsHaveTheirMail == Spec => []RowHasItsMail
<1>1. ClaimInv => RowHasItsMail
  BY DEF ClaimInv
<1> QED
  BY TypeInit, TypeStep, ClaimInit, ClaimStep, <1>1, PTL DEF Spec

\* QueueInsert adds one row, for the copy its session has just stored.
LEMMA EnqueuedRow ==
  ASSUME NEW s \in Sessions, Enqueue(s)
  PROVE  \E row : queue' = queue \cup {row} /\ row.id = slot[s] /\ row.mail = Mail(s)
<1> DEFINE row == [dest |-> DestOf[Head(left[s])], id |-> slot[s], mail |-> Mail(s)]
<1>1. queue' = queue \cup {row} /\ row.id = slot[s] /\ row.mail = Mail(s)
  BY DEF Enqueue
<1> HIDE DEF row
<1> QED
  BY <1>1

\* Only a failed statement or a crash leaves a message in Outbox that neither
\* a session, nor a row, nor a runner knows of.
LEMMA OrphanStep ==
  TypeInv /\ ClaimInv /\ OrphanNeedsFault /\ [Next]_vars => OrphanNeedsFault'
<1> SUFFICES ASSUME TypeInv, ClaimInv, OrphanNeedsFault, [Next]_vars,
                    faults' = 0, NEW x \in outbox'
             PROVE  \/ \E r \in queue' : r.id = x.id
                    \/ \E s \in Sessions : Queueing(s, x.id)'
                    \/ \E d \in Dests : Cleaning(d, x.id)'
  BY DEF OrphanNeedsFault
<1>t. /\ spc \in [Sessions -> {"idle", "route", "insert", "bump", "enqueue",
                               "wake", "done", "failed"}]
      /\ slot \in [Sessions -> Nat]
      /\ rpc \in [Dests -> {"off", "select", "next", "send", "dequeue",
                            "pending", "file", "delete"}]
      /\ cur \in [Dests -> Rows \cup {<<>>}]
      /\ faults \in Nat
  BY DEF TypeInv, TypeOK
<1>f. ~Fault
  BY <1>t DEF Fault
<1> USE <1>t, <1>f DEF Queueing, Cleaning, tables, sessions, runners, StepTo, RunnerTo
<1>1. ASSUME NEW s \in Sessions, Insert(s), x.id = slot[s]
      PROVE  Queueing(s, x.id)'
  BY <1>1 DEF Insert
<1>2. CASE faults = 0 /\ x \in outbox
  <2>o. \/ \E r \in queue : r.id = x.id
        \/ \E s \in Sessions : Queueing(s, x.id)
        \/ \E d \in Dests : Cleaning(d, x.id)
    BY <1>2 DEF OrphanNeedsFault
  <2>1. ASSUME NEW s \in Sessions, Session(s)
        PROVE  \/ \E r \in queue' : r.id = x.id
               \/ \E u \in Sessions : Queueing(u, x.id)'
               \/ \E d \in Dests : Cleaning(d, x.id)'
    <3>1. CASE Enqueue(s)
      <4>1. \A r \in queue : r \in queue'
        BY <3>1 DEF Enqueue
      <4>2. \E r \in queue' : r.id = slot[s]
        BY <3>1, EnqueuedRow
      <4> QED
        BY <2>o, <3>1, <4>1, <4>2 DEF Enqueue
    <3>2. CASE Submit(s) \/ DeliverLocally(s) \/ SkipRcpt(s) \/ CopyFailed(s)
               \/ ReadNext(s)
               \/ InsertRejected(s) \/ Finish(s)
      BY <2>o, <3>2 DEF Submit, DeliverLocally, SkipRcpt, CopyFailed, ReadNext,
                        NextRcpt, InsertRejected, Finish
    <3>3. CASE Insert(s) \/ Bump(s) \/ EnqueueFailed(s)
      BY <2>o, <3>3 DEF Insert, Bump, EnqueueFailed
    <3>4. CASE WakeRunner(s)
      BY <2>o, <3>4 DEF WakeRunner, NextRcpt, Wake
    <3> QED
      BY <2>1, <3>1, <3>2, <3>3, <3>4 DEF Session
  <2>2. ASSUME Manager
        PROVE  \/ \E r \in queue' : r.id = x.id
               \/ \E u \in Sessions : Queueing(u, x.id)'
               \/ \E d \in Dests : Cleaning(d, x.id)'
    BY <2>o, <2>2 DEF Manager, ManagerList, ManagerWake, Wake
  <2>3. ASSUME NEW d \in Dests, Runner(d)
        PROVE  \/ \E r \in queue' : r.id = x.id
               \/ \E u \in Sessions : Queueing(u, x.id)'
               \/ \E e \in Dests : Cleaning(e, x.id)'
    <3>1. CASE Dequeue(d)
      <4>1. \A r \in queue : r \in queue' \/ r.id = cur[d].id
        BY <3>1 DEF Dequeue
      <4>2. Cleaning(d, cur[d].id)'
        BY <3>1 DEF Dequeue
      <4> QED
        BY <2>o, <3>1, <4>1, <4>2 DEF Dequeue
    <3>2. CASE StillPending(d)
      BY <2>o, <3>2 DEF StillPending, Forget
    <3>3. CASE DeleteMail(d)
      BY <1>2, <2>o, <3>3 DEF DeleteMail, Forget
    <3>4. CASE SendFailed(d)
      BY <2>o, <3>4 DEF SendFailed, Retry, Abandon, Forget
    <3>5. CASE Snapshot(d) \/ SnapshotFailed(d) \/ Stop(d) \/ Skip(d)
      BY <2>o, <3>5 DEF Snapshot, SnapshotFailed, Stop, Skip
    <3>6. CASE Take(d)
      BY <2>o, <3>6 DEF Take
    <3>7. CASE Sent(d)
      BY <2>o, <3>7 DEF Sent
    <3>8. CASE NotPending(d) \/ FileSent(d)
      BY <2>o, <3>8 DEF NotPending, FileSent
    <3> QED
      BY <2>3, <3>1, <3>2, <3>3, <3>4, <3>5, <3>6, <3>7, <3>8 DEF Runner
  <2>4. CASE Crash
    BY <2>4 DEF Crash
  <2>5. CASE UNCHANGED vars
    BY <2>o, <2>5 DEF vars
  <2> QED
    BY <2>1, <2>2, <2>3, <2>4, <2>5 DEF Next
<1>3. faults = 0
  <2>1. ASSUME NEW s \in Sessions, Session(s) PROVE UNCHANGED faults
    BY <2>1 DEF Session, Submit, DeliverLocally, SkipRcpt, CopyFailed,
                ReadNext, Insert, InsertRejected, Bump, Enqueue, EnqueueFailed,
                WakeRunner, Finish
  <2>2. ASSUME NEW d \in Dests, Runner(d) PROVE UNCHANGED faults
    BY <2>2 DEF Runner, Snapshot, SnapshotFailed, Take, Skip, Sent, SendFailed,
                Dequeue, NotPending, StillPending, FileSent, DeleteMail, Stop
  <2>3. Manager \/ UNCHANGED vars => UNCHANGED faults
    BY DEF Manager, ManagerList, ManagerWake, vars
  <2>4. ~Crash
    BY DEF Crash
  <2> QED
    BY <2>1, <2>2, <2>3, <2>4 DEF Next
<1>4. x \in outbox \/ \E s \in Sessions : Insert(s) /\ x.id = slot[s]
  <2>1. ASSUME NEW s \in Sessions, Session(s)
        PROVE  x \in outbox \/ (Insert(s) /\ x.id = slot[s])
    <3>1. CASE Insert(s)
      <4>1. outbox' = outbox \cup {Entry(slot[s], Mail(s))}
        BY <3>1 DEF Insert, Entry
      <4> QED
        BY <3>1, <4>1 DEF Entry
    <3>2. CASE UNCHANGED outbox
      BY <3>2
    <3> QED
      BY <2>1, <3>1, <3>2
      DEF Session, Submit, DeliverLocally, SkipRcpt, CopyFailed, ReadNext,
          InsertRejected, Bump, Enqueue, EnqueueFailed, WakeRunner, Finish
  <2>2. ASSUME NEW d \in Dests, Runner(d) PROVE x \in outbox
    BY <2>2 DEF Runner, Snapshot, SnapshotFailed, Take, Skip, Sent, SendFailed,
                Dequeue, NotPending, StillPending, FileSent, DeleteMail, Stop
  <2>3. ASSUME Manager \/ Crash \/ UNCHANGED vars PROVE x \in outbox
    BY <2>3 DEF Manager, ManagerList, ManagerWake, Crash, vars
  <2> QED
    BY <2>1, <2>2, <2>3 DEF Next
<1> QED
  BY <1>1, <1>2, <1>3, <1>4

\* Without faults every message in Outbox is some session's, row's or runner's.
THEOREM OrphansNeedFaults == Spec => []OrphanNeedsFault
<1>1. Init => OrphanNeedsFault
  BY DEF Init, OrphanNeedsFault
<1> QED
  BY TypeInit, TypeStep, ClaimInit, ClaimStep, <1>1, OrphanStep, PTL DEF Spec

-----------------------------------------------------------------------------
(* Nothing is dropped before it arrived                                    *)

\* A runner cleans up only after a nil from sendViaIPv6 (sender.go:208-236).
CleaningAfterArrival ==
    \A d \in Dests :
        rpc[d] \in {"dequeue", "pending", "file", "delete"} => arrived[body[d]] > 0

ArrivalInv == CleaningAfterArrival /\ AcceptedNotLost /\ SentOnlyAfterArrival

Inv == TypeInv /\ ClaimInv /\ ArrivalInv

\* Nothing has been queued, sent or filed.
LEMMA ArrivalInit == Init => ArrivalInv
  BY DEF Init, ArrivalInv, CleaningAfterArrival, AcceptedNotLost,
         SentOnlyAfterArrival

\* Counters of arrivals never fall, and only these steps touch the rest.
LEMMA ArrivedGrows ==
  TypeInv /\ [Next]_vars => \A m \in Mails : arrived[m] > 0 => arrived'[m] > 0
<1> SUFFICES ASSUME TypeInv, [Next]_vars, NEW m \in Mails, arrived[m] > 0
             PROVE  arrived'[m] > 0
  OBVIOUS
<1>t. arrived \in [Mails -> Nat]
  BY DEF TypeInv, TypeOK
<1>1. ASSUME NEW M, Arrive(M) PROVE arrived'[m] > 0
  BY <1>t, <1>1, ArriveCounts
<1>2. ASSUME UNCHANGED arrived PROVE arrived'[m] > 0
  BY <1>2
<1> QED
  BY <1>1, <1>2
  DEF Next, Session, Runner, Manager, vars, ends, Submit, DeliverLocally,
      SkipRcpt, CopyFailed, ReadNext, Insert, InsertRejected, Bump, Enqueue,
      EnqueueFailed, WakeRunner, Finish, ManagerList, ManagerWake, Snapshot,
      SnapshotFailed, Take, Skip, Sent, SendFailed, Retry, Abandon, Dequeue,
      NotPending, StillPending, FileSent, DeleteMail, Stop, Crash

\* A row goes only after its mail arrived; accepted mails have arrived or keep
\* a row; only arrived mails are filed in Sent.
LEMMA ArrivalStep == Inv /\ [Next]_vars => ArrivalInv'
<1> SUFFICES ASSUME Inv, [Next]_vars PROVE ArrivalInv'
  OBVIOUS
<1>t. /\ queue \subseteq Rows
      /\ arrived \in [Mails -> Nat]
      /\ accepted \subseteq Mails
      /\ sent \subseteq Mails
      /\ rpc \in [Dests -> {"off", "select", "next", "send", "dequeue",
                            "pending", "file", "delete"}]
      /\ cur \in [Dests -> Rows \cup {<<>>}]
      /\ body \in [Dests -> Mails \cup {<<>>}]
      /\ \A d \in Dests : rpc[d] \in Working => body[d] \in Mails
  BY DEF Inv, TypeInv, TypeOK, StagesOK
<1>c. \A d \in Dests : rpc[d] = "dequeue" =>
         /\ arrived[cur[d].mail] > 0
         /\ \A r \in queue : r.id = cur[d].id => r = cur[d]
  BY DEF Inv, ClaimInv, RunnerClaims, RowsUnique, Working, ArrivalInv,
         CleaningAfterArrival
<1>g. \A m \in Mails : arrived[m] > 0 => arrived'[m] > 0
  BY ArrivedGrows DEF Inv
<1> USE <1>t, <1>g DEF ArrivalInv, CleaningAfterArrival, AcceptedNotLost,
        SentOnlyAfterArrival, Working, tables, ends, sessions, runners, RunnerTo
<1>i. ArrivalInv
  BY DEF Inv
<1>1. ASSUME NEW s \in Sessions, Session(s) PROVE ArrivalInv'
  <2>1. CASE Enqueue(s)
    <3>1. /\ \A r \in queue : r \in queue'
          /\ \E r \in queue' : r.mail = Mail(s)
      BY <2>1, EnqueuedRow
    <3>2. AcceptedNotLost'
      BY <1>i, <2>1, <3>1 DEF Enqueue
    <3> QED
      BY <1>i, <2>1, <3>2 DEF Enqueue
  <2>2. CASE WakeRunner(s)
    BY <1>i, <2>2 DEF WakeRunner, Wake
  <2>3. CASE UNCHANGED <<queue, sent, arrived, accepted, runners>>
    BY <1>i, <2>3
  <2> HIDE DEF ArrivalInv
  <2> QED
    BY <1>1, <2>1, <2>2, <2>3
    DEF Session, Submit, DeliverLocally, SkipRcpt, CopyFailed, ReadNext,
        Insert, InsertRejected, Bump, EnqueueFailed, Finish
<1>2. ASSUME Manager PROVE ArrivalInv'
  BY <1>i, <1>2 DEF Manager, ManagerList, ManagerWake, Wake
<1>3. ASSUME NEW d \in Dests, Runner(d) PROVE ArrivalInv'
  <2>1. CASE Sent(d)
    <3>1. arrived'[body[d]] = arrived[body[d]] + 1 /\ rpc[d] = "send"
      BY <2>1, ArriveCounts DEF Sent
    <3> QED
      BY <1>i, <2>1, <3>1 DEF Sent
  <2>2. CASE Dequeue(d)
    <3>1. CASE UNCHANGED queue
      BY <1>i, <2>2, <3>1 DEF Dequeue
    <3>2. CASE queue' = {r \in queue : ~(r.dest = d /\ r.id = cur[d].id)}
      <4>1. \A r \in queue : r \in queue' \/ arrived[r.mail] > 0
        BY <1>c, <2>2, <3>2 DEF Dequeue
      <4>2. AcceptedNotLost'
        BY <1>i, <2>2, <4>1 DEF Dequeue
      <4> QED
        BY <1>i, <2>2, <4>2 DEF Dequeue
    <3> QED
      BY <2>2, <3>1, <3>2 DEF Dequeue
  <2>3. CASE FileSent(d)
    BY <1>i, <2>3 DEF FileSent
  <2>4. CASE Take(d)
    BY <1>i, <2>4 DEF Take
  <2>5. CASE SendFailed(d)
    <3>1. CASE UNCHANGED <<rpc, body>>
      BY <1>i, <2>5, <3>1 DEF SendFailed
    <3>2. CASE Forget(d)
      BY <1>i, <2>5, <3>2 DEF SendFailed, Retry, Abandon, Forget
    <3> QED
      BY <2>5, <3>1, <3>2 DEF SendFailed, Retry, Abandon
  <2>6. CASE NotPending(d)
    BY <1>i, <2>6 DEF NotPending
  <2>7. CASE StillPending(d) \/ DeleteMail(d)
    BY <1>i, <2>7 DEF StillPending, DeleteMail, Forget
  <2>8. CASE Snapshot(d) \/ SnapshotFailed(d) \/ Stop(d) \/ Skip(d)
    BY <1>i, <2>8 DEF Snapshot, SnapshotFailed, Stop, Skip
  <2> HIDE DEF ArrivalInv
  <2> QED
    BY <1>3, <2>1, <2>2, <2>3, <2>4, <2>5, <2>6, <2>7, <2>8 DEF Runner
<1>4. ASSUME Crash PROVE ArrivalInv'
  BY <1>i, <1>4 DEF Crash
<1>5. ASSUME UNCHANGED vars PROVE ArrivalInv'
  BY <1>i, <1>5 DEF vars
<1> HIDE DEF ArrivalInv
<1> QED
  BY <1>1, <1>2, <1>3, <1>4, <1>5 DEF Next

\* The inductive invariant holds of the empty node ...
LEMMA InvInit == Init => Inv
  BY TypeInit, ClaimInit, ArrivalInit DEF Inv

\* ... and every step keeps it.
LEMMA InvStep == Inv /\ [Next]_vars => Inv'
  BY TypeStep, ClaimStep, ArrivalStep DEF Inv

\* A mail whose queue row was committed is queued until it has arrived.
THEOREM NothingAcceptedIsLost == Spec => []AcceptedNotLost
<1>1. Inv => AcceptedNotLost
  BY DEF Inv, ArrivalInv
<1> QED
  BY InvInit, InvStep, <1>1, PTL DEF Spec

\* The Sent folders hold only mail that its destination accepted.
THEOREM SentFoldersAreTrue == Spec => []SentOnlyAfterArrival
<1>1. Inv => SentOnlyAfterArrival
  BY DEF Inv, ArrivalInv
<1> QED
  BY InvInit, InvStep, <1>1, PTL DEF Spec

\* Only a runner that has delivered a mail removes it from Outbox.
LEMMA KeptStep ==
  Inv /\ [Next]_vars => \A x \in outbox : x \notin outbox' => arrived[x.mail] > 0
<1> SUFFICES ASSUME Inv, [Next]_vars, NEW x \in outbox, x \notin outbox'
             PROVE  arrived[x.mail] > 0
  OBVIOUS
<1>1. PICK d \in Dests : DeleteMail(d)
  BY DEF Next, Session, Runner, Manager, vars, tables, Submit, DeliverLocally,
         SkipRcpt, CopyFailed, ReadNext, Insert, InsertRejected, Bump, Enqueue,
         EnqueueFailed, WakeRunner, Finish, ManagerList, ManagerWake, Snapshot,
         SnapshotFailed, Take, Skip, Sent, SendFailed, Retry, Abandon, Dequeue,
         NotPending, StillPending, FileSent, Stop, Crash
<1>2. rpc[d] = "delete" /\ x.id = cur[d].id
  BY <1>1 DEF DeleteMail
<1>3. Entry(cur[d].id, cur[d].mail) \in outbox /\ body[d] = cur[d].mail
  BY <1>2 DEF Inv, ClaimInv, RunnerClaims, Working
<1>4. x = Entry(cur[d].id, cur[d].mail)
  BY <1>2, <1>3 DEF Inv, ClaimInv, IdsUnique, Entry
<1>5. arrived[body[d]] > 0
  BY <1>2 DEF Inv, ArrivalInv, CleaningAfterArrival
<1> QED
  BY <1>3, <1>4, <1>5 DEF Entry

\* No mail leaves Outbox before its destination has it.
THEOREM OutboxKeepsMail == Spec => KeptUntilArrived
<1>1. Inv /\ [Next]_vars =>
         [\A x \in outbox : x \notin outbox' => arrived[x.mail] > 0]_vars
  BY KeptStep
<1> QED
  BY InvInit, InvStep, <1>1, PTL DEF Spec, KeptUntilArrived

-----------------------------------------------------------------------------
(* The recipient loop of QueueFor                                          *)

\* How many recipients session s has left behind.
Passed(s) == Len(Envelope[s]) - Len(left[s])

Copy(s, i) == [from |-> s, rcpt |-> Envelope[s][i]]

Handled(s, i) ==
    Copy(s, i) \in inbox \cup accepted \cup unmade \/ DestOf[Envelope[s][i]] = NoDest

\* The recipients still to treat are the last ones of the envelope, and each
\* one before them is handled.
LoopAt(s) ==
    \/ spc[s] = "idle" /\ left[s] = <<>>
    \/ /\ spc[s] # "idle"
       /\ Passed(s) \in 0 .. Len(Envelope[s])
       /\ \A i \in 1 .. Len(left[s]) : left[s][i] = Envelope[s][Passed(s) + i]
       /\ \A i \in 1 .. Passed(s) : Handled(s, i)
       /\ spc[s] = "wake" => Handled(s, Passed(s) + 1)
       /\ spc[s] = "done" => left[s] = <<>>

LoopInv == \A s \in Sessions : LoopAt(s)

\* What Head and Tail are, item by item.
LEMMA TailItems ==
  ASSUME NEW q \in Seq(Rcpts), q # <<>>
  PROVE  /\ Len(q) \in Nat \ {0}
         /\ Head(q) = q[1]
         /\ Tail(q) \in Seq(Rcpts)
         /\ Len(Tail(q)) = Len(q) - 1
         /\ \A i \in 1 .. Len(q) - 1 : Tail(q)[i] = q[i + 1]
  OBVIOUS

\* The copy in hand is the next one of the envelope.
LEMMA HeadOfEnvelope ==
  ASSUME TypeInv, NEW s \in Sessions, LoopAt(s), left[s] # <<>>
  PROVE  /\ Mail(s) = Copy(s, Passed(s) + 1)
         /\ Head(left[s]) = Envelope[s][Passed(s) + 1]
         /\ Passed(s) \in Nat
         /\ Passed(s) + 1 \in 1 .. Len(Envelope[s])
<1>1. left[s] \in Seq(Rcpts) /\ Envelope[s] \in Seq(Rcpts)
  BY OutboundAssumption DEF TypeInv, TypeOK
<1>2. Len(left[s]) \in Nat \ {0} /\ Head(left[s]) = left[s][1]
  BY <1>1, TailItems
<1>3. left[s][1] = Envelope[s][Passed(s) + 1]
  BY <1>2 DEF LoopAt
<1>4. Len(Envelope[s]) \in Nat
  BY <1>1
<1>5. Passed(s) \in 0 .. Len(Envelope[s])
  BY DEF LoopAt
<1>6. Passed(s) + 1 \in 1 .. Len(Envelope[s])
  <2>1. \A a \in Nat, b \in Nat \ {0} : a - b \in 0 .. a => (a - b) + 1 \in 1 .. a
    OBVIOUS
  <2> QED
    BY <1>2, <1>4, <1>5, <2>1 DEF Passed
<1>7. Mail(s) = Copy(s, Passed(s) + 1)
  BY <1>2, <1>3 DEF Mail, Copy
<1> QED
  BY <1>2, <1>3, <1>5, <1>6, <1>7

\* A recipient once handled stays so, and going on to the next one is right
\* when the current one is handled.
LEMMA LoopAdvances ==
  ASSUME TypeInv, NEW s \in Sessions, LoopAt(s), left[s] # <<>>,
         NextRcpt(s), inbox \subseteq inbox', accepted \subseteq accepted',
         unmade \subseteq unmade',
         \/ Mail(s) \in inbox' \cup accepted' \cup unmade'
         \/ DestOf[Head(left[s])] = NoDest
  PROVE  LoopAt(s)'
<1>1. left[s] \in Seq(Rcpts) /\ Envelope[s] \in Seq(Rcpts)
  BY OutboundAssumption DEF TypeInv, TypeOK
<1>2. /\ spc'[s] = "route" /\ left'[s] = Tail(left[s])
      /\ spc[s] # "idle"
  BY DEF NextRcpt, StepTo, TypeInv, TypeOK, LoopAt
<1>3. /\ Len(left[s]) \in Nat \ {0}
      /\ Len(left'[s]) = Len(left[s]) - 1
      /\ \A i \in 1 .. Len(left[s]) - 1 : left'[s][i] = left[s][i + 1]
  BY <1>1, <1>2, TailItems
<1>4. Len(Envelope[s]) \in Nat
  BY <1>1
<1>n. PICK n \in Nat : n = Passed(s)
  BY HeadOfEnvelope
<1>5. /\ n \in Nat /\ n + 1 \in 1 .. Len(Envelope[s])
      /\ Mail(s) = Copy(s, n + 1) /\ Head(left[s]) = Envelope[s][n + 1]
  BY <1>n, HeadOfEnvelope
<1>6. Passed(s)' = n + 1
  BY <1>n, <1>3, <1>4 DEF Passed
<1>7. \A i \in 1 .. n : Handled(s, i)'
  BY <1>n, <1>2 DEF LoopAt, Handled
<1>8. Handled(s, n + 1)'
  BY <1>5 DEF Handled, Copy
<1>9. \A i \in 1 .. n + 1 : Handled(s, i)'
  <2> TAKE i \in 1 .. n + 1
  <2>1. i \in 1 .. n \/ i = n + 1
    BY <1>5
  <2> QED
    BY <1>7, <1>8, <2>1
<1>10. \A i \in 1 .. Len(left'[s]) : left'[s][i] = Envelope[s][(n + 1) + i]
  <2> TAKE i \in 1 .. Len(left'[s])
  <2>1. left'[s][i] = left[s][i + 1] /\ i + 1 \in 1 .. Len(left[s])
    BY <1>3
  <2>2. left[s][i + 1] = Envelope[s][n + (i + 1)]
    BY <1>n, <1>2, <2>1 DEF LoopAt
  <2>3. n + (i + 1) = (n + 1) + i
    BY <1>5
  <2> QED
    BY <2>1, <2>2, <2>3
<1> QED
  BY <1>2, <1>5, <1>6, <1>9, <1>10 DEF LoopAt

\* A session that keeps its place in the loop keeps what it has handled.
LEMMA LoopStays ==
  ASSUME NEW s \in Sessions, LoopAt(s), left'[s] = left[s],
         inbox \subseteq inbox', accepted \subseteq accepted',
         unmade \subseteq unmade',
         spc'[s] = "idle" <=> spc[s] = "idle",
         spc'[s] = "wake" => spc[s] = "wake" \/ Handled(s, Passed(s) + 1)',
         spc'[s] = "done" => left[s] = <<>>
  PROVE  LoopAt(s)'
<1>1. Passed(s)' = Passed(s)
  BY DEF Passed
<1>2. \A i : Handled(s, i) => Handled(s, i)'
  BY DEF Handled
<1> QED
  BY <1>1, <1>2 DEF LoopAt

\* No session has begun.
LEMMA LoopInit == Init => LoopInv
  BY ZenonT(30) DEF Init, LoopInv, LoopAt

\* Every statement of QueueFor keeps the loop invariant of every session.
LEMMA LoopStep == TypeInv /\ LoopInv /\ [Next]_vars => LoopInv'
<1> SUFFICES ASSUME TypeInv, LoopInv, [Next]_vars, NEW u \in Sessions
             PROVE  LoopAt(u)'
  BY DEF LoopInv
<1>t. /\ spc \in [Sessions -> {"idle", "route", "insert", "bump", "enqueue",
                               "wake", "done", "failed"}]
      /\ left \in [Sessions -> Seq(Rcpts)]
  BY DEF TypeInv, TypeOK
<1>u. LoopAt(u)
  BY DEF LoopInv
<1>m. inbox \subseteq inbox' /\ accepted \subseteq accepted' /\ unmade \subseteq unmade'
  BY DEF Next, Session, Runner, Manager, vars, ends, Submit, DeliverLocally,
         SkipRcpt, CopyFailed, ReadNext, NotDelivered, Insert, InsertRejected,
         Bump, Enqueue, EnqueueFailed, WakeRunner, Finish, ManagerList,
         ManagerWake, Snapshot, SnapshotFailed, Take, Skip, Sent, SendFailed,
         Dequeue, NotPending, StillPending, FileSent, DeleteMail, Stop, Crash
<1>1. ASSUME NEW s \in Sessions, Session(s), s # u PROVE LoopAt(u)'
  <2>1. spc'[u] = spc[u] /\ left'[u] = left[u]
    BY <1>t, <1>1
    DEF Session, sessions, StepTo, NextRcpt, Submit, DeliverLocally, SkipRcpt,
        CopyFailed, ReadNext, Insert, InsertRejected, Bump, Enqueue,
        EnqueueFailed, WakeRunner, Finish
  <2> QED
    BY <1>u, <1>m, <2>1, LoopStays DEF LoopAt
<1>2. ASSUME Session(u) PROVE LoopAt(u)'
  <2>1. CASE Submit(u)
    <3>1. spc'[u] = "route" /\ left'[u] = Envelope[u]
      BY <1>t, <2>1 DEF Submit, StepTo
    <3>2. Len(Envelope[u]) \in Nat
      BY OutboundAssumption
    <3>3. Passed(u)' = 0
      BY <3>1, <3>2 DEF Passed
    <3> QED
      BY <3>1, <3>2, <3>3 DEF LoopAt
  <2>2. CASE DeliverLocally(u)
    <3>1. Mail(u) \in inbox' /\ NextRcpt(u) /\ left[u] # <<>>
      BY <2>2 DEF DeliverLocally
    <3> QED
      BY <1>u, <1>m, <3>1, LoopAdvances
  <2>3. CASE SkipRcpt(u)
    <3>1. DestOf[Head(left[u])] = NoDest /\ NextRcpt(u) /\ left[u] # <<>>
      BY <2>3 DEF SkipRcpt
    <3> QED
      BY <1>u, <1>m, <3>1, LoopAdvances
  <2>8. CASE CopyFailed(u)
    <3>1. Mail(u) \in unmade' /\ NextRcpt(u) /\ left[u] # <<>>
      BY <2>8 DEF CopyFailed
    <3> QED
      BY <1>u, <1>m, <3>1, LoopAdvances
  <2>4. CASE WakeRunner(u)
    <3>1. NextRcpt(u) /\ left[u] # <<>> /\ spc[u] = "wake"
      BY <2>4 DEF WakeRunner, TypeInv, StagesOK
    <3>2. Handled(u, Passed(u) + 1)
      BY <1>u, <3>1 DEF LoopAt
    <3>3. Mail(u) \in inbox \cup accepted \cup unmade \/ DestOf[Head(left[u])] = NoDest
      BY <1>u, <3>1, <3>2, HeadOfEnvelope DEF Handled
    <3> QED
      BY <1>u, <1>m, <3>1, <3>3, LoopAdvances
  <2>5. CASE Enqueue(u)
    <3>1. /\ spc'[u] = "wake" /\ spc[u] = "enqueue" /\ left'[u] = left[u]
          /\ Mail(u) \in accepted' /\ left[u] # <<>>
      BY <1>t, <2>5 DEF Enqueue, StepTo, TypeInv, StagesOK
    <3>2. Handled(u, Passed(u) + 1)'
      <4>1. Passed(u)' = Passed(u)
        BY <3>1 DEF Passed
      <4>2. Mail(u) = Copy(u, Passed(u) + 1)
        BY <1>u, <3>1, HeadOfEnvelope
      <4> QED
        BY <3>1, <4>1, <4>2 DEF Handled, Copy
    <3> QED
      BY <1>u, <1>m, <3>1, <3>2, LoopStays
  <2>6. CASE Finish(u)
    <3>1. spc'[u] = "done" /\ spc[u] = "route" /\ left'[u] = left[u] /\ left[u] = <<>>
      BY <1>t, <2>6 DEF Finish, StepTo
    <3> QED
      BY <1>u, <1>m, <3>1, LoopStays
  <2>7. CASE ReadNext(u) \/ Insert(u) \/ InsertRejected(u) \/ Bump(u) \/ EnqueueFailed(u)
    <3>1. /\ spc'[u] \in {"insert", "bump", "enqueue", "failed"}
          /\ spc[u] \in {"route", "insert", "bump", "enqueue"}
          /\ left'[u] = left[u]
      BY <1>t, <2>7 DEF ReadNext, Insert, InsertRejected, Bump, EnqueueFailed,
                        StepTo
    <3> QED
      BY <1>u, <1>m, <3>1, LoopStays
  <2> QED
    BY <1>2, <2>1, <2>2, <2>3, <2>4, <2>5, <2>6, <2>7, <2>8 DEF Session
<1>3. ASSUME Crash PROVE LoopAt(u)'
  <2>1. /\ spc'[u] = (IF spc[u] \in {"idle", "done"} THEN spc[u] ELSE "failed")
        /\ left'[u] = left[u]
    BY <1>t, <1>3 DEF Crash
  <2> QED
    BY <1>u, <1>m, <2>1, LoopStays DEF LoopAt
<1>4. ASSUME UNCHANGED <<spc, left>> PROVE LoopAt(u)'
  BY <1>u, <1>m, <1>4, LoopStays DEF LoopAt
<1>5. ASSUME Manager \/ UNCHANGED vars PROVE UNCHANGED <<spc, left>>
  BY <1>5 DEF Manager, ManagerList, ManagerWake, sessions, vars
<1>6. ASSUME NEW d \in Dests, Runner(d) PROVE UNCHANGED <<spc, left>>
  BY <1>6 DEF Runner, sessions, Snapshot, SnapshotFailed, Take, Skip, Sent,
              SendFailed, Dequeue, NotPending, StillPending, FileSent,
              DeleteMail, Stop
<1> QED
  BY <1>1, <1>2, <1>3, <1>4, <1>5, <1>6 DEF Next

\* A client that is told its message was accepted has left nobody behind.
THEOREM DoneLeavesNobodyBehind == Spec => []DoneMeansHandled
<1>1. TypeInv /\ LoopInv => DoneMeansHandled
  <2> SUFFICES ASSUME TypeInv, LoopInv, NEW s \in Sessions, spc[s] = "done",
                      NEW i \in DOMAIN Envelope[s]
               PROVE  Handled(s, i)
    BY DEF DoneMeansHandled, Handled, Copy
  <2>1. Envelope[s] \in Seq(Rcpts) /\ left[s] = <<>>
    BY OutboundAssumption DEF LoopInv, LoopAt
  <2>2. i \in 1 .. Passed(s)
    BY <2>1 DEF Passed
  <2> QED
    BY <2>2 DEF LoopInv, LoopAt
<1> QED
  BY TypeInit, TypeStep, LoopInit, LoopStep, <1>1, PTL DEF Spec

-----------------------------------------------------------------------------
(* A mail is sent again only for a reason                                  *)

\* The loop of m's session is past a position of m.
Treated(m) ==
    /\ spc[m.from] # "idle"
    /\ \E i \in DOMAIN Envelope[m.from] :
          /\ Envelope[m.from][i] = m.rcpt
          /\ i <= Passed(m.from) + 1
          /\ i = Passed(m.from) + 1 => spc[m.from] \in {"wake", "failed"}

TreatedInv == \A m \in accepted : Treated(m)

\* A mail that may still be sent has arrived at most as often as there were
\* faults; the one more is that of the runner about to delete its only row.
OnceAt(m) ==
    /\ arrived[m] <= 1 + faults
    /\ m \notin accepted => arrived[m] = 0 /\ \A r \in queue : r.mail # m
    /\ \A r, q \in queue : r.mail = m /\ q.mail = m => r = q
    /\ \A r \in queue : r.mail = m =>
          arrived[m] <= faults \/ \E d \in Dests : rpc[d] = "dequeue" /\ cur[d] = r

OnceInv == \A m \in Mails : OnceListed(m) => OnceAt(m)

\* Nothing is queued yet.
LEMMA OnceInit == Init => TreatedInv /\ OnceInv
  BY DEF Init, TreatedInv, OnceInv, OnceAt

\* The session's loop only goes forward.
LEMMA TreatedStep == TypeInv /\ LoopInv /\ TreatedInv /\ [Next]_vars => TreatedInv'
<1> SUFFICES ASSUME TypeInv, LoopInv, TreatedInv, [Next]_vars, NEW m \in accepted'
             PROVE  Treated(m)'
  BY DEF TreatedInv
<1>t. /\ spc \in [Sessions -> {"idle", "route", "insert", "bump", "enqueue",
                               "wake", "done", "failed"}]
      /\ left \in [Sessions -> Seq(Rcpts)]
      /\ Envelope \in [Sessions -> Seq(Rcpts)]
      /\ accepted \subseteq Mails
  BY OutboundAssumption DEF TypeInv, TypeOK
<1>p. \A s \in Sessions : Passed(s) \in Int
  BY <1>t DEF Passed
<1>1. ASSUME NEW s \in Sessions, left'[s] = left[s], m.from = s, m \in accepted,
             spc'[s] # "idle",
             spc[s] \in {"wake", "failed"} => spc'[s] \in {"wake", "failed"}
      PROVE  Treated(m)'
  <2>1. Treated(m) /\ Passed(s)' = Passed(s)
    BY <1>1 DEF TreatedInv, Passed
  <2> QED
    BY <1>1, <2>1 DEF Treated
<1>2. ASSUME NEW s \in Sessions, NextRcpt(s), left[s] # <<>>, m.from = s, m \in accepted
      PROVE  Treated(m)'
  <2>1. left'[s] = Tail(left[s]) /\ spc'[s] = "route"
    BY <1>t, <1>2 DEF NextRcpt, StepTo
  <2>2. Len(left'[s]) = Len(left[s]) - 1 /\ Len(left[s]) \in Nat
    BY <1>t, <1>2, <2>1, TailItems
  <2>3. Len(Envelope[s]) \in Nat
    BY <1>t
  <2>4. Passed(s)' = Passed(s) + 1
    BY <2>2, <2>3 DEF Passed
  <2>5. PICK i \in DOMAIN Envelope[s] :
           Envelope[s][i] = m.rcpt /\ i <= Passed(s) + 1
    BY <1>2 DEF TreatedInv, Treated
  <2>6. i \in Nat
    BY <1>t, <2>5
  <2>7. i <= Passed(s)' + 1 /\ i # Passed(s)' + 1
    BY <1>p, <2>4, <2>5, <2>6
  <2> QED
    BY <1>2, <2>1, <2>5, <2>7 DEF Treated
<1>3. ASSUME NEW s \in Sessions, Session(s) PROVE Treated(m)'
  <2>1. CASE m \in accepted /\ m.from # s
    <3>1. m.from \in Sessions
      BY <1>t, <2>1 DEF Mails
    <3>2. spc'[m.from] = spc[m.from] /\ left'[m.from] = left[m.from]
      BY <1>t, <1>3, <2>1, <3>1
      DEF Session, sessions, StepTo, NextRcpt, Submit, DeliverLocally,
          SkipRcpt, CopyFailed, ReadNext, Insert, InsertRejected, Bump,
          Enqueue, EnqueueFailed, WakeRunner, Finish
    <3>3. spc[m.from] # "idle"
      BY <2>1 DEF TreatedInv, Treated
    <3> QED
      BY <1>1, <2>1, <3>1, <3>2, <3>3
  <2>2. CASE m \in accepted /\ m.from = s
    <3>1. spc[s] # "idle"
      BY <2>2 DEF TreatedInv, Treated
    <3>2. CASE DeliverLocally(s) \/ SkipRcpt(s) \/ CopyFailed(s)
      BY <1>2, <2>2, <3>2 DEF DeliverLocally, SkipRcpt, CopyFailed
    <3>3. CASE WakeRunner(s)
      <4>1. left[s] # <<>>
        BY <3>3 DEF WakeRunner, TypeInv, StagesOK
      <4> QED
        BY <1>2, <2>2, <3>3, <4>1 DEF WakeRunner
    <3>4. CASE Submit(s)
      BY <3>1, <3>4 DEF Submit
    <3>5. CASE ReadNext(s) \/ Insert(s) \/ InsertRejected(s) \/ Bump(s)
               \/ Enqueue(s) \/ EnqueueFailed(s) \/ Finish(s)
      <4>1. /\ left'[s] = left[s] /\ spc'[s] # "idle"
            /\ spc[s] \notin {"wake", "failed"}
        BY <1>t, <3>5 DEF ReadNext, Insert, InsertRejected, Bump, Enqueue,
                          EnqueueFailed, Finish, StepTo
      <4> QED
        BY <1>1, <2>2, <4>1
    <3> QED
      BY <1>3, <3>2, <3>3, <3>4, <3>5 DEF Session
  <2>3. CASE m \notin accepted
    <3>1. Enqueue(s) /\ m = Mail(s)
      BY <1>3, <2>3
      DEF Session, ends, Submit, DeliverLocally, SkipRcpt, CopyFailed,
          ReadNext, Insert, InsertRejected, Bump, Enqueue, EnqueueFailed,
          WakeRunner, Finish
    <3>2. /\ spc'[s] = "wake" /\ left'[s] = left[s] /\ left[s] # <<>>
      BY <1>t, <3>1 DEF Enqueue, StepTo, TypeInv, StagesOK
    <3>3. Passed(s)' = Passed(s)
      BY <3>2 DEF Passed
    <3>4. /\ m = Copy(s, Passed(s) + 1)
          /\ Passed(s) + 1 \in 1 .. Len(Envelope[s])
      BY <3>1, <3>2, HeadOfEnvelope DEF LoopInv
    <3>5. /\ m.from = s /\ m.rcpt = Envelope[s][Passed(s) + 1]
          /\ Passed(s) + 1 \in DOMAIN Envelope[s]
          /\ Passed(s) + 1 <= Passed(s) + 1
      BY <1>p, <1>t, <3>4 DEF Copy
    <3> QED
      BY <3>2, <3>3, <3>5 DEF Treated
  <2> QED
    BY <2>1, <2>2, <2>3
<1>4. ASSUME UNCHANGED <<spc, left, accepted>> PROVE Treated(m)'
  BY <1>4 DEF TreatedInv, Treated, Passed
<1>5. ASSUME Crash PROVE Treated(m)'
  <2>1. m \in accepted /\ m.from \in Sessions
    BY <1>t, <1>5 DEF Crash, Mails
  <2>2. /\ left'[m.from] = left[m.from]
        /\ spc'[m.from] = IF spc[m.from] \in {"idle", "done"} THEN spc[m.from]
                                                            ELSE "failed"
    BY <1>5, <2>1 DEF Crash
  <2>3. spc[m.from] # "idle"
    BY <2>1 DEF TreatedInv, Treated
  <2> QED
    BY <1>1, <2>1, <2>2, <2>3
<1>6. ASSUME Manager \/ UNCHANGED vars PROVE UNCHANGED <<spc, left, accepted>>
  BY <1>6 DEF Manager, ManagerList, ManagerWake, sessions, ends, vars
<1>7. ASSUME NEW d \in Dests, Runner(d) PROVE UNCHANGED <<spc, left, accepted>>
  BY <1>7 DEF Runner, sessions, ends, Snapshot, SnapshotFailed, Take, Skip, Sent,
              SendFailed, Dequeue, NotPending, StillPending, FileSent,
              DeleteMail, Stop
<1> QED
  BY <1>3, <1>4, <1>5, <1>6, <1>7 DEF Next

\* A session queues the copy for a recipient that is named once only once.
LEMMA EnqueuedOnce ==
  ASSUME TypeInv, LoopInv, TreatedInv, NEW s \in Sessions, Enqueue(s),
         OnceListed(Mail(s))
  PROVE  Mail(s) \notin accepted
<1> DEFINE m == Mail(s)
<1>1. spc[s] = "enqueue" /\ left[s] # <<>> /\ m.from = s
  BY DEF Enqueue, TypeInv, StagesOK, Mail
<1>2. /\ m = Copy(s, Passed(s) + 1)
      /\ Passed(s) + 1 \in 1 .. Len(Envelope[s])
  BY <1>1, HeadOfEnvelope DEF LoopInv
<1>3. /\ Passed(s) + 1 \in DOMAIN Envelope[s]
      /\ Envelope[s][Passed(s) + 1] = m.rcpt
  BY <1>2, OutboundAssumption DEF Copy
<1> HIDE DEF m
<1>4. ASSUME NEW i \in DOMAIN Envelope[s], Envelope[s][i] = m.rcpt
      PROVE  i = Passed(s) + 1
  BY <1>1, <1>3, <1>4 DEF OnceListed, m
<1>5. ~Treated(m)
  BY <1>1, <1>4 DEF Treated
<1> QED
  BY <1>5 DEF TreatedInv, m

\* Only a fault leaves a mail that has arrived with a row to send it from.
LEMMA OnceStep ==
  Inv /\ LoopInv /\ TreatedInv /\ OnceInv /\ [Next]_vars => OnceInv'
<1> SUFFICES ASSUME Inv, LoopInv, TreatedInv, OnceInv, [Next]_vars,
                    NEW m \in Mails, OnceListed(m)
             PROVE  OnceAt(m)'
  BY DEF OnceInv, OnceListed
<1>t. /\ queue \subseteq Rows
      /\ arrived \in [Mails -> Nat]
      /\ rpc \in [Dests -> {"off", "select", "next", "send", "dequeue",
                            "pending", "file", "delete"}]
      /\ cur \in [Dests -> Rows \cup {<<>>}]
      /\ faults \in Nat
  BY DEF Inv, TypeInv, TypeOK
<1>o. OnceAt(m)
  BY DEF OnceInv
<1>c. \A d \in Dests :
         /\ rpc[d] \in {"send", "dequeue"} => cur[d] \in queue /\ body[d] = cur[d].mail
         /\ rpc[d] \in {"send", "dequeue"} =>
               \A e \in Dests : rpc[e] \in {"send", "dequeue"} /\ cur[e] = cur[d] => e = d
  BY DEF Inv, ClaimInv, RunnerClaims, Working
<1>f. \A d \in Dests : rpc[d] = "send" /\ body[d] = m =>
         arrived[m] <= faults /\ m \in accepted
  BY <1>t, <1>c, <1>o DEF OnceAt
\* Steps that count no arrival and touch no row.
<1>1. ASSUME UNCHANGED <<queue, arrived, accepted>>, faults' \in Nat, faults' >= faults,
             \A d \in Dests : rpc[d] = "dequeue" => rpc'[d] = "dequeue" /\ cur'[d] = cur[d]
      PROVE  OnceAt(m)'
  BY <1>t, <1>o, <1>1 DEF OnceAt
\* A fault while mails are on their way.
<1>2. ASSUME NEW M \in SUBSET Flying, Arrive(M), faults' = faults + 1,
             UNCHANGED <<queue, accepted>>
      PROVE  OnceAt(m)'
  <2>1. m \in M => arrived[m] <= faults /\ m \in accepted
    BY <1>f DEF Flying
  <2>2. arrived' \in [Mails -> Nat] /\ arrived[m] \in Nat
    BY <1>t, <1>2, ArriveCounts
  <2>3. arrived'[m] <= faults'
    <3>1. CASE m \in M
      BY <1>t, <1>2, <2>1, <2>2, <3>1, ArriveCounts
    <3>2. CASE m \notin M
      <4>1. arrived'[m] = arrived[m]
        BY <1>t, <1>2, <3>2, ArriveCounts
      <4> QED
        BY <1>t, <1>o, <1>2, <2>2, <4>1 DEF OnceAt
    <3> QED
      BY <3>1, <3>2
  <2>4. m \notin accepted => arrived'[m] = 0
    BY <1>t, <1>o, <1>2, <2>1, ArriveCounts DEF OnceAt
  <2> QED
    BY <1>t, <1>o, <1>2, <2>2, <2>3, <2>4 DEF OnceAt
<1>3. ASSUME NEW s \in Sessions, Enqueue(s) PROVE OnceAt(m)'
  <2>1. PICK row : queue' = queue \cup {row} /\ row.id = slot[s] /\ row.mail = Mail(s)
    BY <1>3, EnqueuedRow
  <2>2. /\ accepted' = accepted \cup {Mail(s)}
        /\ UNCHANGED <<arrived, faults, rpc, cur>>
    BY <1>3 DEF Enqueue, runners
  <2>3. m = Mail(s) => m \notin accepted
    BY <1>3, EnqueuedOnce DEF Inv
  <2>4. CASE m = Mail(s)
    <3>1. arrived[m] = 0 /\ \A r \in queue : r.mail # m
      BY <1>o, <2>3, <2>4 DEF OnceAt
    <3> QED
      BY <1>t, <2>1, <2>2, <2>4, <3>1 DEF OnceAt
  <2>5. CASE m # Mail(s)
    BY <1>t, <1>o, <2>1, <2>2, <2>5 DEF OnceAt
  <2> QED
    BY <2>4, <2>5
<1>4. ASSUME NEW s \in Sessions, Session(s) PROVE OnceAt(m)'
  <2>1. CASE Enqueue(s)
    BY <1>3, <2>1
  <2>2. CASE WakeRunner(s)
    BY <1>1, <1>t, <2>2 DEF WakeRunner, Wake, tables, ends
  <2>3. CASE Submit(s) \/ DeliverLocally(s) \/ SkipRcpt(s) \/ CopyFailed(s)
             \/ ReadNext(s) \/ Insert(s)
             \/ InsertRejected(s) \/ Bump(s) \/ EnqueueFailed(s) \/ Finish(s)
    <3>1. UNCHANGED <<queue, arrived, accepted, rpc, cur>>
      BY <2>3 DEF tables, ends, runners, Submit, DeliverLocally, SkipRcpt,
                  CopyFailed, ReadNext, Insert, InsertRejected, Bump,
                  EnqueueFailed, Finish
    <3>2. faults' = faults \/ faults' = faults + 1
      BY <2>3 DEF Submit, DeliverLocally, SkipRcpt, CopyFailed, ReadNext,
                  Insert, Fault, InsertRejected, Bump, EnqueueFailed, Finish
    <3> QED
      BY <1>1, <1>t, <3>1, <3>2
  <2> QED
    BY <1>4, <2>1, <2>2, <2>3 DEF Session
<1>5. ASSUME NEW d \in Dests, Runner(d) PROVE OnceAt(m)'
  <2>1. CASE Sent(d)
    <3>1. /\ rpc[d] = "send" /\ Arrive({body[d]})
          /\ rpc' = [rpc EXCEPT ![d] = "dequeue"]
          /\ UNCHANGED <<queue, accepted, cur, faults>>
      BY <2>1 DEF Sent, RunnerTo, tables
    <3>2. arrived' \in [Mails -> Nat] /\ arrived[m] \in Nat
      BY <1>t, <3>1, ArriveCounts
    <3>3. CASE m = body[d]
      <4>1. arrived[m] <= faults /\ m \in accepted
        BY <1>f, <3>1, <3>3
      <4>2. arrived'[m] = arrived[m] + 1
        BY <1>t, <3>1, <3>3, ArriveCounts
      <4>3. arrived'[m] <= 1 + faults'
        BY <1>t, <3>1, <3>2, <4>1, <4>2
      <4>4. \A r \in queue : r.mail = m => r = cur[d]
        BY <1>o, <1>c, <3>1, <3>3 DEF OnceAt
      <4>5. rpc'[d] = "dequeue"
        BY <1>t, <3>1
      <4> QED
        BY <1>o, <3>1, <4>1, <4>3, <4>4, <4>5 DEF OnceAt
    <3>4. CASE m # body[d]
      <4>1. arrived'[m] = arrived[m]
        BY <1>t, <3>1, <3>4, ArriveCounts
      <4>2. \A e \in Dests : rpc[e] = "dequeue" => rpc'[e] = "dequeue"
        BY <1>t, <3>1
      <4> QED
        BY <1>o, <3>1, <4>1, <4>2 DEF OnceAt
    <3> QED
      BY <3>3, <3>4
  <2>2. CASE SendFailed(d)
    <3>1. /\ rpc[d] = "send"
          /\ UNCHANGED <<queue, accepted>>
          /\ \A e \in Dests : rpc[e] = "dequeue" => rpc'[e] = "dequeue" /\ cur'[e] = cur[e]
      BY <1>t, <2>2 DEF SendFailed, Retry, Abandon, Forget, RunnerTo, tables
    <3>2. {body[d]} \in SUBSET Flying
      BY <3>1 DEF Flying
    <3>3. CASE Arrive({body[d]}) /\ Fault
      BY <1>2, <3>1, <3>2, <3>3 DEF Fault
    <3>4. CASE UNCHANGED arrived /\ (UNCHANGED faults \/ Fault)
      BY <1>1, <1>t, <3>1, <3>4 DEF Fault
    <3> QED
      BY <2>2, <3>3, <3>4 DEF SendFailed
  <2>3. CASE Dequeue(d)
    <3>1. /\ rpc[d] = "dequeue"
          /\ rpc' = [rpc EXCEPT ![d] = "pending"]
          /\ UNCHANGED <<arrived, accepted, cur>>
      BY <2>3 DEF Dequeue, RunnerTo, ends
    <3>2. \A e \in Dests : rpc[e] = "dequeue" /\ e # d => rpc'[e] = "dequeue"
      BY <1>t, <3>1
    <3>3. CASE UNCHANGED faults /\ queue' = {r \in queue : ~(r.dest = d /\ r.id = cur[d].id)}
      <4>1. \A r \in queue' : r \in queue /\ r # cur[d]
        BY <1>c, <3>1, <3>3 DEF Inv, ClaimInv, RunnerClaims, Working
      <4> QED
        BY <1>o, <3>1, <3>2, <3>3, <4>1 DEF OnceAt
    <3>4. CASE Fault /\ UNCHANGED queue
      <4>1. arrived[m] <= faults'
        BY <1>t, <1>o, <3>4 DEF OnceAt, Fault
      <4> QED
        BY <1>t, <1>o, <3>1, <3>4, <4>1 DEF OnceAt, Fault
    <3> QED
      BY <2>3, <3>3, <3>4 DEF Dequeue
  <2>4. CASE Snapshot(d) \/ SnapshotFailed(d) \/ Stop(d) \/ Skip(d) \/ Take(d)
    <3>1. /\ UNCHANGED <<queue, arrived, accepted>>
          /\ \A e \in Dests : rpc[e] = "dequeue" => rpc'[e] = "dequeue" /\ cur'[e] = cur[e]
          /\ UNCHANGED faults \/ Fault
      BY <1>t, <2>4 DEF Snapshot, SnapshotFailed, Stop, Skip, Take, RunnerTo,
                        tables, ends
    <3> QED
      BY <1>1, <1>t, <3>1 DEF Fault
  <2>5. CASE NotPending(d) \/ StillPending(d) \/ FileSent(d) \/ DeleteMail(d)
    <3>1. /\ UNCHANGED <<queue, arrived, accepted>>
          /\ \A e \in Dests : rpc[e] = "dequeue" => rpc'[e] = "dequeue" /\ cur'[e] = cur[e]
          /\ UNCHANGED faults \/ Fault
      BY <1>t, <2>5 DEF NotPending, StillPending, FileSent, DeleteMail, Forget,
                        RunnerTo, tables, ends
    <3> QED
      BY <1>1, <1>t, <3>1 DEF Fault
  <2> QED
    BY <1>5, <2>1, <2>2, <2>3, <2>4, <2>5 DEF Runner
<1>6. ASSUME Manager PROVE OnceAt(m)'
  BY <1>1, <1>t, <1>6 DEF Manager, ManagerList, ManagerWake, Wake, tables, ends,
                          runners
<1>7. ASSUME Crash PROVE OnceAt(m)'
  BY <1>2, <1>7 DEF Crash, Fault, tables
<1>8. ASSUME UNCHANGED vars PROVE OnceAt(m)'
  BY <1>1, <1>t, <1>8 DEF vars, tables, ends, runners
<1> QED
  BY <1>4, <1>5, <1>6, <1>7, <1>8 DEF Next

\* No recipient named once gets more than one copy and one for each fault.
THEOREM DuplicatesNeedFaults == Spec => []DuplicateNeedsFault
<1>1. OnceInv => DuplicateNeedsFault
  BY DEF OnceInv, OnceAt, DuplicateNeedsFault
<1>2. Inv => TypeInv
  BY DEF Inv
<1> QED
  BY InvInit, InvStep, LoopInit, LoopStep, OnceInit, TreatedStep, OnceStep,
     <1>1, <1>2, PTL DEF Spec

-----------------------------------------------------------------------------
(* Refinement of Relay                                                     *)

Kept == {r.mail : r \in queue}

HasArrived == {m \in Mails : arrived[m] > 0}

\* Every step of the sender is a step of the relay or invisible to it.
LEMMA RelayStep ==
  Inv /\ [Next]_vars => [Abstract!RelayNext]_(Abstract!relayVars)
<1> SUFFICES ASSUME Inv, [Next]_vars
             PROVE  Abstract!RelayNext \/ UNCHANGED Abstract!relayVars
  OBVIOUS
<1>t. /\ queue \subseteq Rows
      /\ arrived \in [Mails -> Nat]
      /\ \A r \in queue : r.mail \in Mails
  BY DEF Inv, TypeInv, TypeOK, Rows
<1> USE DEF Abstract!RelayNext, Abstract!relayVars
<1>1. ASSUME UNCHANGED <<queue, arrived>>
      PROVE  UNCHANGED Abstract!relayVars
  BY <1>1
<1>2. ASSUME NEW s \in Sessions, Enqueue(s) PROVE Abstract!RelayNext
  <2>1. Mail(s) \in Mails
    BY <1>2, HeadTail
    DEF Enqueue, Mail, Mails, Inv, TypeInv, TypeOK, StagesOK
  <2>2. PICK row : queue' = queue \cup {row} /\ row.mail = Mail(s)
    BY <1>2, EnqueuedRow
  <2>3. Kept' = Kept \cup {Mail(s)} /\ UNCHANGED arrived
    BY <1>2, <2>2 DEF Enqueue, Kept
  <2> QED
    BY <2>1, <2>3 DEF Abstract!Accept, Kept
<1>3. ASSUME NEW M \in SUBSET Flying, Arrive(M), UNCHANGED queue
      PROVE  Abstract!RelayNext
  <2>1. M \subseteq Mails /\ M \subseteq Kept
    BY <1>t DEF Flying, Inv, ClaimInv, RunnerClaims, Working, Kept
  <2>2. HasArrived' = HasArrived \cup M
    BY <1>3, <1>t, <2>1, ArriveCounts DEF HasArrived
  <2>3. M \in SUBSET Kept /\ Kept' = Kept
    BY <1>3, <2>1 DEF Kept
  <2> QED
    BY <2>2, <2>3 DEF Abstract!HandOver, Kept, HasArrived
<1>4. ASSUME NEW d \in Dests, Dequeue(d), queue' # queue
      PROVE  Abstract!RelayNext \/ UNCHANGED Abstract!relayVars
  <2> DEFINE m == cur[d].mail
  <2>1. /\ rpc[d] = "dequeue" /\ cur[d] \in queue
        /\ queue' = {r \in queue : ~(r.dest = d /\ r.id = cur[d].id)}
        /\ UNCHANGED arrived
    BY <1>4 DEF Dequeue, ends, Inv, ClaimInv, RunnerClaims
  <2>2. m \in Mails /\ m \in Kept /\ m \in HasArrived
    BY <1>t, <2>1
    DEF Inv, ClaimInv, RunnerClaims, ArrivalInv, CleaningAfterArrival, Working,
        Kept, HasArrived
  <2>3. \A r \in queue : r \in queue' \/ r = cur[d]
    BY <2>1 DEF Inv, ClaimInv, RowsUnique
  <2>4. Kept' = Kept \/ Kept' = Kept \ {m}
    BY <2>1, <2>3 DEF Kept
  <2>5. CASE Kept' = Kept
    BY <2>1, <2>5 DEF Kept
  <2>6. CASE Kept' = Kept \ {m}
    BY <2>1, <2>2, <2>6 DEF Abstract!Release, Kept, HasArrived
  <2> QED
    BY <2>4, <2>5, <2>6
<1> HIDE DEF Abstract!RelayNext, Abstract!relayVars
<1>5. ASSUME NEW s \in Sessions, Session(s)
      PROVE  Abstract!RelayNext \/ UNCHANGED Abstract!relayVars
  BY <1>1, <1>2, <1>5
  DEF Session, tables, ends, Submit, DeliverLocally, SkipRcpt, CopyFailed,
      ReadNext, Insert, InsertRejected, Bump, EnqueueFailed, WakeRunner, Finish
<1>6. ASSUME NEW d \in Dests, Runner(d)
      PROVE  Abstract!RelayNext \/ UNCHANGED Abstract!relayVars
  <2>1. rpc[d] = "send" => {body[d]} \in SUBSET Flying
    BY DEF Flying
  <2> QED
  BY <1>1, <1>3, <1>4, <1>6, <2>1
  DEF Runner, tables, ends, Snapshot, SnapshotFailed, Take, Skip, Sent,
      SendFailed, Retry, Abandon, Dequeue, NotPending, StillPending, FileSent, DeleteMail, Stop
<1>7. ASSUME Manager \/ UNCHANGED vars
      PROVE  UNCHANGED Abstract!relayVars
  BY <1>1, <1>7
  DEF Manager, ManagerList, ManagerWake, vars, tables, ends
<1>8. ASSUME Crash
      PROVE  Abstract!RelayNext \/ UNCHANGED Abstract!relayVars
  BY <1>3, <1>8 DEF Crash, tables
<1> QED
  BY <1>5, <1>6, <1>7, <1>8 DEF Next

\* The sender implements at-least-once delivery under every modelled fault.
THEOREM ImplementsAtLeastOnce == Spec => ImplementsRelay
<1>1. Init => Abstract!RelayInit
  BY DEF Init, Abstract!RelayInit
<1> QED
  BY InvInit, InvStep, <1>1, RelayStep, PTL
  DEF Spec, ImplementsRelay, Abstract!RelaySpec

=============================================================================
