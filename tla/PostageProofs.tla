---------------------------- MODULE PostageProofs ----------------------------
(***************************************************************************)
(* Proofs about Postage.  The clock and the stamps only forbid steps of    *)
(* Outbound, so what OutboundProofs shows of the sender holds here too.    *)
(***************************************************************************)
EXTENDS Postage, OutboundProofs

\* A step under stamps is a step of the sender, or the clock's.
LEMMA PostStep == [PostNext]_postVars => [Next]_vars
  BY DEF PostNext, PostSession, PostRunner, Tick, Next, postVars

\* Stamps and the clock restrict the sender and add nothing to it.
THEOREM StampsOnlyRestrict == PostSpec => Spec
<1>1. PostInit => Init
  BY DEF PostInit
<1> QED
  BY <1>1, PostStep, PTL DEF PostSpec, Spec

-----------------------------------------------------------------------------
(* Types                                                                   *)

PostInv == TypeInv /\ PostTypeOK

\* The clock and the stamps start well typed.
LEMMA PostTypeInit == PostInit => PostInv
  BY TypeInit, PostageAssumption DEF PostInit, PostInv, PostTypeOK, TypeInv

\* The stamp of a copy is dated when it is made.
LEMMA PostTypeStep == PostInv /\ [PostNext]_postVars => PostInv'
<1> SUFFICES ASSUME PostInv, [PostNext]_postVars PROVE PostInv'
  OBVIOUS
<1>1. TypeInv' /\ TypeOK'
  BY TypeStep, PostStep DEF PostInv, TypeInv
<1>t. /\ now \in 0 .. MaxTime
      /\ made \in [Mails -> 0 .. MaxTime]
      /\ \A m \in Mails : made[m] <= now
      /\ MaxTime \in Nat
  BY PostageAssumption DEF PostInv, PostTypeOK
<1>2. ASSUME NEW s \in Sessions, PostSession(s) PROVE PostInv'
  <2>1. \A m \in Mails : made'[m] = made[m] \/ made'[m] = now
    BY <1>t, <1>2 DEF PostSession, Stamps
  <2>2. made' \in [Mails -> 0 .. MaxTime] /\ now' = now
    BY <1>t, <1>2 DEF PostSession, Stamps
  <2>3. \A m \in Mails : made'[m] <= now'
    BY <1>t, <2>1, <2>2
  <2> QED
    BY <1>1, <1>t, <2>2, <2>3 DEF PostInv, PostTypeOK
<1>3. ASSUME Tick PROVE PostInv'
  BY <1>1, <1>t, <1>3 DEF Tick, PostInv, PostTypeOK
<1>4. ASSUME UNCHANGED <<now, made>> PROVE PostInv'
  BY <1>1, <1>t, <1>4 DEF PostInv, PostTypeOK
<1> QED
  BY <1>2, <1>3, <1>4 DEF PostNext, PostRunner, postVars

\* The clock never runs behind a stamp.
THEOREM PostTypeCorrect == PostSpec => []PostTypeOK
<1>1. PostInv => PostTypeOK
  BY DEF PostInv
<1> QED
  BY PostTypeInit, PostTypeStep, <1>1, PTL DEF PostSpec

-----------------------------------------------------------------------------
(* Nothing ends the attempts for an expired mail                           *)

SenderInv == Inv /\ LoopInv /\ TreatedInv /\ OnceInv

\* The queue starts in the inductive invariant of OutboundProofs.
LEMMA SenderInit == Init => SenderInv
  BY InvInit, LoopInit, OnceInit DEF SenderInv

\* Every step of the queue keeps that invariant.
LEMMA SenderStep == SenderInv /\ [Next]_vars => SenderInv'
  BY InvStep, LoopStep, TreatedStep, OnceStep DEF SenderInv, Inv

\* A copy that has been queued is not stamped a second time.
LEMMA StampedOnce ==
  ASSUME SenderInv, PostInv, NEW m \in Mails, OnceListed(m), m \in accepted,
         NEW s \in Sessions, PostSession(s)
  PROVE  made'[m] = made[m]
<1>1. CASE spc[s] = "route" /\ spc'[s] = "insert" /\ m = Mail(s)
  <2>1. ReadNext(s)
    BY <1>1 DEF PostSession, Session, SenderInv, Inv, TypeInv, TypeOK,
                sessions, StepTo, NextRcpt, Submit, DeliverLocally, SkipRcpt,
                CopyFailed, Insert, InsertRejected, Bump, Enqueue,
                EnqueueFailed, WakeRunner, Finish
  <2>2. left[s] # <<>> /\ m.from = s /\ TypeInv /\ LoopAt(s)
    BY <1>1, <2>1 DEF ReadNext, Mail, SenderInv, Inv, LoopInv
  <2>3. /\ m = Copy(s, Passed(s) + 1)
        /\ Passed(s) + 1 \in 1 .. Len(Envelope[s])
    BY <1>1, <2>2, HeadOfEnvelope
  <2>4. /\ Passed(s) + 1 \in DOMAIN Envelope[s]
        /\ Envelope[s][Passed(s) + 1] = m.rcpt
    BY <2>3, OutboundAssumption DEF Copy
  <2>5. ASSUME NEW i \in DOMAIN Envelope[s], Envelope[s][i] = m.rcpt
        PROVE  i = Passed(s) + 1
    BY <2>2, <2>4, <2>5 DEF OnceListed
  <2>6. ~Treated(m)
    BY <1>1, <2>2, <2>5 DEF Treated
  <2> QED
    BY <2>6 DEF SenderInv, TreatedInv
<1>2. CASE ~(spc[s] = "route" /\ spc'[s] = "insert" /\ m = Mail(s))
  <2>1. made \in [Mails -> 0 .. MaxTime]
    BY DEF PostInv, PostTypeOK
  <2> QED
    BY <1>2, <2>1 DEF PostSession, Stamps
<1> QED
  BY <1>1, <1>2

\* A row that is stuck survives every step, and its mail stays expired.
LEMMA StuckStep ==
  ASSUME SenderInv, PostInv, [PostNext]_postVars, NEW m \in Mails,
         OnceListed(m), Stuck(m)
  PROVE  Stuck(m)'
<1>t. /\ queue \subseteq Rows
      /\ arrived \in [Mails -> Nat]
      /\ rpc \in [Dests -> {"off", "select", "next", "send", "dequeue",
                            "pending", "file", "delete"}]
      /\ cur \in [Dests -> Rows \cup {<<>>}]
      /\ now \in Nat /\ made \in [Mails -> Nat]
      /\ now' \in Nat /\ now <= now'
  <2>1. now' \in Nat /\ now <= now'
    BY DEF PostInv, PostTypeOK, PostNext, PostSession, PostRunner, Tick, postVars
  <2> QED
    BY <2>1 DEF SenderInv, Inv, TypeInv, TypeOK, PostInv, PostTypeOK
<1>r. PICK r \in queue :
         /\ r.mail = m
         /\ \A d \in Dests : rpc[d] = "dequeue" => cur[d] # r
  BY DEF Stuck
<1>a. m \in accepted
  BY <1>r DEF SenderInv, OnceInv, OnceAt
<1>e. made'[m] = made[m] => Expired(m)'
  <2>1. Midnight(made[m]) \in Nat
    BY <1>t DEF Midnight, Day
  <2>2. ~(now - Midnight(made[m]) <= 2 * Day)
    BY DEF Stuck, Expired, Verify
  <2>3. ~(now' - Midnight(made[m]) <= 2 * Day)
    BY <1>t, <2>1, <2>2 DEF Day
  <2> QED
    BY <2>3 DEF Expired, Verify, Midnight
<1>1. ASSUME r \in queue', made'[m] = made[m],
             \A d \in Dests : rpc'[d] = "dequeue" => cur'[d] # r
      PROVE  Stuck(m)'
  BY <1>1, <1>e, <1>r DEF Stuck
<1>2. ASSUME NEW s \in Sessions, PostSession(s) PROVE Stuck(m)'
  <2>1. made'[m] = made[m]
    BY <1>2, <1>a, StampedOnce
  <2>2. r \in queue'
    BY <1>r, <1>2 DEF PostSession, Session, tables, Submit, DeliverLocally,
                      SkipRcpt, CopyFailed, ReadNext, Insert, InsertRejected,
                      Bump, Enqueue, EnqueueFailed, WakeRunner, Finish
  <2>3. UNCHANGED cur /\ \A d \in Dests : rpc'[d] = "dequeue" => rpc[d] = "dequeue"
    BY <1>t, <1>2 DEF PostSession, Session, runners, Submit, DeliverLocally,
                      SkipRcpt, CopyFailed, ReadNext, Insert, InsertRejected,
                      Bump, Enqueue, EnqueueFailed, WakeRunner, Wake, Finish
  <2> QED
    BY <1>1, <1>r, <2>1, <2>2, <2>3
<1>3. ASSUME NEW d \in Dests, PostRunner(d) PROVE Stuck(m)'
  <2>1. made'[m] = made[m]
    BY <1>3 DEF PostRunner
  <2>2. CASE Sent(d)
    <3>1. /\ rpc[d] = "send" /\ Arrive({body[d]})
          /\ rpc' = [rpc EXCEPT ![d] = "dequeue"]
          /\ UNCHANGED <<queue, cur>>
      BY <2>2 DEF Sent, RunnerTo, tables
    <3>2. body[d] = cur[d].mail
      BY <3>1 DEF SenderInv, Inv, ClaimInv, RunnerClaims, Working
    <3>3. body[d] # m
      <4>1. body[d] = m => arrived'[m] = arrived[m] + 1
        BY <1>t, <3>1, ArriveCounts
      <4>2. arrived[m] \in Nat
        BY <1>t
      <4> QED
        BY <1>3, <4>1, <4>2 DEF PostRunner, OnlyPaid, Stuck
    <3> QED
      BY <1>1, <1>r, <1>t, <2>1, <3>1, <3>2, <3>3
  <2>3. CASE Dequeue(d)
    <3>1. /\ rpc[d] = "dequeue" /\ UNCHANGED cur
          /\ rpc' = [rpc EXCEPT ![d] = "pending"]
          /\ queue' = queue \/ queue' = {q \in queue : ~(q.dest = d /\ q.id = cur[d].id)}
      BY <2>3 DEF Dequeue, RunnerTo
    <3>2. cur[d] \in queue /\ cur[d] # r
      BY <1>r, <3>1 DEF SenderInv, Inv, ClaimInv, RunnerClaims
    <3>3. r.id # cur[d].id
      BY <1>r, <3>2 DEF SenderInv, Inv, ClaimInv, RowsUnique
    <3> QED
      BY <1>1, <1>r, <1>t, <2>1, <3>1, <3>3
  <2>4. CASE UNCHANGED queue /\ \A e \in Dests : rpc'[e] = "dequeue" =>
                                   rpc[e] = "dequeue" /\ cur'[e] = cur[e]
    BY <1>1, <1>r, <2>1, <2>4
  <2>5. CASE Snapshot(d) \/ SnapshotFailed(d) \/ Stop(d) \/ Skip(d) \/ Take(d)
    BY <1>t, <2>4, <2>5 DEF Snapshot, SnapshotFailed, Stop, Skip, Take, RunnerTo, tables
  <2>6. CASE NotPending(d) \/ StillPending(d) \/ FileSent(d) \/ DeleteMail(d)
    BY <1>t, <2>4, <2>6 DEF NotPending, StillPending, FileSent, DeleteMail, Forget,
                           RunnerTo, tables
  <2>7. CASE SendFailed(d)
    BY <1>t, <2>4, <2>7 DEF SendFailed, Retry, Abandon, Forget, RunnerTo, tables
  <2> QED
    BY <1>3, <2>2, <2>3, <2>5, <2>6, <2>7 DEF PostRunner, Runner
<1>4. ASSUME Manager /\ UNCHANGED <<now, made>> PROVE Stuck(m)'
  <2>1. UNCHANGED <<queue, cur>> /\ \A d \in Dests : rpc'[d] = "dequeue" => rpc[d] = "dequeue"
    BY <1>t, <1>4 DEF Manager, ManagerList, ManagerWake, Wake, tables, runners
  <2> QED
    BY <1>1, <1>4, <1>r, <2>1
<1>5. ASSUME Crash, UNCHANGED made PROVE Stuck(m)'
  <2>1. UNCHANGED queue /\ \A d \in Dests : rpc'[d] # "dequeue"
    BY <1>5 DEF Crash, tables
  <2> QED
    BY <1>1, <1>5, <1>r, <2>1
<1>6. ASSUME Tick \/ UNCHANGED postVars PROVE Stuck(m)'
  <2>1. UNCHANGED <<queue, rpc, cur, made>>
    BY <1>6 DEF Tick, postVars, vars, tables, runners
  <2> QED
    BY <1>1, <1>r, <2>1
<1> QED
  BY <1>2, <1>3, <1>4, <1>5, <1>6 DEF PostNext

\* An expired mail is tried without end: no step removes its row.
THEOREM ExpiredMailStays == PostSpec => StuckForGood
<1>1. PostInit => SenderInv /\ PostInv
  BY SenderInit, PostTypeInit DEF PostInit
<1>2. SenderInv /\ PostInv /\ [PostNext]_postVars => SenderInv' /\ PostInv'
  BY SenderStep, PostTypeStep, PostStep
<1>3. SenderInv /\ PostInv /\ [PostNext]_postVars =>
         [\A m \in Mails : OnceListed(m) /\ Stuck(m) => Stuck(m)']_postVars
  BY StuckStep
<1> QED
  BY <1>1, <1>2, <1>3, PTL DEF PostSpec, StuckForGood

=============================================================================
