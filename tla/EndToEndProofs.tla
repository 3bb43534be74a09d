--------------------------- MODULE EndToEndProofs ---------------------------
(***************************************************************************)
(* Proofs about EndToEnd.  Each node of the composition implements its own *)
(* specification, so that the theorems of OutboundProofs and InboundProofs *)
(* hold of it; what the two promise together follows from them.            *)
(***************************************************************************)
EXTENDS EndToEnd, FiniteSetTheorems, TLAPS

\* The nodes again, with the theorems about them.
OutP == INSTANCE OutboundProofs WITH
    inbox <- ownInbox, arrived <- confirmed, spc <- submit

InP == INSTANCE InboundProofs WITH
    Peers <- Lines, MaxSends <- 1,
    MaxFaults <- MaxReceiverFaults, faults <- receiverFaults

\* Out and OutP are instances of the same definitions.
LEMMA SameSenderStep == [Out!Next]_Out!vars <=> [OutP!Next]_OutP!vars
  BY DEF Out!Mails, OutP!Mails, Out!Rows, OutP!Rows, Out!tables, OutP!tables,
         Out!ends, OutP!ends, Out!sessions, OutP!sessions, Out!runners,
         OutP!runners, Out!vars, OutP!vars, Out!Mail, OutP!Mail, Out!Fault,
         OutP!Fault, Out!StepTo, OutP!StepTo, Out!RunnerTo, OutP!RunnerTo,
         Out!Wake, OutP!Wake, Out!Submit, OutP!Submit, Out!NextRcpt,
         OutP!NextRcpt, Out!DeliverLocally, OutP!DeliverLocally,
         Out!NotDelivered, OutP!NotDelivered, Out!SkipRcpt, Out!CopyFailed,
         OutP!SkipRcpt, OutP!CopyFailed, Out!ReadNext, OutP!ReadNext,
         Out!Insert, OutP!Insert, Out!InsertRejected, OutP!InsertRejected,
         Out!Bump, OutP!Bump, Out!Enqueue, OutP!Enqueue, Out!EnqueueFailed,
         OutP!EnqueueFailed, Out!WakeRunner, OutP!WakeRunner, Out!Finish,
         OutP!Finish, Out!ManagerList, OutP!ManagerList, Out!ManagerWake,
         OutP!ManagerWake, Out!Snapshot, OutP!Snapshot, Out!SnapshotFailed,
         OutP!SnapshotFailed, Out!Take, OutP!Take, Out!Skip, OutP!Skip,
         Out!Forget, OutP!Forget, Out!Arrive, OutP!Arrive, Out!Sent, OutP!Sent,
         Out!Retry, OutP!Retry, Out!Abandon, OutP!Abandon, Out!SendFailed,
         OutP!SendFailed, Out!Dequeue, OutP!Dequeue, Out!NotPending,
         OutP!NotPending, Out!StillPending, OutP!StillPending, Out!FileSent,
         OutP!FileSent, Out!DeleteMail, OutP!DeleteMail, Out!Stop, OutP!Stop,
         Out!Flying, OutP!Flying, Out!Crash, OutP!Crash, Out!Session,
         OutP!Session, Out!Runner, OutP!Runner, Out!Manager, OutP!Manager,
         Out!Next, OutP!Next

\* The queue the proofs of OutboundProofs are about is the composed sender.
LEMMA SameSender == Out!Spec <=> OutP!Spec
<1>1. Out!Init <=> OutP!Init
  BY DEF Out!Init, OutP!Init, Out!Mails, OutP!Mails
<1> QED
  BY <1>1, SameSenderStep, PTL DEF Out!Spec, OutP!Spec

\* So are In and InP.
LEMMA SameReceiver == In!Spec <=> InP!Spec
<1>1. In!Init <=> InP!Init
  BY DEF In!Init, InP!Init, In!DirectoryInit, InP!DirectoryInit
<1>2. [In!Next]_In!vars <=> [InP!Next]_InP!vars
  BY DEF In!AliasNames, InP!AliasNames, In!UserIds, InP!UserIds,
      In!directory, InP!directory, In!admins, InP!admins, In!dirVars,
      InP!dirVars, In!Fault, InP!Fault, In!LiveUsers, InP!LiveUsers,
      In!NodeRows, InP!NodeRows, In!Leave, InP!Leave, In!StageTo,
      InP!StageTo, In!AddUser, InP!AddUser, In!UserCreate, InP!UserCreate,
      In!AddUserFatal, InP!AddUserFatal, In!AliasOwner, InP!AliasOwner,
      In!Unflagged, InP!Unflagged, In!Without, InP!Without, In!RowFor,
      InP!RowFor, In!AssignYggmailAlias, InP!AssignYggmailAlias,
      In!AssignAlias, InP!AssignAlias, In!AliasAssign, InP!AliasAssign,
      In!AddAlias, InP!AddAlias, In!DeleteAlias, InP!DeleteAlias,
      In!UserDelete, InP!UserDelete, In!DirectoryNext, InP!DirectoryNext,
      In!Names, InP!Names, In!session, InP!session, In!inVars, InP!inVars,
      In!vars, InP!vars, In!StepTo, InP!StepTo, In!Try, InP!Try,
      In!Answer, InP!Answer, In!Serve, InP!Serve, In!Transmit,
      InP!Transmit, In!AllStamped, InP!AllStamped, In!Data, InP!Data,
      In!DataUnpaid, InP!DataUnpaid, In!Failed, InP!Failed, In!Select,
      InP!Select, In!SelectNobody, InP!SelectNobody, In!Again, InP!Again,
      In!Insert, InP!Insert, In!InsertRefused, InP!InsertRefused, In!Bump,
      InP!Bump, In!BumpLost, InP!BumpLost, In!Targets, InP!Targets,
      In!ResolveAlias, InP!ResolveAlias, In!ResolveNobody,
      InP!ResolveNobody, In!Crash, InP!Crash, In!Session, InP!Session,
      In!Next, InP!Next
<1> QED
  BY <1>1, <1>2, PTL DEF In!Spec, InP!Spec

-----------------------------------------------------------------------------
(* Each node implements its own specification                              *)

\* Whatever happens is a step of the sending node or nothing to it.
LEMMA SenderStep == [Next]_vars => [Out!Next]_Out!vars
<1> SUFFICES ASSUME [Next]_vars PROVE Out!Next \/ UNCHANGED Out!vars
  OBVIOUS
<1> USE DEF Out!Next
<1>1. ASSUME UNCHANGED sender PROVE UNCHANGED Out!vars
  BY <1>1
  DEF sender, Out!vars, Out!tables, Out!ends, Out!sessions, Out!runners
<1>2. ASSUME NEW d \in Dests, Out!SendFailed(d) PROVE Out!Next
  BY <1>2 DEF Out!Runner
<1>3. ASSUME NEW d \in Dests, Out!Sent(d) PROVE Out!Next
  BY <1>3 DEF Out!Runner
<1>4. ASSUME NEW d \in Dests,
             Transmit(d) \/ Unreached(d) \/ Confirmed(d) \/ Refused(d) \/ LineLost(d)
      PROVE  Out!Next \/ UNCHANGED Out!vars
  BY <1>1, <1>2, <1>3, <1>4
  DEF Transmit, Unreached, Confirmed, Refused, LineLost
<1>5. ASSUME Sender PROVE Out!Next
  BY <1>5 DEF Sender
<1>6. ASSUME SenderCrash PROVE Out!Next
  BY <1>6 DEF SenderCrash
<1>7. ASSUME Receiver PROVE UNCHANGED Out!vars
  BY <1>7, <1>1 DEF Receiver
<1> QED
  BY <1>1, <1>4, <1>5, <1>6, <1>7 DEF Next, vars

\* So is it for the receiving node.
LEMMA ReceiverStep == [Next]_vars => [In!Next]_In!vars
<1> SUFFICES ASSUME [Next]_vars PROVE In!Next \/ UNCHANGED In!vars
  OBVIOUS
<1> USE DEF In!Next
<1>1. ASSUME UNCHANGED receiver PROVE UNCHANGED In!vars
  BY <1>1
  DEF receiver, In!vars, In!dirVars, In!directory, In!admins, In!inVars, In!session
<1>2. ASSUME NEW d \in Dests, Transmit(d) PROVE In!Next
  BY <1>2 DEF Transmit, In!Session
<1>3. ASSUME NEW d \in Dests,
             Unreached(d) \/ Confirmed(d) \/ Refused(d) \/ LineLost(d)
      PROVE  UNCHANGED In!vars
  BY <1>1, <1>3 DEF Unreached, Confirmed, Refused, LineLost
<1>4. ASSUME Receiver PROVE In!Next
  BY <1>4 DEF Receiver, In!inVars, In!session
<1>5. ASSUME Sender \/ SenderCrash PROVE UNCHANGED In!vars
  BY <1>5, <1>1 DEF Sender, SenderCrash
<1> QED
  BY <1>1, <1>2, <1>3, <1>4, <1>5 DEF Next, vars

\* The queue of the sending node keeps every promise of Outbound when the
\* answers it gets are those of the sessions of the other node.
THEOREM SenderImplementsOutbound == Spec => ImplementsOutbound
<1>1. Init => Out!Init
  BY DEF Init
<1> QED
  BY <1>1, SenderStep, PTL DEF Spec, ImplementsOutbound, Out!Spec

\* The sessions of the receiving node keep every promise of Inbound when their
\* peers are the runners of the other node.
THEOREM ReceiverImplementsInbound == Spec => ImplementsInbound
<1>1. Init => In!Init
  BY DEF Init
<1> QED
  BY <1>1, ReceiverStep, PTL DEF Spec, ImplementsInbound, In!Spec

-----------------------------------------------------------------------------
(* What the nodes promise by themselves                                    *)

\* A runner that is sending holds a row of the queue.
Holds ==
    \A d \in Dests : rpc[d] = "send" =>
        body[d] \in Out!Mails /\ \E r \in queue : r.mail = body[d]

SenderKnows ==
    /\ OutP!Inv
    /\ Out!TypeOK /\ Out!AcceptedNotLost /\ Out!SentOnlyAfterArrival
    /\ Holds

\* Taken over from OutboundProofs.
LEMMA SenderPromises == Spec => []SenderKnows
<1> USE EndToEndAssumption DEF Out!OutboundAssumption, OutP!OutboundAssumption
<1>1. OutP!Init => OutP!Inv
  BY OutP!InvInit
<1>2. OutP!Inv /\ [OutP!Next]_OutP!vars => OutP!Inv'
  BY OutP!InvStep
<1>3. OutP!Inv => Out!TypeOK
  BY DEF OutP!Inv, OutP!TypeInv, OutP!TypeOK, Out!TypeOK, Out!Mails, OutP!Mails,
         Out!Rows, OutP!Rows
<1>4. OutP!Inv => Out!AcceptedNotLost /\ Out!SentOnlyAfterArrival
  BY DEF OutP!Inv, OutP!ArrivalInv, OutP!AcceptedNotLost, Out!AcceptedNotLost,
         OutP!SentOnlyAfterArrival, Out!SentOnlyAfterArrival
<1>5. OutP!Inv => Holds
  BY DEF OutP!Inv, OutP!TypeInv, OutP!StagesOK, OutP!ClaimInv,
         OutP!RunnerClaims, OutP!Working, Holds, Out!Mails, OutP!Mails
<1>6. OutP!Inv => SenderKnows
  BY <1>3, <1>4, <1>5 DEF SenderKnows
<1> QED
  BY <1>1, <1>2, <1>6, SameSender, SenderImplementsOutbound, PTL
  DEF ImplementsOutbound, OutP!Spec

ReceiverKnows == In!TypeOK /\ In!AcceptedMeansStored

\* Taken over from InboundProofs.
LEMMA ReceiverPromises == Spec => []ReceiverKnows
<1> USE EndToEndAssumption
    DEF In!InboundAssumption, InP!InboundAssumption,
        In!DirectoryAssumption, InP!DirectoryAssumption,
        In!Names, InP!Names, In!AliasNames, InP!AliasNames
<1>1. InP!Spec => []InP!TypeOK
  BY InP!TypeCorrect
<1>2. InP!Spec => []InP!AcceptedMeansStored
  BY InP!AcceptedMailIsStored
<1>3. InP!TypeOK /\ InP!AcceptedMeansStored => ReceiverKnows
  BY DEF InP!TypeOK, In!TypeOK, InP!DirectoryTypeOK, In!DirectoryTypeOK,
         InP!AcceptedMeansStored, In!AcceptedMeansStored, InP!HasCopy, In!HasCopy,
         InP!UserIds, In!UserIds, InP!Copies, In!Copies, ReceiverKnows
<1> QED
  BY <1>1, <1>2, <1>3, SameReceiver, ReceiverImplementsInbound, PTL
  DEF ImplementsInbound

-----------------------------------------------------------------------------
(* Mailboxes of the receiving node                                         *)

\* Only DeliverToUser's INSERT, in a session under way, adds a copy; none is
\* ever taken back.
LEMMA StoredGrows ==
  ASSUME In!TypeOK, [Next]_vars
  PROVE  /\ stored \subseteq stored'
         /\ \A x \in stored' \ stored : x.from \in Lines /\ spc[x.from] # "idle"
<1>1. ASSUME NEW p \in Lines, In!Insert(p)
      PROVE  /\ stored \subseteq stored'
             /\ \A x \in stored' \ stored : x.from \in Lines /\ spc[x.from] # "idle"
  BY <1>1 DEF In!Insert
<1>2. ASSUME NEW p \in Lines, In!Session(p), ~In!Insert(p) PROVE stored' = stored
  BY <1>2
  DEF In!Session, In!Data, In!DataUnpaid, In!Select, In!SelectNobody,
      In!InsertRefused, In!Bump, In!BumpLost, In!ResolveAlias, In!ResolveNobody
<1>3. ASSUME Receiver PROVE stored' = stored \/ \E p \in Lines : In!Insert(p)
  BY <1>2, <1>3 DEF Receiver, In!Crash
<1>4. ASSUME NEW d \in Dests, Transmit(d) PROVE stored' = stored
  BY <1>4 DEF Transmit, In!Data
<1>5. ASSUME UNCHANGED receiver PROVE stored' = stored
  BY <1>5 DEF receiver
<1>6. [Next]_vars => \/ Receiver \/ UNCHANGED receiver
                    \/ \E d \in Dests : Transmit(d)
  BY DEF Next, vars, Unreached, Confirmed, Refused, LineLost, Sender, SenderCrash
<1> QED
  BY <1>1, <1>3, <1>4, <1>5, <1>6

\* A session that is under way has been under way, or was just begun by a
\* runner that transmits.
LEMMA UnderWayBefore ==
  ASSUME In!TypeOK, [Next]_vars, NEW p \in Lines, spc'[p] # "idle", spc[p] = "idle"
  PROVE  \E d \in Dests : rpc[d] = "send" /\ body[d] = p.mail /\ UNCHANGED sender
<1>t. spc \in [Lines -> {"idle", "select", "insert", "bump", "resolve"}]
      /\ sends \in [Lines -> 0 .. 1]
  BY DEF In!TypeOK
<1>1. ASSUME NEW d \in Dests, Transmit(d)
      PROVE  rpc[d] = "send" /\ body[d] = p.mail /\ UNCHANGED sender
  <2>1. PICK q \in Lines : q.mail = body[d] /\ In!Data(q)
    BY <1>1 DEF Transmit
  <2>2. \E step : spc' = [spc EXCEPT ![q] = step]
    BY <2>1 DEF In!Data, In!Serve, In!Answer, In!Try, In!StepTo
  <2>3. q = p
    BY <2>2, <1>t
  <2> QED
    BY <1>1, <2>1, <2>3 DEF Transmit
<1>2. ASSUME Receiver PROVE FALSE
  <2>1. ASSUME In!Crash PROVE FALSE
    BY <2>1 DEF In!Crash
  <2>2. ASSUME NEW q \in Lines, In!Session(q), sends' = sends PROVE FALSE
    <3>1. ~In!Data(q) /\ ~In!DataUnpaid(q)
      BY <2>2, <1>t DEF In!Data, In!DataUnpaid, In!Transmit
    <3>2. spc[q] # "idle"
      BY <2>2, <3>1
      DEF In!Session, In!Select, In!SelectNobody, In!Insert, In!InsertRefused,
          In!Bump, In!BumpLost, In!ResolveAlias, In!ResolveNobody
    <3>3. \E step : spc' = [spc EXCEPT ![q] = step]
      BY <2>2, <3>1
      DEF In!Session, In!Select, In!SelectNobody, In!Insert, In!InsertRefused,
          In!Bump, In!BumpLost, In!ResolveAlias, In!ResolveNobody, In!Failed,
          In!Serve, In!Answer, In!Try, In!StepTo
    <3> QED
      BY <3>2, <3>3, <1>t
  <2> QED
    BY <1>2, <2>1, <2>2 DEF Receiver
<1>3. ASSUME UNCHANGED receiver PROVE FALSE
  BY <1>3 DEF receiver
<1>4. \/ Receiver \/ UNCHANGED receiver
      \/ \E d \in Dests : Transmit(d)
  BY DEF Next, vars, Unreached, Confirmed, Refused, LineLost, Sender, SenderCrash
<1> QED
  BY <1>1, <1>2, <1>3, <1>4

-----------------------------------------------------------------------------
(* What the two nodes promise together                                     *)

\* A runner waits on a connection of the mail it is sending.
LineInv ==
    /\ line \in [Dests -> 0 .. MaxLines]
    /\ \A d \in Dests : line[d] # 0 => rpc[d] = "send" /\ Peer(d) \in Lines

\* A session under way is for a mail that is queued, or stored already.
UnderWay ==
    \A p \in Lines : spc[p] # "idle" =>
        Stored(p.mail) \/ \E r \in queue : r.mail = p.mail

Promise == LineInv /\ ConfirmedMeansStored /\ UnderWay

Known == SenderKnows /\ ReceiverKnows

\* Nothing is on its way at first.
LEMMA PromiseInit == Init => Promise
  BY EndToEndAssumption
  DEF Init, Promise, LineInv, ConfirmedMeansStored, UnderWay, Out!Init, In!Init

\* A runner leaves "send" only when it hangs up.
LEMMA LineStep == Known /\ LineInv /\ [Next]_vars => LineInv'
<1> SUFFICES ASSUME Known, LineInv, [Next]_vars PROVE LineInv'
  OBVIOUS
<1> USE DEF LineInv, Peer
<1>t. /\ rpc \in [Dests -> {"off", "select", "next", "send", "dequeue",
                            "pending", "file", "delete"}]
      /\ body \in [Dests -> Out!Mails \cup {<<>>}]
      /\ MaxLines \in Nat
  BY EndToEndAssumption DEF Known, SenderKnows, Out!TypeOK
<1>1. ASSUME NEW d \in Dests, Transmit(d) PROVE LineInv'
  <2>1. PICK p \in Lines :
          p.mail = body[d] /\ line' = [line EXCEPT ![d] = p.n]
    BY <1>1 DEF Transmit
  <2>2. rpc' = rpc /\ body' = body /\ rpc[d] = "send"
    BY <1>1 DEF Transmit, sender
  <2>3. p.n \in 0 .. MaxLines /\ [mail |-> p.mail, n |-> p.n] \in Lines
    BY <1>t DEF Lines
  <2> QED
    BY <2>1, <2>2, <2>3, <1>t
<1>2. ASSUME NEW d \in Dests,
             \A e \in Dests \ {d} : rpc'[e] = rpc[e] /\ body'[e] = body[e],
             HangUp(d)
      PROVE  LineInv'
  BY <1>2, <1>t DEF HangUp
<1>3. ASSUME NEW d \in Dests, Out!SendFailed(d) \/ Out!Sent(d)
      PROVE  \A e \in Dests \ {d} : rpc'[e] = rpc[e] /\ body'[e] = body[e]
  BY <1>3, <1>t
  DEF Out!SendFailed, Out!Sent, Out!Retry, Out!Abandon, Out!Forget, Out!RunnerTo
<1>4. ASSUME NEW d \in Dests, Confirmed(d) \/ Refused(d) \/ LineLost(d)
      PROVE  LineInv'
  BY <1>2, <1>3, <1>4 DEF Confirmed, Refused, LineLost
<1>5. ASSUME NEW d \in Dests, Unreached(d) PROVE LineInv'
  BY <1>3, <1>5 DEF Unreached
<1>6. ASSUME line' = line,
             \A d \in Dests : rpc[d] = "send" => rpc'[d] = "send" /\ body'[d] = body[d]
      PROVE  LineInv'
  BY <1>6
<1>7. ASSUME NEW s \in Sessions, Out!Session(s)
      PROVE  \A d \in Dests : rpc[d] = "send" => rpc'[d] = "send" /\ body'[d] = body[d]
  BY <1>7, <1>t
  DEF Out!Session, Out!Submit, Out!DeliverLocally, Out!SkipRcpt,
      Out!CopyFailed, Out!ReadNext, Out!Insert, Out!InsertRejected, Out!Bump,
      Out!Enqueue, Out!EnqueueFailed, Out!WakeRunner, Out!Finish, Out!Wake,
      Out!runners
<1>8. ASSUME NEW e \in Dests, rpc[e] # "send", Out!Runner(e)
      PROVE  \A d \in Dests : rpc[d] = "send" => rpc'[d] = "send" /\ body'[d] = body[d]
  BY <1>8, <1>t
  DEF Out!Runner, Out!Snapshot, Out!SnapshotFailed, Out!Take, Out!Skip, Out!Sent,
      Out!SendFailed, Out!Dequeue, Out!NotPending, Out!StillPending, Out!FileSent,
      Out!DeleteMail, Out!Stop, Out!Forget, Out!RunnerTo
<1>9. ASSUME Out!Manager
      PROVE  \A d \in Dests : rpc[d] = "send" => rpc'[d] = "send" /\ body'[d] = body[d]
  BY <1>9, <1>t
  DEF Out!Manager, Out!ManagerList, Out!ManagerWake, Out!Wake, Out!runners
<1>10. CASE Sender
  BY <1>6, <1>7, <1>8, <1>9, <1>10 DEF Sender
<1>11. CASE SenderCrash
  BY <1>11, <1>t DEF SenderCrash
<1>12. CASE Receiver \/ UNCHANGED vars
  BY <1>12 DEF Receiver, sender, vars
<1> QED
  BY <1>1, <1>4, <1>5, <1>10, <1>11, <1>12 DEF Next

\* Only a 250 for the mail it is sending makes a runner count it.
LEMMA ConfirmedBefore ==
  ASSUME Known, LineInv, [Next]_vars,
         NEW m \in Out!Mails, confirmed'[m] > 0, ~(confirmed[m] > 0)
  PROVE  \E p \in Lines : p.mail = m /\ reply[p] = "250"
<1>t. confirmed \in [Out!Mails -> Nat]
  BY DEF Known, SenderKnows, Out!TypeOK
<1>1. confirmed' # confirmed
  OBVIOUS
<1>2. PICK d \in Dests : Confirmed(d)
  <2>1. ASSUME NEW s \in Sessions, Out!Session(s) PROVE FALSE
    BY <2>1, <1>1
    DEF Out!Session, Out!Submit, Out!DeliverLocally, Out!SkipRcpt,
        Out!CopyFailed, Out!ReadNext, Out!Insert, Out!InsertRejected, Out!Bump,
        Out!Enqueue, Out!EnqueueFailed, Out!WakeRunner, Out!Finish, Out!ends
  <2>2. ASSUME NEW e \in Dests, rpc[e] # "send", Out!Runner(e) PROVE FALSE
    BY <2>2, <1>1
    DEF Out!Runner, Out!Snapshot, Out!SnapshotFailed, Out!Take, Out!Skip, Out!Sent,
        Out!SendFailed, Out!Dequeue, Out!NotPending, Out!StillPending,
        Out!FileSent, Out!DeleteMail, Out!Stop, Out!ends
  <2>3. ASSUME Out!Manager PROVE FALSE
    BY <2>3, <1>1 DEF Out!Manager, Out!ManagerList, Out!ManagerWake, Out!ends
  <2>4. ~Sender
    BY <2>1, <2>2, <2>3 DEF Sender
  <2> QED
    BY <2>4, <1>1
    DEF Next, vars, sender, Transmit, Unreached, Refused, LineLost, SenderCrash,
        Receiver
<1>3. Peer(d) \in Lines /\ reply[Peer(d)] = "250"
  BY <1>2 DEF Confirmed, Waiting, LineInv
<1>4. m = body[d]
  BY <1>2, <1>t DEF Confirmed, Out!Sent, Out!Arrive
<1> QED
  BY <1>3, <1>4 DEF Peer

\* A row leaves the queue only for a mail the sender knows to be accepted.
LEMMA RowsLeave ==
  ASSUME Known, ConfirmedMeansStored, [Next]_vars,
         NEW r \in queue, ~\E q \in queue' : q.mail = r.mail
  PROVE  Stored(r.mail)
<1> USE EndToEndAssumption DEF Out!OutboundAssumption, OutP!OutboundAssumption
<1>t. r.mail \in Out!Mails
  BY DEF Known, SenderKnows, Out!TypeOK, Out!Rows
<1>1. [OutP!Next]_OutP!vars
  BY SenderStep, SameSenderStep
<1>2. [OutP!Abstract!RelayNext]_(OutP!Abstract!relayVars)
  BY <1>1, OutP!RelayStep DEF Known, SenderKnows
<1>3. r.mail \in {q.mail : q \in queue} /\ r.mail \notin {q.mail : q \in queue'}
  OBVIOUS
<1>4. r.mail \in {m \in OutP!Mails : confirmed[m] > 0}
  BY <1>2, <1>3
  DEF OutP!Abstract!RelayNext, OutP!Abstract!relayVars, OutP!Abstract!Accept,
      OutP!Abstract!HandOver, OutP!Abstract!Release
<1> QED
  BY <1>t, <1>4 DEF ConfirmedMeansStored

\* Every step of either node keeps what both promise.
LEMMA PromiseStep == Known /\ Promise /\ [Next]_vars => Promise'
<1> SUFFICES ASSUME Known, Promise, [Next]_vars PROVE Promise'
  OBVIOUS
<1>1. LineInv'
  BY LineStep DEF Promise
<1>2. stored \subseteq stored'
  BY StoredGrows DEF Known, ReceiverKnows
<1>3. \A m : Stored(m) => Stored(m)'
  BY <1>2 DEF Stored
<1>4. ConfirmedMeansStored'
  <2> SUFFICES ASSUME NEW m \in Out!Mails, confirmed'[m] > 0 PROVE Stored(m)'
    BY DEF ConfirmedMeansStored
  <2>1. CASE confirmed[m] > 0
    BY <2>1, <1>3 DEF Promise, ConfirmedMeansStored
  <2>2. CASE ~(confirmed[m] > 0)
    <3>1. PICK p \in Lines : p.mail = m /\ reply[p] = "250"
      BY <2>2, ConfirmedBefore DEF Promise
    <3>2. RcptsOf[p] = <<p.mail.rcpt>>
      BY DEF RcptsOf
    <3>3. In!HasCopy(p, sends[p], 1)
      BY <3>1, <3>2 DEF Known, ReceiverKnows, In!AcceptedMeansStored
    <3> QED
      BY <3>1, <3>3, <1>3 DEF In!HasCopy, Stored
  <2> QED
    BY <2>1, <2>2
<1>5. UnderWay'
  <2> SUFFICES ASSUME NEW p \in Lines, spc'[p] # "idle"
               PROVE  Stored(p.mail)' \/ \E r \in queue' : r.mail = p.mail
    BY DEF UnderWay
  <2>1. CASE spc[p] # "idle"
    <3>1. Stored(p.mail) \/ \E r \in queue : r.mail = p.mail
      BY <2>1 DEF Promise, UnderWay
    <3> QED
      BY <3>1, <1>3, RowsLeave DEF Promise
  <2>2. CASE spc[p] = "idle"
    <3>1. PICK d \in Dests : rpc[d] = "send" /\ body[d] = p.mail /\ UNCHANGED sender
      BY <2>2, UnderWayBefore DEF Known, ReceiverKnows
    <3> QED
      BY <3>1 DEF Known, SenderKnows, Holds, sender
  <2> QED
    BY <2>1, <2>2
<1> QED
  BY <1>1, <1>4, <1>5 DEF Promise

\* The composition keeps its promise in every reachable state.
LEMMA PromiseKept == Spec => []Promise
  BY PromiseInit, PromiseStep, SenderPromises, ReceiverPromises, PTL
  DEF Spec, Known

\* A runner that was told 250 and the mailboxes of the other node agree,
\* whatever connections broke and whichever node died.
THEOREM ConfirmedMailIsStored == Spec => []ConfirmedMeansStored
  BY PromiseKept, PTL DEF Promise

\* From the client's last row to the recipient's mailbox nothing is lost.
THEOREM NothingIsLostOnTheWay == Spec => []NeverLost
<1>1. SenderKnows /\ Promise => NeverLost
  BY DEF SenderKnows, Out!TypeOK, Out!AcceptedNotLost, Promise,
         ConfirmedMeansStored, NeverLost
<1> QED
  BY <1>1, PromiseKept, SenderPromises, PTL

\* What a user sees in Sent is in the recipient's mailbox.
THEOREM SentMailIsStored == Spec => []SentMeansStored
<1>1. SenderKnows /\ Promise => SentMeansStored
  BY DEF SenderKnows, Out!TypeOK, Out!SentOnlyAfterArrival, Promise,
         ConfirmedMeansStored, SentMeansStored
<1> QED
  BY <1>1, PromiseKept, SenderPromises, PTL

-----------------------------------------------------------------------------
(* Types                                                                   *)

\* The two nodes and the connections between them stay well typed.
THEOREM TypeCorrect == Spec => []TypeOK
<1>1. Known /\ Promise => TypeOK
  BY DEF Known, SenderKnows, ReceiverKnows, Promise, LineInv, TypeOK
<1> QED
  BY <1>1, PromiseKept, SenderPromises, ReceiverPromises, PTL DEF Known

-----------------------------------------------------------------------------
(* Sessions of the receiving node                                          *)

\* The transmission on connection p has left a copy.
InMailbox(p) == \E x \in stored : x.from = p

\* A session serves the one recipient of the connection's mail, answers when
\* it is through with it, and was begun by a transmission.
SessionInv ==
    /\ \A p \in Lines :
          /\ spc[p] # "idle" =>
                todo[p] = <<p.mail.rcpt>> /\ reply[p] = "none" /\ sends[p] # 0
          /\ spc[p] = "bump" => InMailbox(p)
    /\ \A x \in stored : x.from \in Lines /\ sends[x.from] # 0

\* Nobody has transmitted anything.
LEMMA SessionInit == Init => SessionInv
  BY DEF Init, In!Init, SessionInv

\* What a session under way may do by itself.
LEMMA SessionMoves ==
  ASSUME ReceiverKnows, SessionInv, NEW p \in Lines, In!Session(p), sends' = sends
  PROVE  /\ spc[p] # "idle"
         /\ spc' = [spc EXCEPT ![p] = spc'[p]]
         /\ reply' = [reply EXCEPT ![p] = reply'[p]]
         /\ todo' = [todo EXCEPT ![p] = todo'[p]]
         /\ \/ /\ spc[p] \in {"select", "resolve"} /\ spc'[p] # "idle"
               /\ spc'[p] # "bump"
               /\ UNCHANGED <<todo, reply, stored, receiverFaults>>
            \/ /\ spc[p] = "insert" /\ spc'[p] = "bump"
               /\ UNCHANGED <<todo, reply, receiverFaults>>
               /\ \E x : x.from = p /\ stored' = stored \cup {x}
            \/ /\ spc[p] = "insert" /\ spc'[p] = "resolve"
               /\ UNCHANGED <<todo, reply, stored, receiverFaults>>
            \/ /\ spc[p] = "bump" /\ spc'[p] = "resolve"
               /\ UNCHANGED <<todo, reply, stored>>
               /\ receiverFaults' = receiverFaults + 1
            \/ /\ spc[p] = "bump" /\ spc'[p] = "idle" /\ reply'[p] = "451"
               /\ UNCHANGED stored /\ receiverFaults' = receiverFaults + 1
            \/ /\ spc[p] = "bump" /\ spc'[p] = "idle" /\ reply'[p] = "250"
               /\ UNCHANGED <<stored, receiverFaults>>
            \/ /\ spc[p] # "bump" /\ spc[p] # "idle"
               /\ spc'[p] = "idle" /\ reply'[p] = "451"
               /\ UNCHANGED <<stored, receiverFaults>>
<1>t. /\ spc \in [Lines -> {"idle", "select", "insert", "bump", "resolve"}]
      /\ reply \in [Lines -> {"none", "250", "451", "550", "lost"}]
      /\ todo \in [Lines -> Seq(In!Names)]
      /\ sends \in [Lines -> 0 .. 1]
  BY DEF ReceiverKnows, In!TypeOK
<1>1. ~In!Data(p) /\ ~In!DataUnpaid(p)
  BY SMTT(30), <1>t DEF In!Data, In!DataUnpaid, In!Transmit
<1>2. ASSUME In!Select(p) \/ In!ResolveAlias(p)
      PROVE  /\ spc[p] \in {"select", "resolve"}
             /\ \E step \in {"insert", "select"} : spc' = [spc EXCEPT ![p] = step]
             /\ UNCHANGED <<todo, reply, stored, receiverFaults>>
  BY <1>2 DEF In!Select, In!ResolveAlias, In!Try, In!StepTo, In!dirVars
<1>3. ASSUME In!Insert(p)
      PROVE  /\ spc[p] = "insert" /\ spc' = [spc EXCEPT ![p] = "bump"]
             /\ UNCHANGED <<todo, reply, receiverFaults>>
             /\ \E x : x.from = p /\ stored' = stored \cup {x}
  <2> DEFINE copy == [from |-> p, send |-> sends[p], left |-> Len(todo[p]),
                      user |-> inbox[p], again |-> In!Again(p)]
  <2>1. copy.from = p
    OBVIOUS
  <2>2. stored' = stored \cup {copy}
    BY <1>3 DEF In!Insert
  <2> HIDE DEF copy
  <2>3. \E x : x.from = p /\ stored' = stored \cup {x}
    BY <2>1, <2>2
  <2> QED
    BY <1>3, <2>3 DEF In!Insert, In!StepTo, In!dirVars
<1>4. ASSUME NEW r \in {"250", "451"}, In!Answer(p, r)
      PROVE  /\ spc' = [spc EXCEPT ![p] = "idle"]
             /\ todo' = [todo EXCEPT ![p] = <<>>]
             /\ reply' = [reply EXCEPT ![p] = r]
  BY <1>4 DEF In!Answer, In!StepTo
<1>5. ASSUME In!Failed(p)
      PROVE  \/ spc' = [spc EXCEPT ![p] = "resolve"] /\ UNCHANGED <<todo, reply>>
             \/ /\ spc' = [spc EXCEPT ![p] = "idle"]
                /\ todo' = [todo EXCEPT ![p] = <<>>]
                /\ reply' = [reply EXCEPT ![p] = "451"]
  BY <1>4, <1>5 DEF In!Failed, In!StepTo
<1>6. ASSUME In!SelectNobody(p) \/ In!InsertRefused(p)
      PROVE  /\ spc[p] \in {"select", "insert"} /\ In!Failed(p)
             /\ UNCHANGED <<stored, receiverFaults>>
  BY <1>6 DEF In!SelectNobody, In!InsertRefused, In!dirVars
<1>7. ASSUME In!BumpLost(p)
      PROVE  /\ spc[p] = "bump" /\ In!Failed(p)
             /\ UNCHANGED stored /\ receiverFaults' = receiverFaults + 1
  BY <1>7 DEF In!BumpLost, In!Fault
<1>8. ASSUME In!Bump(p)
      PROVE  /\ spc[p] = "bump" /\ In!Answer(p, "250")
             /\ UNCHANGED <<stored, receiverFaults>>
  <2>1. spc[p] = "bump" /\ In!Serve(p, Tail(todo[p]))
    BY <1>8 DEF In!Bump
  <2>2. todo[p] = <<p.mail.rcpt>>
    BY <2>1 DEF SessionInv
  <2>3. Tail(todo[p]) = <<>>
    BY <2>2
  <2> QED
    BY <1>8, <2>1, <2>3 DEF In!Serve, In!Bump, In!dirVars
<1>9. ASSUME In!ResolveNobody(p)
      PROVE  /\ spc[p] = "resolve" /\ In!Answer(p, "451")
             /\ UNCHANGED <<stored, receiverFaults>>
  BY <1>9 DEF In!ResolveNobody, In!dirVars
<1>10. CASE In!Select(p) \/ In!ResolveAlias(p)
  BY <1>t, <1>2, <1>10
<1>11. CASE In!Insert(p)
  BY <1>t, <1>3, <1>11
<1>12. CASE In!SelectNobody(p) \/ In!InsertRefused(p)
  BY <1>t, <1>5, <1>6, <1>12
<1>13. CASE In!BumpLost(p)
  BY <1>t, <1>5, <1>7, <1>13
<1>14. CASE In!Bump(p)
  BY <1>t, <1>4, <1>8, <1>14
<1>15. CASE In!ResolveNobody(p)
  BY <1>t, <1>4, <1>9, <1>15
<1> QED
  BY <1>1, <1>10, <1>11, <1>12, <1>13, <1>14, <1>15 DEF In!Session

\* What the message of a runner starts at the other node.
LEMMA DataMoves ==
  ASSUME ReceiverKnows, SessionInv, NEW p \in Lines, In!Data(p)
  PROVE  /\ spc[p] = "idle" /\ sends[p] = 0
         /\ spc' = [spc EXCEPT ![p] = "select"]
         /\ reply' = [reply EXCEPT ![p] = "none"]
         /\ todo' = [todo EXCEPT ![p] = <<p.mail.rcpt>>]
         /\ sends' = [sends EXCEPT ![p] = 1]
         /\ UNCHANGED <<stored, receiverFaults>>
<1>t. sends \in [Lines -> 0 .. 1]
  BY DEF ReceiverKnows, In!TypeOK
<1>1. spc[p] = "idle" /\ sends[p] = 0 /\ sends' = [sends EXCEPT ![p] = 1]
  <2>1. /\ spc[p] = "idle" /\ sends[p] < 1
        /\ sends' = [sends EXCEPT ![p] = sends[p] + 1]
    BY DEF In!Data, In!Transmit
  <2>2. sends[p] = 0
    BY <1>t, <2>1
  <2> QED
    BY <2>1, <2>2
<1>2. RcptsOf[p] = <<p.mail.rcpt>> /\ RcptsOf[p] # <<>>
  BY DEF RcptsOf
<1>3. /\ spc' = [spc EXCEPT ![p] = "select"]
      /\ reply' = [reply EXCEPT ![p] = "none"]
      /\ todo' = [todo EXCEPT ![p] = <<p.mail.rcpt>>]
  BY <1>2 DEF In!Data, In!Serve, In!Try, In!StepTo
<1>4. reply[p] # "250"
  <2> SUFFICES ASSUME reply[p] = "250" PROVE FALSE
    OBVIOUS
  <2>1. In!HasCopy(p, sends[p], 1)
    BY <1>2 DEF ReceiverKnows, In!AcceptedMeansStored
  <2> QED
    BY <1>1, <2>1 DEF In!HasCopy, SessionInv
<1>5. UNCHANGED <<stored, receiverFaults>>
  BY <1>4 DEF In!Data, In!Transmit
<1> QED
  BY <1>1, <1>3, <1>5

\* What the death of the other node does to its sessions.
LEMMA CrashMoves ==
  ASSUME ReceiverKnows, In!Crash
  PROVE  /\ spc' = [p \in Lines |-> "idle"]
         /\ reply' = [p \in Lines |-> IF spc[p] = "idle" THEN reply[p] ELSE "lost"]
         /\ UNCHANGED <<sends, stored>>
         /\ receiverFaults' = receiverFaults + 1
  BY DEF In!Crash, In!Fault

\* The steps of the two nodes, by what they do to the sessions.
LEMMA StepsOfReceiver ==
  ASSUME [Next]_vars
  PROVE  \/ /\ UNCHANGED <<spc, todo, reply, sends, stored, receiverFaults, line>>
            /\ Sender
         \/ /\ UNCHANGED <<spc, todo, reply, sends, stored, receiverFaults>>
            /\ \/ SenderCrash
               \/ \E d \in Dests : Unreached(d) \/ Confirmed(d) \/ Refused(d) \/ LineLost(d)
         \/ /\ UNCHANGED <<spc, todo, reply, sends, stored, line, sender>>
            /\ receiverFaults' = receiverFaults \/ receiverFaults' = receiverFaults + 1
         \/ \E d \in Dests : Transmit(d)
         \/ /\ UNCHANGED <<sender, line, sends>>
            /\ \E p \in Lines : In!Session(p)
         \/ UNCHANGED <<sender, line>> /\ In!Crash
<1>1. ASSUME In!DirectoryNext
      PROVE  receiverFaults' = receiverFaults \/ receiverFaults' = receiverFaults + 1
  BY <1>1
  DEF In!DirectoryNext, In!AddUser, In!UserCreate, In!AddUserFatal, In!AliasOwner,
      In!AssignAlias, In!AliasAssign, In!AddAlias, In!DeleteAlias, In!UserDelete,
      In!Fault
<1> QED
  BY <1>1 DEF Next, vars, receiver, Sender, SenderCrash, Unreached, Confirmed,
              Refused, LineLost, Receiver

\* Every step of either node keeps what is true of the sessions.
LEMMA SessionStep == ReceiverKnows /\ SessionInv /\ [Next]_vars => SessionInv'
<1> SUFFICES ASSUME ReceiverKnows, SessionInv, [Next]_vars PROVE SessionInv'
  OBVIOUS
<1>t. /\ spc \in [Lines -> {"idle", "select", "insert", "bump", "resolve"}]
      /\ reply \in [Lines -> {"none", "250", "451", "550", "lost"}]
      /\ todo \in [Lines -> Seq(In!Names)]
      /\ sends \in [Lines -> 0 .. 1]
  BY DEF ReceiverKnows, In!TypeOK
<1>1. ASSUME UNCHANGED <<spc, todo, reply, sends, stored>> PROVE SessionInv'
  BY <1>1 DEF SessionInv, InMailbox
<1>2. ASSUME NEW d \in Dests, Transmit(d) PROVE SessionInv'
  <2>1. PICK p \in Lines : In!Data(p)
    BY <1>2 DEF Transmit
  <2>2. /\ spc[p] = "idle" /\ sends[p] = 0
        /\ spc' = [spc EXCEPT ![p] = "select"]
        /\ reply' = [reply EXCEPT ![p] = "none"]
        /\ todo' = [todo EXCEPT ![p] = <<p.mail.rcpt>>]
        /\ sends' = [sends EXCEPT ![p] = 1]
        /\ UNCHANGED stored
    BY <2>1, DataMoves
  <2> QED
    BY <1>t, <2>2 DEF SessionInv, InMailbox
<1>3. ASSUME NEW p \in Lines, In!Session(p), sends' = sends PROVE SessionInv'
  <2>1. /\ spc[p] # "idle"
        /\ spc' = [spc EXCEPT ![p] = spc'[p]]
        /\ reply' = [reply EXCEPT ![p] = reply'[p]]
        /\ todo' = [todo EXCEPT ![p] = todo'[p]]
    BY <1>3, SessionMoves
  <2>2. /\ \A q \in Lines \ {p} :
              spc'[q] = spc[q] /\ reply'[q] = reply[q] /\ todo'[q] = todo[q]
        /\ todo[p] = <<p.mail.rcpt>> /\ reply[p] = "none" /\ sends[p] # 0
    BY <1>t, <2>1 DEF SessionInv
  <2>3. \/ stored' = stored
        \/ \E x : x.from = p /\ stored' = stored \cup {x} /\ spc'[p] = "bump"
    BY <1>3, SessionMoves
  <2>4. \A q \in Lines : InMailbox(q) => InMailbox(q)'
    BY <2>3 DEF InMailbox
  <2>5. spc'[p] # "idle" => todo'[p] = todo[p] /\ reply'[p] = reply[p]
    BY <1>3, SessionMoves
  <2>6. spc'[p] = "bump" => InMailbox(p)'
    <3>1. spc'[p] = "bump" => \E x : x.from = p /\ stored' = stored \cup {x}
      BY <1>3, SessionMoves
    <3> QED
      BY <3>1 DEF InMailbox
  <2>7. \A x \in stored' : x.from \in Lines /\ sends[x.from] # 0
    BY <2>2, <2>3 DEF SessionInv
  <2> QED
    BY <1>3, <2>2, <2>4, <2>5, <2>6, <2>7 DEF SessionInv
<1>4. ASSUME In!Crash PROVE SessionInv'
  BY <1>t, <1>4, CrashMoves DEF SessionInv, InMailbox
<1> QED
  BY <1>1, <1>2, <1>3, <1>4, StepsOfReceiver

-----------------------------------------------------------------------------
(* A recipient gets a mail twice only for a reason                         *)

\* The sender's loops, as OutboundProofs describes them.
SenderLoops == OutP!LoopInv /\ OutP!TreatedInv /\ OutP!OnceInv

\* Taken over from OutboundProofs.
LEMMA SenderGoesOn == Spec => []SenderLoops
<1> USE EndToEndAssumption DEF Out!OutboundAssumption, OutP!OutboundAssumption
<1>1. OutP!Init => OutP!Inv /\ SenderLoops
  BY OutP!InvInit, OutP!LoopInit, OutP!OnceInit DEF SenderLoops
<1>2. OutP!Inv /\ SenderLoops /\ [OutP!Next]_OutP!vars => OutP!Inv' /\ SenderLoops'
  BY OutP!InvStep, OutP!LoopStep, OutP!TreatedStep, OutP!OnceStep
  DEF SenderLoops, OutP!Inv
<1> QED
  BY <1>1, <1>2, SameSender, SenderImplementsOutbound, PTL
  DEF ImplementsOutbound, OutP!Spec

\* The connections on which mail m got into a mailbox or still may.
Counted(m) ==
    {n \in 1 .. MaxLines :
        LET p == [mail |-> m, n |-> n] IN InMailbox(p) \/ spc[p] # "idle"}

\* Connection p no longer stands for a copy that its runner will hear of: it
\* left none, or a fault has kept the 250 away.
Paid(p) ==
    IF InMailbox(p) THEN spc[p] # "bump" /\ reply[p] # "250" ELSE spc[p] = "idle"

\* Runner d may transmit the mail of row r once more.
Free(d, r) ==
    /\ rpc[d] = "dequeue" => cur[d] # r
    /\ Waiting(d) /\ cur[d] = r => Paid(Peer(d))

\* Mail m may be transmitted once more without another fault.
MayRetry(m) ==
    \/ m \notin accepted
    \/ \E r \in queue : r.mail = m /\ \A d \in Dests : Free(d, r)

\* Each connection that is counted, and the retry that may follow, has its
\* fault, but for one.
CopiesAt(m) ==
    /\ Cardinality(Counted(m)) + (IF MayRetry(m) THEN 1 ELSE 0)
          <= 1 + faults + receiverFaults
    /\ m \notin accepted => Counted(m) = {}

CopiesInv == \A m \in Out!Mails : Out!OnceListed(m) => CopiesAt(m)

Faults == faults + receiverFaults

\* There are finitely many connections for a mail.
LEMMA CountedFinite ==
  ASSUME NEW m
  PROVE  /\ IsFiniteSet(Counted(m)) /\ Cardinality(Counted(m)) \in Nat
         /\ IsFiniteSet(Counted(m)') /\ Cardinality(Counted(m)') \in Nat
<1>1. IsFiniteSet(1 .. MaxLines)
  BY EndToEndAssumption, FS_Interval
<1>2. Counted(m) \in SUBSET (1 .. MaxLines) /\ Counted(m)' \in SUBSET (1 .. MaxLines)
  BY DEF Counted
<1>3. IsFiniteSet(Counted(m)) /\ IsFiniteSet(Counted(m)')
  BY <1>1, <1>2, FS_Subset
<1> QED
  BY <1>3, FS_CardinalityType

\* The arithmetic of the accounts: C connections are counted, a retry is
\* permitted or not, and F faults have happened.
LEMMA Sums ==
  ASSUME NEW C \in Nat, NEW D \in Nat, NEW b \in 0 .. 1, NEW c \in 0 .. 1,
         NEW F \in Nat, NEW G \in Nat, C + b <= 1 + F, F <= G,
         \/ D <= C /\ (c <= b \/ F < G)
         \/ D <= C + 1 /\ b = 1 /\ c = 0
         \/ D <= C - 1
  PROVE  D + c <= 1 + G
  OBVIOUS

\* A step keeps the account of m when it counts no new connection and either
\* permits no new retry or is a fault, when it uses up the retry for one new
\* connection, and when a connection that failed permits a retry.
LEMMA Accounts ==
  ASSUME NEW m, CopiesAt(m), accepted \subseteq accepted',
         faults \in Nat, receiverFaults \in Nat,
         faults' \in Nat, receiverFaults' \in Nat, Faults' >= Faults,
         \/ /\ Counted(m)' \subseteq Counted(m)
            /\ (MayRetry(m)' => MayRetry(m)) \/ Faults' > Faults
         \/ /\ \E n : Counted(m)' \subseteq Counted(m) \cup {n}
            /\ MayRetry(m) /\ ~MayRetry(m)' /\ m \in accepted
         \/ \E n \in Counted(m) : Counted(m)' \subseteq Counted(m) \ {n}
  PROVE  CopiesAt(m)'
<1> DEFINE C == Cardinality(Counted(m))
           D == Cardinality(Counted(m)')
           b == IF MayRetry(m) THEN 1 ELSE 0
           c == IF MayRetry(m)' THEN 1 ELSE 0
<1>f. IsFiniteSet(Counted(m)) /\ C \in Nat /\ D \in Nat
  BY CountedFinite
<1>b. b \in 0 .. 1 /\ c \in 0 .. 1
  OBVIOUS
<1>a. C + b <= 1 + Faults
  BY DEF CopiesAt, Faults
<1>z. m \notin accepted => Counted(m) = {}
  BY DEF CopiesAt
<1>n. Faults \in Nat /\ Faults' \in Nat /\ Faults <= Faults'
  <2>1. \A i, j \in Nat : i + j \in Nat
    OBVIOUS
  <2>2. \A i, j \in Nat : i >= j => j <= i
    OBVIOUS
  <2>3. Faults \in Nat /\ Faults' \in Nat
    BY <2>1 DEF Faults
  <2> QED
    BY <2>2, <2>3
<1>1. CASE /\ Counted(m)' \subseteq Counted(m)
           /\ (MayRetry(m)' => MayRetry(m)) \/ Faults' > Faults
  <2>1. D <= C
    BY <1>1, <1>f, FS_Subset
  <2>2. c <= b \/ Faults < Faults'
    <3>1. Faults' > Faults => Faults < Faults'
      BY <1>n
    <3> QED
      BY <1>1, <3>1
  <2> HIDE DEF C, D, b, c, Faults
  <2>3. D + c <= 1 + Faults'
    BY ZenonT(30), <1>a, <1>b, <1>f, <1>n, <2>1, <2>2, Sums
  <2>4. m \notin accepted' => Counted(m)' = {}
    BY <1>1, <1>z
  <2> QED
    BY <2>3, <2>4 DEF CopiesAt, Faults, D, c
<1>2. CASE /\ \E n : Counted(m)' \subseteq Counted(m) \cup {n}
           /\ MayRetry(m) /\ ~MayRetry(m)' /\ m \in accepted
  <2>1. PICK n : Counted(m)' \subseteq Counted(m) \cup {n}
    BY <1>2
  <2>2. /\ IsFiniteSet(Counted(m) \cup {n})
        /\ \/ Cardinality(Counted(m) \cup {n}) = C
           \/ Cardinality(Counted(m) \cup {n}) = C + 1
    BY <1>f, FS_AddElement
  <2>3. D <= Cardinality(Counted(m) \cup {n})
    BY <2>1, <2>2, FS_Subset
  <2>4. D <= C + 1
    BY <1>f, <2>2, <2>3
  <2>5. b = 1 /\ c = 0
    BY <1>2
  <2> HIDE DEF C, D, b, c, Faults
  <2>6. D + c <= 1 + Faults'
    <3>1. C + 1 <= 1 + Faults
      BY <1>a, <2>5
    <3>2. D + 0 <= 1 + Faults'
      <4>1. \A i, j, k, l \in Nat :
               i <= j + 1 /\ j + 1 <= 1 + k /\ k <= l => i + 0 <= 1 + l
        OBVIOUS
      <4> QED
        BY <3>1, <1>f, <1>n, <2>4, <4>1, Zenon
    <3> QED
      BY <3>2, <2>5
  <2> QED
    BY <1>2, <2>6 DEF CopiesAt, Faults, D, c
<1>3. CASE \E n \in Counted(m) : Counted(m)' \subseteq Counted(m) \ {n}
  <2>1. PICK n \in Counted(m) : Counted(m)' \subseteq Counted(m) \ {n}
    BY <1>3
  <2>2. IsFiniteSet(Counted(m) \ {n}) /\ Cardinality(Counted(m) \ {n}) = C - 1
    BY <1>f, <2>1, FS_RemoveElement
  <2>3. D <= C - 1
    BY <2>1, <2>2, FS_Subset
  <2>4. m \in accepted'
    BY <1>z, <2>1
  <2> HIDE DEF C, D, b, c, Faults
  <2>5. D + c <= 1 + Faults'
    BY <1>a, <1>b, <1>f, <1>n, <2>3, Sums
  <2> QED
    BY <2>4, <2>5 DEF CopiesAt, Faults, D, c
<1> QED
  BY <1>1, <1>2, <1>3

\* The rows and runners of the sender, as OutboundProofs describes them.
LEMMA RowsAndRunners ==
  ASSUME Known, SenderLoops
  PROVE  /\ \A d \in Dests : rpc[d] \in {"send", "dequeue"} =>
               /\ cur[d] \in queue /\ cur[d].dest = d /\ body[d] = cur[d].mail
               /\ \A e \in Dests : rpc[e] \in {"send", "dequeue"} /\ cur[e] = cur[d]
                     => e = d
         /\ \A m \in Out!Mails : Out!OnceListed(m) =>
               /\ m \notin accepted => \A r \in queue : r.mail # m
               /\ \A r, q \in queue : r.mail = m /\ q.mail = m => r = q
  BY DEF Known, SenderKnows, SenderLoops, OutP!Inv, OutP!ClaimInv,
         OutP!RunnerClaims, OutP!Working, OutP!OnceInv, OutP!OnceAt,
         Out!OnceListed, OutP!OnceListed, Out!Mails, OutP!Mails

\* A step of the sender that leaves the runners alone that send or dequeue.
Calm ==
    /\ accepted' = accepted /\ queue' = queue
    /\ faults' = faults \/ faults' = faults + 1
    /\ \A d \in Dests : rpc[d] \in {"send", "dequeue"} =>
          rpc'[d] = rpc[d] /\ cur'[d] = cur[d] /\ body'[d] = body[d]

\* All steps the sender takes by itself are, but for two.
LEMMA SenderCalm ==
  ASSUME Known, Sender
  PROVE  \/ Calm
         \/ \E s \in Sessions : Out!Enqueue(s)
         \/ \E d \in Dests : Out!Dequeue(d)
<1>t. /\ rpc \in [Dests -> {"off", "select", "next", "send", "dequeue",
                            "pending", "file", "delete"}]
      /\ cur \in [Dests -> Out!Rows \cup {<<>>}]
      /\ body \in [Dests -> Out!Mails \cup {<<>>}]
  BY DEF Known, SenderKnows, Out!TypeOK
<1>1. ASSUME NEW s \in Sessions, Out!Session(s), ~Out!Enqueue(s) PROVE Calm
  BY <1>t, <1>1
  DEF Out!Session, Out!Submit, Out!DeliverLocally, Out!SkipRcpt,
      Out!CopyFailed, Out!ReadNext, Out!Insert, Out!InsertRejected, Out!Bump,
      Out!EnqueueFailed, Out!WakeRunner, Out!Finish, Out!Wake, Out!runners,
      Out!tables, Out!ends, Out!Fault, Calm
<1>2. ASSUME NEW e \in Dests, rpc[e] # "send", Out!Runner(e), ~Out!Dequeue(e)
      PROVE  Calm
  <2>1. CASE Out!Snapshot(e) \/ Out!SnapshotFailed(e) \/ Out!Take(e) \/ Out!Skip(e)
    BY <1>t, <2>1
    DEF Out!Snapshot, Out!SnapshotFailed, Out!Take, Out!Skip, Out!RunnerTo,
        Out!tables, Out!ends, Out!Fault, Calm
  <2>2. CASE Out!NotPending(e) \/ Out!StillPending(e) \/ Out!FileSent(e)
             \/ Out!DeleteMail(e) \/ Out!Stop(e)
    BY <1>t, <2>2
    DEF Out!NotPending, Out!StillPending, Out!FileSent, Out!DeleteMail, Out!Stop,
        Out!Forget, Out!RunnerTo, Out!tables, Out!ends, Out!Fault, Calm
  <2> QED
    BY <1>2, <2>1, <2>2 DEF Out!Runner, Out!Sent, Out!SendFailed
<1>3. ASSUME Out!Manager PROVE Calm
  BY <1>t, <1>3
  DEF Out!Manager, Out!ManagerList, Out!ManagerWake, Out!Wake, Out!runners,
      Out!tables, Out!ends, Calm
<1> QED
  BY <1>1, <1>2, <1>3 DEF Sender

\* What the sender does by itself to mail m and to runners at work: it queues
\* m once, and a runner forgets what it has sent only with its row or a fault.
LEMMA SenderMoves ==
  ASSUME Known, SenderLoops, Sender, NEW m \in Out!Mails, Out!OnceListed(m)
  PROVE  /\ accepted \subseteq accepted'
         /\ faults' = faults \/ faults' = faults + 1
         /\ m \in accepted => \A r \in queue' : r.mail = m => r \in queue
         /\ \A d \in Dests : rpc[d] = "send" =>
               rpc'[d] = "send" /\ cur'[d] = cur[d] /\ body'[d] = body[d]
         /\ \/ faults' = faults + 1
            \/ \A d \in Dests : rpc[d] = "dequeue" =>
                  (rpc'[d] = "dequeue" /\ cur'[d] = cur[d]) \/ cur[d] \notin queue'
<1> USE EndToEndAssumption DEF Out!OutboundAssumption, OutP!OutboundAssumption
<1>t. /\ rpc \in [Dests -> {"off", "select", "next", "send", "dequeue",
                            "pending", "file", "delete"}]
      /\ cur \in [Dests -> Out!Rows \cup {<<>>}]
      /\ body \in [Dests -> Out!Mails \cup {<<>>}]
  BY DEF Known, SenderKnows, Out!TypeOK
<1>1. CASE Calm
  BY <1>1 DEF Calm
<1>2. ASSUME NEW s \in Sessions, Out!Enqueue(s)
      PROVE  /\ accepted \subseteq accepted' /\ faults' = faults
             /\ m \in accepted => \A r \in queue' : r.mail = m => r \in queue
             /\ rpc' = rpc /\ cur' = cur /\ body' = body
  <2>1. m = Out!Mail(s) => m \notin accepted
    BY <1>2, OutP!EnqueuedOnce
    DEF Known, SenderKnows, SenderLoops, OutP!Inv, Out!OnceListed,
        OutP!OnceListed, Out!Mail, OutP!Mail, Out!Enqueue, OutP!Enqueue,
        Out!StepTo, OutP!StepTo, Out!runners, OutP!runners
  <2>2. /\ queue' = queue \cup {[dest |-> DestOf[Head(left[s])], id |-> slot[s],
                                mail |-> Out!Mail(s)]}
        /\ accepted' = accepted \cup {Out!Mail(s)}
        /\ UNCHANGED <<rpc, cur, body, faults>>
    BY <1>2 DEF Out!Enqueue, Out!runners
  <2> QED
    BY <2>1, <2>2
<1>3. ASSUME NEW e \in Dests, Out!Dequeue(e)
      PROVE  /\ accepted' = accepted /\ queue' \subseteq queue
             /\ cur' = cur /\ body' = body
             /\ rpc[e] = "dequeue" /\ rpc' = [rpc EXCEPT ![e] = "pending"]
             /\ faults' = faults + 1 \/ (faults' = faults /\ cur[e] \notin queue')
  <2>1. cur[e].dest = e \/ rpc[e] # "dequeue"
    BY RowsAndRunners
  <2> QED
    BY <1>3, <2>1 DEF Out!Dequeue, Out!Fault, Out!RunnerTo, Out!ends
<1>4. CASE \E e \in Dests : Out!Dequeue(e)
  <2>1. PICK e \in Dests : Out!Dequeue(e)
    BY <1>4
  <2>2. \A d \in Dests : rpc[d] = "send" => rpc'[d] = "send"
    BY <1>t, <1>3, <2>1
  <2>3. \A d \in Dests : rpc[d] = "dequeue" => rpc'[d] = "dequeue" \/ d = e
    BY <1>t, <1>3, <2>1
  <2> QED
    BY <1>3, <2>1, <2>2, <2>3
<1>5. CASE \E s \in Sessions : Out!Enqueue(s)
  BY <1>2, <1>5
<1> QED
  BY <1>1, <1>4, <1>5, SenderCalm

\* A connection of m that was idle and has left no copy stays uncounted.
LEMMA CountedShrinks ==
  ASSUME NEW m \in Out!Mails,
         \A q \in Lines : q.mail = m /\ (InMailbox(q)' \/ spc'[q] # "idle") =>
             InMailbox(q) \/ spc[q] # "idle"
  PROVE  Counted(m)' \subseteq Counted(m)
<1>1. \A n \in 1 .. MaxLines :
         [mail |-> m, n |-> n] \in Lines /\ [mail |-> m, n |-> n].mail = m
  BY DEF Lines
<1> QED
  BY <1>1 DEF Counted, InMailbox

\* A retry of m becomes possible only when a runner forgets what it waits for
\* or has sent.
LEMMA RetryFrame ==
  ASSUME NEW m, UNCHANGED <<spc, reply, stored>>,
         accepted \subseteq accepted',
         m \in accepted => \A r \in queue' : r.mail = m => r \in queue,
         \A d \in Dests : Waiting(d) /\ ~Paid(Peer(d)) =>
             \/ Waiting(d)' /\ cur'[d] = cur[d] /\ Peer(d)' = Peer(d)
             \/ rpc'[d] = "dequeue" /\ cur'[d] = cur[d],
         \A d \in Dests : rpc[d] = "dequeue" =>
             (rpc'[d] = "dequeue" /\ cur'[d] = cur[d]) \/ cur[d] \notin queue'
  PROVE  MayRetry(m)' => MayRetry(m)
<1> SUFFICES ASSUME m \in accepted, m \in accepted', MayRetry(m)' PROVE MayRetry(m)
  BY DEF MayRetry
<1>1. PICK r \in queue' : r.mail = m /\ \A d \in Dests : Free(d, r)'
  BY DEF MayRetry
<1>2. r \in queue
  BY <1>1
<1>3. \A p : Paid(p)' <=> Paid(p)
  BY DEF Paid, InMailbox
<1>4. ASSUME NEW d \in Dests PROVE Free(d, r)
  <2>1. rpc[d] = "dequeue" => cur[d] # r
    BY <1>1 DEF Free
  <2>2. ASSUME Waiting(d), cur[d] = r, ~Paid(Peer(d)) PROVE FALSE
    <3>1. CASE Waiting(d)' /\ cur'[d] = cur[d] /\ Peer(d)' = Peer(d)
      <4>1. Paid(Peer(d))'
        BY <1>1, <2>2, <3>1 DEF Free
      <4>2. Paid(Peer(d))
        BY <3>1, <4>1 DEF Paid, InMailbox
      <4> QED
        BY <2>2, <4>2
    <3>2. CASE rpc'[d] = "dequeue" /\ cur'[d] = cur[d]
      BY <1>1, <2>2, <3>2 DEF Free
    <3> QED
      BY <2>2, <3>1, <3>2
  <2> QED
    BY <2>1, <2>2 DEF Free
<1> QED
  BY <1>1, <1>2, <1>4 DEF MayRetry

\* Nor does the other node make one possible as long as no connection of m
\* becomes one that no longer stands for a copy.
LEMMA RetryOfReceiver ==
  ASSUME Known, SenderLoops, LineInv, NEW m, UNCHANGED <<sender, line>>,
         \A q \in Lines : q.mail = m => (Paid(q)' => Paid(q))
  PROVE  MayRetry(m)' => MayRetry(m)
<1> SUFFICES ASSUME m \in accepted, MayRetry(m)' PROVE MayRetry(m)
  BY DEF MayRetry
<1>s. /\ accepted' = accepted /\ queue' = queue
      /\ rpc' = rpc /\ cur' = cur /\ body' = body /\ line' = line
  BY DEF sender
<1>1. PICK r \in queue : r.mail = m /\ \A d \in Dests : Free(d, r)'
  BY <1>s DEF MayRetry
<1>2. ASSUME NEW d \in Dests PROVE Free(d, r)
  <2>1. rpc[d] = "dequeue" => cur[d] # r
    BY <1>s, <1>1 DEF Free
  <2>2. ASSUME Waiting(d), cur[d] = r PROVE Paid(Peer(d))
    <3>1. Peer(d)' = Peer(d) /\ Waiting(d)' /\ cur'[d] = r
      BY <1>s, <2>2 DEF Peer, Waiting
    <3>2. Paid(Peer(d))'
      BY <1>1, <3>1 DEF Free
    <3>3. body[d] = m
      BY <1>1, <2>2, RowsAndRunners DEF Waiting
    <3>4. Peer(d) \in Lines /\ Peer(d).mail = m
      BY <2>2, <3>3 DEF LineInv, Waiting, Peer
    <3>5. PICK p \in Lines : p = Peer(d)
      BY <3>4
    <3>6. Paid(p)'
      BY <3>1, <3>2, <3>5 DEF Paid, InMailbox
    <3> QED
      BY <3>4, <3>5, <3>6
  <2> QED
    BY <2>1, <2>2 DEF Free
<1> QED
  BY <1>1, <1>2 DEF MayRetry

\* The faults of both nodes are counted up.
LEMMA FaultsCount ==
  ASSUME faults \in Nat, receiverFaults \in Nat,
         faults' = faults \/ faults' = faults + 1,
         receiverFaults' = receiverFaults \/ receiverFaults' = receiverFaults + 1
  PROVE  /\ faults' \in Nat /\ receiverFaults' \in Nat /\ Faults' >= Faults
         /\ faults' = faults + 1 \/ receiverFaults' = receiverFaults + 1
               => Faults' > Faults
<1>1. \A i, j, k, l \in Nat :
         /\ k = i \/ k = i + 1
         /\ l = j \/ l = j + 1
         => /\ k + l >= i + j
            /\ k = i + 1 \/ l = j + 1 => k + l > i + j
  OBVIOUS
<1>2. faults' \in Nat /\ receiverFaults' \in Nat
  OBVIOUS
<1> QED
  BY <1>1, <1>2 DEF Faults

\* What is assumed of a state in the steps below.
CopiesKnow(m) ==
    /\ Known /\ SenderLoops /\ LineInv /\ SessionInv
    /\ m \in Out!Mails /\ Out!OnceListed(m)
    /\ CopiesAt(m)

\* While a runner waits, a session that has answered but not with 250 has no
\* copy that the runner will hear of.
LEMMA AnsweredIsPaid ==
  ASSUME SessionInv, NEW p \in Lines, reply[p] \in {"451", "lost"}
  PROVE  Paid(p)
  BY DEF SessionInv, Paid

\* The steps of the runners that are about a connection.
LEMMA RunnerAccounts ==
  ASSUME NEW m, CopiesKnow(m), UNCHANGED <<spc, reply, stored, receiverFaults>>,
         NEW d \in Dests, Unreached(d) \/ Confirmed(d) \/ Refused(d) \/ LineLost(d)
  PROVE  CopiesAt(m)'
<1> USE DEF CopiesKnow
<1>t. /\ rpc \in [Dests -> {"off", "select", "next", "send", "dequeue",
                            "pending", "file", "delete"}]
      /\ cur \in [Dests -> Out!Rows \cup {<<>>}]
      /\ body \in [Dests -> Out!Mails \cup {<<>>}]
      /\ line \in [Dests -> 0 .. MaxLines]
      /\ faults \in Nat /\ receiverFaults \in Nat
  BY DEF Known, SenderKnows, ReceiverKnows, Out!TypeOK, In!TypeOK,
         In!DirectoryTypeOK, LineInv
<1>1. Counted(m)' \subseteq Counted(m)
  BY CountedShrinks DEF InMailbox
<1>2. ASSUME Out!SendFailed(d) \/ Out!Sent(d)
      PROVE  /\ rpc[d] = "send" /\ accepted' = accepted /\ queue' = queue
             /\ faults' = faults \/ faults' = faults + 1
             /\ \A e \in Dests \ {d} :
                   rpc'[e] = rpc[e] /\ cur'[e] = cur[e] /\ body'[e] = body[e]
  BY <1>t, <1>2
  DEF Out!SendFailed, Out!Sent, Out!Retry, Out!Abandon, Out!Forget, Out!RunnerTo,
      Out!Fault, Out!tables
<1>3. Out!SendFailed(d) \/ Out!Sent(d)
  BY DEF Unreached, Confirmed, Refused, LineLost
<1>4. \A e \in Dests \ {d} : line'[e] = line[e]
  BY <1>t DEF Unreached, Confirmed, Refused, LineLost, HangUp
<1>5. CASE LineLost(d)
  <2>1. faults' = faults + 1
    BY <1>2, <1>3, <1>5 DEF LineLost
  <2> QED
    BY <1>1, <1>2, <1>3, <1>t, <2>1, FaultsCount, Accounts
<1>6. ASSUME Unreached(d) \/ Confirmed(d) \/ Refused(d)
      PROVE  MayRetry(m)' => MayRetry(m)
  <2>1. Waiting(d) /\ ~Paid(Peer(d)) => rpc'[d] = "dequeue" /\ cur'[d] = cur[d]
    <3>1. CASE Unreached(d)
      BY <3>1 DEF Unreached, Waiting
    <3>2. CASE Confirmed(d)
      BY <1>t, <3>2 DEF Confirmed, Out!Sent, Out!RunnerTo
    <3>3. CASE Refused(d)
      <4>1. Waiting(d) /\ reply[Peer(d)] \in {"451", "lost"} /\ Peer(d) \in Lines
        BY <3>3 DEF Refused, Waiting, LineInv
      <4>2. \E p \in Lines : p = Peer(d) /\ Paid(p)
        BY <4>1, AnsweredIsPaid
      <4> QED
        BY <4>2
    <3> QED
      BY <1>6, <3>1, <3>2, <3>3
  <2>2. \A e \in Dests : Waiting(e) /\ ~Paid(Peer(e)) =>
             \/ Waiting(e)' /\ cur'[e] = cur[e] /\ Peer(e)' = Peer(e)
             \/ rpc'[e] = "dequeue" /\ cur'[e] = cur[e]
    <3> SUFFICES ASSUME NEW e \in Dests, Waiting(e), ~Paid(Peer(e)), e # d
                 PROVE  Waiting(e)' /\ cur'[e] = cur[e] /\ Peer(e)' = Peer(e)
      BY <2>1
    <3> QED
      BY <1>2, <1>3, <1>4 DEF Waiting, Peer
  <2>3. \A e \in Dests : rpc[e] = "dequeue" => rpc'[e] = "dequeue" /\ cur'[e] = cur[e]
    BY <1>2, <1>3
  <2> QED
    BY <1>2, <1>3, <2>2, <2>3, RetryFrame
<1> QED
  BY <1>1, <1>2, <1>3, <1>5, <1>6, <1>t, FaultsCount, Accounts

\* What the sender does by itself, and its death.
LEMMA SenderAccounts ==
  ASSUME NEW m, CopiesKnow(m), UNCHANGED <<spc, reply, stored, receiverFaults>>,
         (Sender /\ line' = line) \/ SenderCrash
  PROVE  CopiesAt(m)'
<1> USE DEF CopiesKnow
<1>t. faults \in Nat /\ receiverFaults \in Nat
  BY DEF Known, SenderKnows, ReceiverKnows, Out!TypeOK, In!TypeOK,
         In!DirectoryTypeOK
<1>1. Counted(m)' \subseteq Counted(m)
  BY CountedShrinks DEF InMailbox
<1>2. CASE Sender /\ line' = line
  <2>1. /\ accepted \subseteq accepted'
        /\ faults' = faults \/ faults' = faults + 1
        /\ m \in accepted => \A r \in queue' : r.mail = m => r \in queue
        /\ \A d \in Dests : rpc[d] = "send" =>
              rpc'[d] = "send" /\ cur'[d] = cur[d] /\ body'[d] = body[d]
        /\ \/ faults' = faults + 1
           \/ \A d \in Dests : rpc[d] = "dequeue" =>
                 (rpc'[d] = "dequeue" /\ cur'[d] = cur[d]) \/ cur[d] \notin queue'
    BY <1>2, SenderMoves
  <2>2. CASE faults' = faults + 1
    BY <1>1, <1>t, <2>1, <2>2, FaultsCount, Accounts
  <2>3. CASE \A d \in Dests : rpc[d] = "dequeue" =>
                 (rpc'[d] = "dequeue" /\ cur'[d] = cur[d]) \/ cur[d] \notin queue'
    <3>1. \A d \in Dests : Waiting(d) =>
             Waiting(d)' /\ cur'[d] = cur[d] /\ Peer(d)' = Peer(d)
      BY <1>2, <2>1 DEF Waiting, Peer
    <3>2. MayRetry(m)' => MayRetry(m)
      BY <2>1, <2>3, <3>1, RetryFrame
    <3> QED
      BY <1>1, <1>t, <2>1, <3>2, FaultsCount, Accounts
  <2> QED
    BY <2>1, <2>2, <2>3
<1>3. CASE SenderCrash
  <2>1. faults' = faults + 1 /\ accepted' = accepted
    BY <1>3 DEF SenderCrash, Out!Crash, Out!Fault
  <2> QED
    BY <1>1, <1>t, <2>1, FaultsCount, Accounts
<1> QED
  BY <1>2, <1>3

\* A transmission uses up the retry of its mail.
LEMMA TransmitAccounts ==
  ASSUME NEW m, CopiesKnow(m), NEW d \in Dests, Transmit(d)
  PROVE  CopiesAt(m)'
<1> USE DEF CopiesKnow
<1>t. /\ spc \in [Lines -> {"idle", "select", "insert", "bump", "resolve"}]
      /\ reply \in [Lines -> {"none", "250", "451", "550", "lost"}]
      /\ line \in [Dests -> 0 .. MaxLines]
      /\ faults \in Nat /\ receiverFaults \in Nat /\ MaxLines \in Nat
  BY EndToEndAssumption
  DEF Known, SenderKnows, ReceiverKnows, Out!TypeOK, In!TypeOK,
      In!DirectoryTypeOK, LineInv
<1>1. PICK p \in Lines :
        p.mail = body[d] /\ In!Data(p) /\ line' = [line EXCEPT ![d] = p.n]
  BY DEF Transmit
<1>2. /\ rpc[d] = "send" /\ line[d] = 0
      /\ accepted' = accepted /\ queue' = queue /\ faults' = faults
      /\ rpc' = rpc /\ cur' = cur /\ body' = body
  BY DEF Transmit, sender
<1>3. /\ spc[p] = "idle" /\ sends[p] = 0
      /\ spc' = [spc EXCEPT ![p] = "select"]
      /\ reply' = [reply EXCEPT ![p] = "none"]
      /\ UNCHANGED <<stored, receiverFaults>>
  BY <1>1, DataMoves DEF Known
<1>4. ~InMailbox(p) /\ \A q : InMailbox(q)' <=> InMailbox(q)
  BY <1>3 DEF SessionInv, InMailbox
<1>5. \A q \in Lines \ {p} :
         /\ spc'[q] = spc[q] /\ reply'[q] = reply[q]
         /\ Paid(q)' <=> Paid(q)
  BY <1>3, <1>4 DEF Paid
<1>6. \A e \in Dests \ {d} :
         line'[e] = line[e] /\ (Waiting(e)' <=> Waiting(e)) /\ Peer(e)' = Peer(e)
  BY <1>1, <1>2, <1>t DEF Waiting, Peer
<1>7. ~Waiting(d)
  BY <1>2 DEF Waiting
<1>p. p.mail \in Out!Mails /\ p.n \in 1 .. MaxLines /\ p = [mail |-> p.mail, n |-> p.n]
  BY DEF Lines
<1>8. ~Paid(p)'
  BY <1>3, <1>4, <1>t DEF Paid
<1>9. Peer(d)' = p /\ Waiting(d)'
  <2>1. line'[d] = p.n /\ p.n # 0
    BY <1>1, <1>p, <1>t
  <2> QED
    BY <1>1, <1>2, <1>p, <2>1 DEF Peer, Waiting
<1>10. CASE body[d] = m
  <2>1. cur[d] \in queue /\ cur[d].mail = m
    BY <1>2, <1>10, RowsAndRunners
  <2>2. /\ m \in accepted
        /\ \A r \in queue : r.mail = m => r = cur[d]
    BY <2>1, RowsAndRunners
  <2>3. MayRetry(m)
    <3>1. \A e \in Dests : rpc[e] \in {"send", "dequeue"} /\ cur[e] = cur[d] => e = d
      BY <1>2, RowsAndRunners
    <3>2. \A e \in Dests : Free(e, cur[d])
      BY <1>2, <1>7, <3>1 DEF Free, Waiting
    <3> QED
      BY <2>1, <3>2 DEF MayRetry
  <2>4. ~MayRetry(m)'
    <3>1. ~Free(d, cur[d])'
      <4>1. Paid(Peer(d))' <=> Paid(p)'
        BY <1>9 DEF Paid, InMailbox
      <4> QED
        BY <1>2, <1>8, <1>9, <4>1 DEF Free
    <3>2. \A r \in queue' : r.mail = m => r = cur[d]
      BY <1>2, <2>2
    <3> QED
      BY <1>2, <2>2, <3>1, <3>2 DEF MayRetry, Free
  <2>5. Counted(m)' \subseteq Counted(m) \cup {p.n}
    <3> SUFFICES ASSUME NEW n \in 1 .. MaxLines, n # p.n, n \in Counted(m)'
                 PROVE  n \in Counted(m)
      BY DEF Counted
    <3>1. PICK q \in Lines : q = [mail |-> m, n |-> n]
      BY DEF Lines
    <3>2. q # p
      BY <3>1
    <3>3. InMailbox(q)' \/ spc'[q] # "idle"
      BY <3>1 DEF Counted, InMailbox
    <3>4. InMailbox(q) \/ spc[q] # "idle"
      BY <1>4, <1>5, <3>2, <3>3
    <3> QED
      BY <3>1, <3>4 DEF Counted
  <2> QED
    BY <1>2, <1>3, <1>t, <2>2, <2>3, <2>4, <2>5, FaultsCount, Accounts
<1>11. CASE body[d] # m
  <2>1. \A q \in Lines : q.mail = m => q # p
    BY <1>1, <1>11
  <2>2. Counted(m)' \subseteq Counted(m)
    BY <1>4, <1>5, <2>1, CountedShrinks
  <2>3. MayRetry(m)' => MayRetry(m)
    <3> SUFFICES ASSUME m \in accepted, MayRetry(m)' PROVE MayRetry(m)
      BY DEF MayRetry
    <3>1. PICK r \in queue : r.mail = m /\ \A e \in Dests : Free(e, r)'
      BY <1>2 DEF MayRetry
    <3>2. cur[d] # r
      BY <1>2, <1>11, <3>1, RowsAndRunners
    <3>3. ASSUME NEW e \in Dests PROVE Free(e, r)
      <4>1. rpc[e] = "dequeue" => cur[e] # r
        BY <1>2, <3>1 DEF Free
      <4>2. ASSUME Waiting(e), cur[e] = r PROVE Paid(Peer(e))
        <5>1. e # d
          BY <3>2, <4>2
        <5>2. body[e] = m /\ Peer(e) \in Lines /\ Peer(e).mail = m
          BY <3>1, <4>2, RowsAndRunners DEF Waiting, LineInv, Peer
        <5>3. PICK q \in Lines : q = Peer(e)
          BY <5>2
        <5>4. Paid(q)'
          <6>1. Paid(Peer(e))'
            BY <1>2, <1>6, <3>1, <4>2, <5>1 DEF Free
          <6>2. Peer(e)' = q
            BY <1>6, <5>1, <5>3
          <6> QED
            BY <6>1, <6>2 DEF Paid, InMailbox
        <5> QED
          BY <1>5, <2>1, <5>2, <5>3, <5>4
      <4> QED
        BY <4>1, <4>2 DEF Free
    <3> QED
      BY <3>1, <3>3 DEF MayRetry
  <2> QED
    BY <1>2, <1>3, <1>t, <2>2, <2>3, FaultsCount, Accounts
<1> QED
  BY <1>10, <1>11

\* What a session of the other node does: only when it gives up, or a
\* statement of it fails, may the runner have to send the mail again.
LEMMA SessionAccounts ==
  ASSUME NEW m, CopiesKnow(m), UNCHANGED <<sender, line, sends>>,
         NEW p \in Lines, In!Session(p)
  PROVE  CopiesAt(m)'
<1> USE DEF CopiesKnow
<1>t. /\ spc \in [Lines -> {"idle", "select", "insert", "bump", "resolve"}]
      /\ reply \in [Lines -> {"none", "250", "451", "550", "lost"}]
      /\ faults \in Nat /\ receiverFaults \in Nat
  BY DEF Known, SenderKnows, ReceiverKnows, Out!TypeOK, In!TypeOK,
         In!DirectoryTypeOK
<1>1. /\ spc[p] # "idle"
      /\ spc' = [spc EXCEPT ![p] = spc'[p]]
      /\ reply' = [reply EXCEPT ![p] = reply'[p]]
  BY SessionMoves DEF Known
<1>2. /\ \A q \in Lines \ {p} : spc'[q] = spc[q] /\ reply'[q] = reply[q]
      /\ reply[p] = "none" /\ (spc[p] = "bump" => InMailbox(p))
  BY <1>t, <1>1 DEF SessionInv
<1>3. stored' = stored \/ \E x : x.from = p /\ stored' = stored \cup {x}
  BY SessionMoves DEF Known
<1>4. /\ \A q \in Lines \ {p} : InMailbox(q)' <=> InMailbox(q)
      /\ InMailbox(p) => InMailbox(p)'
      /\ stored' = stored => (InMailbox(p)' => InMailbox(p))
  BY <1>3 DEF InMailbox
<1>5. accepted' = accepted /\ faults' = faults
  BY DEF sender
<1>6. receiverFaults' = receiverFaults \/ receiverFaults' = receiverFaults + 1
  BY SessionMoves DEF Known
<1>7. Counted(m)' \subseteq Counted(m)
  BY <1>1, <1>2, <1>4, CountedShrinks
<1>8. \A q \in Lines \ {p} : Paid(q)' <=> Paid(q)
  BY <1>2, <1>4 DEF Paid
<1>9. \/ receiverFaults' = receiverFaults + 1
      \/ Paid(p)' => Paid(p)
      \/ ~InMailbox(p) /\ stored' = stored /\ spc'[p] = "idle"
  <2>1. CASE /\ spc[p] \in {"select", "resolve"} /\ spc'[p] # "idle"
             /\ spc'[p] # "bump" /\ UNCHANGED <<reply, stored>>
    BY <1>2, <1>4, <2>1 DEF Paid
  <2>2. CASE /\ spc[p] = "insert" /\ spc'[p] = "bump"
             /\ \E x : x.from = p /\ stored' = stored \cup {x}
    <3>1. InMailbox(p)'
      BY <2>2 DEF InMailbox
    <3> QED
      BY <2>2, <3>1 DEF Paid
  <2>3. CASE spc[p] = "insert" /\ spc'[p] = "resolve" /\ UNCHANGED <<reply, stored>>
    BY <1>2, <1>4, <2>3 DEF Paid
  <2>4. CASE spc[p] = "bump" /\ reply'[p] = "250"
    BY <1>2, <1>4, <2>4 DEF Paid
  <2>5. CASE /\ spc[p] # "bump" /\ spc[p] # "idle" /\ spc'[p] = "idle"
             /\ reply'[p] = "451" /\ UNCHANGED stored
    BY <1>2, <1>4, <2>5 DEF Paid
  <2> QED
    BY <2>1, <2>2, <2>3, <2>4, <2>5, SessionMoves DEF Known
<1>10. CASE receiverFaults' = receiverFaults + 1
  BY <1>5, <1>7, <1>10, <1>t, FaultsCount, Accounts
<1>11. CASE p.mail = m => (Paid(p)' => Paid(p))
  <2>1. \A q \in Lines : q.mail = m => (Paid(q)' => Paid(q))
    BY <1>8, <1>11
  <2>2. MayRetry(m)' => MayRetry(m)
    BY <2>1, RetryOfReceiver
  <2> QED
    BY <1>5, <1>6, <1>7, <1>t, <2>2, FaultsCount, Accounts
<1>12. CASE p.mail = m /\ ~InMailbox(p) /\ stored' = stored /\ spc'[p] = "idle"
  <2>1. p.n \in 1 .. MaxLines /\ p = [mail |-> m, n |-> p.n]
    BY <1>12 DEF Lines
  <2>2. ~InMailbox(p)' /\ spc'[p] = "idle"
    BY <1>4, <1>12
  <2>3. p.n \in Counted(m)
    BY <1>1, <2>1 DEF Counted
  <2>4. p.n \notin Counted(m)'
    BY <2>1, <2>2 DEF Counted, InMailbox
  <2>5. Counted(m)' \subseteq Counted(m) \ {p.n}
    BY <1>7, <2>4
  <2> QED
    BY <1>5, <1>6, <1>t, <2>3, <2>5, FaultsCount, Accounts
<1> QED
  BY <1>9, <1>10, <1>11, <1>12

\* The death of the other node is a fault, and its administrators change no
\* session.
LEMMA CrashAccounts ==
  ASSUME NEW m, CopiesKnow(m), UNCHANGED <<sender, line>>,
         \/ In!Crash
         \/ /\ UNCHANGED <<spc, reply, sends, stored>>
            /\ receiverFaults' = receiverFaults \/ receiverFaults' = receiverFaults + 1
  PROVE  CopiesAt(m)'
<1> USE DEF CopiesKnow
<1>t. faults \in Nat /\ receiverFaults \in Nat
  BY DEF Known, SenderKnows, ReceiverKnows, Out!TypeOK, In!TypeOK,
         In!DirectoryTypeOK
<1>1. accepted' = accepted /\ faults' = faults
  BY DEF sender
<1>2. CASE In!Crash
  <2>1. /\ spc' = [q \in Lines |-> "idle"] /\ UNCHANGED stored
        /\ receiverFaults' = receiverFaults + 1
    BY <1>2, CrashMoves DEF Known
  <2>2. Counted(m)' \subseteq Counted(m)
    BY <2>1, CountedShrinks DEF InMailbox
  <2> QED
    BY <1>1, <1>t, <2>1, <2>2, FaultsCount, Accounts
<1>3. CASE /\ UNCHANGED <<spc, reply, sends, stored>>
           /\ receiverFaults' = receiverFaults \/ receiverFaults' = receiverFaults + 1
  <2>1. Counted(m)' \subseteq Counted(m)
    BY <1>3, CountedShrinks DEF InMailbox
  <2>2. \A q \in Lines : Paid(q)' => Paid(q)
    BY <1>3 DEF Paid, InMailbox
  <2>3. MayRetry(m)' => MayRetry(m)
    BY <2>2, RetryOfReceiver
  <2> QED
    BY <1>1, <1>3, <1>t, <2>1, <2>3, FaultsCount, Accounts
<1> QED
  BY <1>2, <1>3

\* Nothing has been transmitted.
LEMMA CopiesInit == Init => CopiesInv
<1> SUFFICES ASSUME Init, NEW m \in Out!Mails PROVE CopiesAt(m)
  BY DEF CopiesInv
<1>1. \A n \in 1 .. MaxLines : [mail |-> m, n |-> n] \in Lines
  BY DEF Lines
<1>2. Counted(m) = {}
  BY <1>1 DEF Init, In!Init, Counted, InMailbox
<1>3. faults = 0 /\ receiverFaults = 0
  BY DEF Init, Out!Init, In!Init, In!DirectoryInit
<1> QED
  BY <1>2, <1>3, FS_EmptySet DEF CopiesAt

\* Every step of either node keeps the accounts of every mail.
LEMMA CopiesStep ==
  Known /\ SenderLoops /\ LineInv /\ SessionInv /\ CopiesInv /\ [Next]_vars
      => CopiesInv'
<1> SUFFICES ASSUME Known, SenderLoops, LineInv, SessionInv, CopiesInv, [Next]_vars,
                    NEW m \in Out!Mails, Out!OnceListed(m)
             PROVE  CopiesAt(m)'
  BY DEF CopiesInv, Out!OnceListed
<1>1. CopiesKnow(m)
  BY DEF CopiesInv, CopiesKnow
<1> QED
  BY <1>1, StepsOfReceiver, RunnerAccounts, SenderAccounts, TransmitAccounts,
     SessionAccounts, CrashAccounts

\* A recipient gets a second copy of a mail only when an answer was lost, a
\* statement failed or a node died, however many sessions for the mail overlap.
THEOREM CopiesAreFaults == Spec => []CopiesNeedFaults
<1>1. CopiesInv /\ Known /\ SessionInv => CopiesNeedFaults
  <2> SUFFICES ASSUME CopiesInv, Known, SessionInv, NEW m \in Out!Mails,
                      Out!OnceListed(m)
               PROVE  Cardinality(Deliveries(m)) <= 1 + faults + receiverFaults
    BY DEF CopiesNeedFaults
  <2>1. Deliveries(m) \subseteq Counted(m)
    BY DEF Deliveries, Counted, InMailbox, SessionInv, Lines
  <2>2. IsFiniteSet(Counted(m)) /\ Cardinality(Counted(m)) \in Nat
    BY CountedFinite
  <2>3. /\ IsFiniteSet(Deliveries(m))
        /\ Cardinality(Deliveries(m)) <= Cardinality(Counted(m))
    BY <2>1, <2>2, FS_Subset
  <2>4. Cardinality(Deliveries(m)) \in Nat
    BY <2>3, FS_CardinalityType
  <2>5. Cardinality(Counted(m)) + (IF MayRetry(m) THEN 1 ELSE 0)
            <= 1 + faults + receiverFaults
    BY DEF CopiesInv, CopiesAt
  <2>6. faults \in Nat /\ receiverFaults \in Nat
    BY DEF Known, SenderKnows, ReceiverKnows, Out!TypeOK, In!TypeOK,
           In!DirectoryTypeOK
  <2>7. \A i, j, k \in Nat, b \in 0 .. 1 : i <= j /\ j + b <= k => i <= k
    OBVIOUS
  <2>8. (IF MayRetry(m) THEN 1 ELSE 0) \in 0 .. 1 /\ 1 + faults + receiverFaults \in Nat
    BY <2>6
  <2> QED
    BY <2>2, <2>3, <2>4, <2>5, <2>7, <2>8
<1>2. Promise => LineInv
  BY DEF Promise
<1>3. Known => ReceiverKnows
  BY DEF Known
<1> QED
  BY <1>1, <1>2, <1>3, CopiesInit, CopiesStep, SessionInit, SessionStep, SenderGoesOn,
     PromiseKept, SenderPromises, ReceiverPromises, PTL DEF Spec, Known

-----------------------------------------------------------------------------
(* Refinement of Relay                                                     *)

Kept == {r.mail : r \in queue}

HasCopy == {m \in Out!Mails : Stored(m)}

\* What the sender does to its queue is what Relay allows, if it knows only
\* true things about the other node's mailboxes.
LEMMA QueueStep ==
  ASSUME Known, Promise, [Next]_vars, stored' = stored
  PROVE  [Abstract!RelayNext]_(Abstract!relayVars)
<1> USE EndToEndAssumption DEF Out!OutboundAssumption, OutP!OutboundAssumption
<1>1. HasCopy' = HasCopy
  BY DEF HasCopy, Stored
<1>2. [OutP!Next]_OutP!vars
  BY SenderStep, SameSenderStep
<1>3. [OutP!Abstract!RelayNext]_(OutP!Abstract!relayVars)
  BY <1>2, OutP!RelayStep DEF Known, SenderKnows
<1>4. Out!Mails = OutP!Mails
  BY DEF Out!Mails, OutP!Mails
<1>5. CASE Kept' = Kept
  BY <1>1, <1>5 DEF Abstract!relayVars, Kept, HasCopy
<1>6. ASSUME NEW m \in Out!Mails, Kept' = Kept \cup {m} PROVE Abstract!RelayNext
  BY <1>1, <1>6 DEF Abstract!RelayNext, Abstract!Accept, Kept, HasCopy
<1>7. ASSUME NEW m \in Out!Mails, m \in Kept, confirmed[m] > 0, Kept' = Kept \ {m}
      PROVE  Abstract!RelayNext
  <2>1. m \in HasCopy
    BY <1>7 DEF Promise, ConfirmedMeansStored, HasCopy
  <2> QED
    BY <1>1, <1>7, <2>1 DEF Abstract!RelayNext, Abstract!Release, Kept, HasCopy
<1>8. \/ Kept' = Kept
      \/ \E m \in Out!Mails : Kept' = Kept \cup {m}
      \/ \E m \in Out!Mails : m \in Kept /\ confirmed[m] > 0 /\ Kept' = Kept \ {m}
  BY <1>3, <1>4
  DEF OutP!Abstract!RelayNext, OutP!Abstract!relayVars, OutP!Abstract!Accept,
      OutP!Abstract!HandOver, OutP!Abstract!Release, Kept
<1> QED
  BY <1>5, <1>6, <1>7, <1>8

\* A copy is put into a mailbox while the sender's row is there, or when the
\* mail is stored already.
LEMMA MailboxStep ==
  ASSUME Known, Promise, [Next]_vars, stored' # stored
  PROVE  [Abstract!RelayNext]_(Abstract!relayVars)
<1>1. stored \subseteq stored'
      /\ \A x \in stored' \ stored : x.from \in Lines /\ spc[x.from] # "idle"
  BY StoredGrows DEF Known, ReceiverKnows
<1>2. \A m \in HasCopy' \ HasCopy : m \in Kept
  <2> SUFFICES ASSUME NEW m \in HasCopy', m \notin HasCopy PROVE m \in Kept
    OBVIOUS
  <2>1. PICK x \in stored' : x.from.mail = m
    BY DEF HasCopy, Stored
  <2>2. x \notin stored /\ ~Stored(m)
    BY <2>1 DEF HasCopy, Stored
  <2> QED
    BY <1>1, <2>1, <2>2 DEF Promise, UnderWay, Kept
<1>3. HasCopy \subseteq HasCopy'
  BY <1>1 DEF HasCopy, Stored
<1>4. queue' = queue
  BY DEF Next, vars, receiver, sender, Transmit, Unreached, Confirmed, Refused,
         LineLost, Sender, SenderCrash, Receiver
<1>5. Kept' = Kept
  BY <1>4 DEF Kept
<1>6. HasCopy' = HasCopy \cup (HasCopy' \ HasCopy)
  BY <1>3
<1>7. HasCopy' \ HasCopy \in SUBSET Kept
  BY <1>2
<1> QED
  BY <1>5, <1>6, <1>7 DEF Abstract!RelayNext, Abstract!HandOver, Kept, HasCopy

\* The queue of one node and the mailboxes of another implement at-least-once
\* delivery.
THEOREM TogetherAtLeastOnce == Spec => ImplementsRelay
<1>1. Init => Abstract!RelayInit
  BY DEF Init, Out!Init, In!Init, Stored, Abstract!RelayInit
<1>2. Known /\ Promise /\ [Next]_vars => [Abstract!RelayNext]_(Abstract!relayVars)
  BY QueueStep, MailboxStep
<1> QED
  BY <1>1, <1>2, PromiseKept, SenderPromises, ReceiverPromises, PTL
  DEF Spec, Known, ImplementsRelay, Abstract!RelaySpec

=============================================================================
