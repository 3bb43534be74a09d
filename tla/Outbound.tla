------------------------------- MODULE Outbound -------------------------------
(***************************************************************************)
(* The outgoing side of the mail server: internal/smtpsender/sender.go     *)
(* over the system user's Outbox and the queue table of mariadb.go.        *)
(*                                                                         *)
(* A submission session (session_local.go:45-95) calls QueueFor, which for *)
(* each recipient either delivers into a local INBOX or stores a stamped   *)
(* copy in Outbox, adds a queue row and wakes the destination's runner.    *)
(* One runner per destination takes a snapshot of its rows, tries each     *)
(* mail maxRetries times and cleans up what the remote node accepted.  A   *)
(* manager wakes runners from the table once a minute.  The process may    *)
(* die between any two database statements; only the tables survive.       *)
(*                                                                         *)
(* A mail is the copy one session addressed to one recipient.  Deliveries  *)
(* into users' INBOX and Sent folders run MailStore's three statements and *)
(* appear here by their outcome: they may be refused at any time.          *)
(***************************************************************************)
EXTENDS Integers, Sequences

CONSTANTS
    Sessions,     \* local SMTP sessions, each submitting one message
    Rcpts,        \* recipient addresses
    Dests,        \* remote nodes, by IPv6 address
    Local,        \* recipients that are users of this node
    DestOf,       \* Rcpts -> Dests \cup {NoDest}: host part or hex@yggmail key
    NoDest,       \* the recipients QueueFor logs and skips
    Envelope,     \* Sessions -> Seq(Rcpts)
    maxRetries,   \* sender.go:188
    MaxFaults     \* bound: lost replies, failed statements and crashes

ASSUME OutboundAssumption ==
    /\ Local \subseteq Rcpts
    /\ NoDest \notin Dests
    /\ DestOf \in [Rcpts -> Dests \cup {NoDest}]
    /\ Envelope \in [Sessions -> Seq(Rcpts)]
    /\ maxRetries \in Nat \ {0}
    /\ MaxFaults \in Nat

Mails == [from : Sessions, rcpt : Rcpts]
Rows  == [dest : Dests, id : Nat, mail : Mails]

VARIABLES
    outbox,     \* messages in system's Outbox: uid and body
    uidNext,    \* uid_next of that mailbox
    queue,      \* rows of the queue table
    inbox,      \* copies delivered to local users
    sent,       \* copies filed in their senders' Sent folders
    arrived,    \* how often each copy was accepted by its destination
    accepted,   \* copies whose queue row was ever inserted
    unmade,     \* copies QueueFor only logged: it could not make them
    spc,        \* where each session stands in QueueFor
    left,       \* recipients it still has to treat, the current one first
    slot,       \* uid its MailCreate is using
    rpc,        \* where each destination's runner stands, "off" if not running
    refs,       \* rows of its snapshot it has not looked at yet
    cur,        \* the row it is working on
    body,       \* the mail it read from Outbox for that row
    tries,      \* attempts made for that row, the current one included
    scan,       \* destinations the manager still has to wake
    faults

tables   == <<outbox, uidNext, queue>>
ends     == <<inbox, sent, arrived, accepted, unmade>>
sessions == <<spc, left, slot>>
runners  == <<rpc, refs, cur, body, tries>>
vars     == <<tables, ends, sessions, runners, scan, faults>>

TypeOK ==
    /\ outbox \subseteq [id : Nat, mail : Mails]
    /\ uidNext \in Nat
    /\ queue \subseteq Rows
    /\ inbox \subseteq Mails
    /\ sent \subseteq Mails
    /\ arrived \in [Mails -> Nat]
    /\ accepted \subseteq Mails
    /\ unmade \subseteq Mails
    /\ spc \in [Sessions -> {"idle", "route", "insert", "bump", "enqueue",
                             "wake", "done", "failed"}]
    /\ left \in [Sessions -> Seq(Rcpts)]
    /\ slot \in [Sessions -> Nat]
    /\ rpc \in [Dests -> {"off", "select", "next", "send", "dequeue",
                          "pending", "file", "delete"}]
    /\ refs \in [Dests -> SUBSET Rows]
    /\ cur \in [Dests -> Rows \cup {<<>>}]
    /\ body \in [Dests -> Mails \cup {<<>>}]
    /\ tries \in [Dests -> 0 .. maxRetries]
    /\ scan \subseteq Dests
    /\ faults \in 0 .. MaxFaults

\* The copy session s is treating: its message, stamped for one recipient.
Mail(s) == [from |-> s, rcpt |-> Head(left[s])]

Init ==
    /\ outbox = {} /\ uidNext = 1 /\ queue = {}
    /\ inbox = {} /\ sent = {} /\ accepted = {} /\ unmade = {}
    /\ arrived = [m \in Mails |-> 0]
    /\ spc = [s \in Sessions |-> "idle"]
    /\ left = [s \in Sessions |-> <<>>]
    /\ slot = [s \in Sessions |-> 0]
    /\ rpc = [d \in Dests |-> "off"]
    /\ refs = [d \in Dests |-> {}]
    /\ cur = [d \in Dests |-> <<>>]
    /\ body = [d \in Dests |-> <<>>]
    /\ tries = [d \in Dests |-> 0]
    /\ scan = {}
    /\ faults = 0

Fault == faults < MaxFaults /\ faults' = faults + 1

StepTo(s, p) == spc' = [spc EXCEPT ![s] = p]

RunnerTo(d, p) == rpc' = [rpc EXCEPT ![d] = p]

\* Mutant: queueFor starts run without testing running.
WakeAlways(d) == RunnerTo(d, "select")

\* queueFor: LoadOrStore the Queue, start run if running can be set.
Wake(d) == rpc' = [rpc EXCEPT ![d] = IF @ = "off" THEN "select" ELSE @]

-----------------------------------------------------------------------------
(* QueueFor                                                                *)

Submit(s) ==
    /\ spc[s] = "idle"
    /\ StepTo(s, "route")
    /\ left' = [left EXCEPT ![s] = Envelope[s]]
    /\ UNCHANGED <<tables, ends, slot, runners, scan, faults>>

\* continue: on to the next recipient.
NextRcpt(s) ==
    /\ StepTo(s, "route")
    /\ left' = [left EXCEPT ![s] = Tail(@)]
    /\ slot' = [slot EXCEPT ![s] = 0]

DeliverLocally(s) ==
    /\ spc[s] = "route" /\ left[s] # <<>>
    /\ Head(left[s]) \in Local
    /\ inbox' = inbox \cup {Mail(s)}
    /\ NextRcpt(s)
    /\ UNCHANGED <<tables, sent, arrived, accepted, unmade, runners, scan, faults>>

\* DeliverToUser failed: an unknown user, or any error for a known one, which
\* may even have stored the mail.
NotDelivered(s) ==
    inbox' \in {inbox} \cup
        (IF Head(left[s]) \in Local THEN {inbox \cup {Mail(s)}} ELSE {})

\* No route to the recipient: log it and go on.
SkipRcpt(s) ==
    /\ spc[s] = "route" /\ left[s] # <<>>
    /\ DestOf[Head(left[s])] = NoDest
    /\ NotDelivered(s)
    /\ NextRcpt(s)
    /\ UNCHANGED <<tables, sent, arrived, accepted, unmade, runners, scan, faults>>

\* The message cannot be read, stamped or written again (message.Read,
\* stamp.Generate, WriteTo): log it and go on.
CopyFailed(s) ==
    /\ spc[s] = "route" /\ left[s] # <<>>
    /\ DestOf[Head(left[s])] # NoDest
    /\ NotDelivered(s)
    /\ unmade' = unmade \cup {Mail(s)}
    /\ NextRcpt(s)
    /\ UNCHANGED <<tables, sent, arrived, accepted, runners, scan, faults>>

\* Stamp the copy; MailCreate's SELECT.
ReadNext(s) ==
    /\ spc[s] = "route" /\ left[s] # <<>>
    /\ DestOf[Head(left[s])] # NoDest
    /\ NotDelivered(s)
    /\ StepTo(s, "insert")
    /\ slot' = [slot EXCEPT ![s] = uidNext]
    /\ UNCHANGED <<tables, sent, arrived, accepted, unmade, left, runners, scan,
                   faults>>

\* MailCreate's INSERT at the uid its SELECT returned.
Insert(s) ==
    /\ spc[s] = "insert"
    /\ \A x \in outbox : x.id # slot[s]
    /\ outbox' = outbox \cup {[id |-> slot[s], mail |-> Mail(s)]}
    /\ StepTo(s, "bump")
    /\ UNCHANGED <<uidNext, queue, ends, left, slot, runners, scan, faults>>

\* Mutant: QueueFor logs the error and goes on with the next recipient.
InsertRejectedSkips(s) ==
    /\ spc[s] = "insert"
    /\ \E x \in outbox : x.id = slot[s]
    /\ NextRcpt(s)
    /\ UNCHANGED <<tables, ends, runners, scan, faults>>

\* MailCreate is refused because another session used the uid, or a statement
\* of it fails: QueueFor returns the error.
InsertRejected(s) ==
    /\ spc[s] = "insert"
    /\ \/ (\E x \in outbox : x.id = slot[s]) /\ UNCHANGED faults
       \/ Fault
    /\ StepTo(s, "failed")
    /\ UNCHANGED <<tables, ends, left, slot, runners, scan>>

\* MailCreate's UPDATE, whose error it ignores.
Bump(s) ==
    /\ spc[s] = "bump"
    /\ \/ uidNext' = uidNext + 1 /\ UNCHANGED faults
       \/ Fault /\ UNCHANGED uidNext
    /\ StepTo(s, "enqueue")
    /\ UNCHANGED <<outbox, queue, ends, left, slot, runners, scan>>

Enqueue(s) ==
    /\ spc[s] = "enqueue"
    /\ queue' = queue \cup {[dest |-> DestOf[Head(left[s])], id |-> slot[s],
                             mail |-> Mail(s)]}
    /\ accepted' = accepted \cup {Mail(s)}
    /\ StepTo(s, "wake")
    /\ UNCHANGED <<outbox, uidNext, inbox, sent, arrived, unmade, left, slot,
                   runners, scan, faults>>

EnqueueFailed(s) ==
    /\ spc[s] = "enqueue"
    /\ Fault
    /\ StepTo(s, "failed")
    /\ UNCHANGED <<tables, ends, left, slot, runners, scan>>

WakeRunner(s) ==
    /\ spc[s] = "wake"
    /\ Wake(DestOf[Head(left[s])])
    /\ NextRcpt(s)
    /\ UNCHANGED <<tables, ends, refs, cur, body, tries, scan, faults>>

\* return nil: the client is told its message was accepted.
Finish(s) ==
    /\ spc[s] = "route" /\ left[s] = <<>>
    /\ StepTo(s, "done")
    /\ UNCHANGED <<tables, ends, left, slot, runners, scan, faults>>

-----------------------------------------------------------------------------
(* manager                                                                 *)

\* Mutant: the manager wakes only the runners that are running.
ManagerListRunning ==
    /\ scan = {}
    /\ scan' = {d \in {r.dest : r \in queue} : rpc[d] # "off"}
    /\ UNCHANGED <<tables, ends, sessions, runners, faults>>

ManagerList ==
    /\ scan = {}
    /\ scan' = {r.dest : r \in queue}
    /\ UNCHANGED <<tables, ends, sessions, runners, faults>>

ManagerWake(d) ==
    /\ d \in scan
    /\ scan' = scan \ {d}
    /\ Wake(d)
    /\ UNCHANGED <<tables, ends, sessions, refs, cur, body, tries, faults>>

-----------------------------------------------------------------------------
(* run                                                                     *)

\* Mutant: the query names another destination.
SnapshotElsewhere(d) ==
    /\ rpc[d] = "select"
    /\ refs' = [refs EXCEPT ![d] = {r \in queue : r.dest # d}]
    /\ RunnerTo(d, "next")
    /\ UNCHANGED <<tables, ends, sessions, cur, body, tries, scan, faults>>

\* QueueMailIDsForDestination: the rows this run will look at, in any order.
Snapshot(d) ==
    /\ rpc[d] = "select"
    /\ refs' = [refs EXCEPT ![d] = {r \in queue : r.dest = d}]
    /\ RunnerTo(d, "next")
    /\ UNCHANGED <<tables, ends, sessions, cur, body, tries, scan, faults>>

SnapshotFailed(d) ==
    /\ rpc[d] = "select"
    /\ Fault
    /\ RunnerTo(d, "off")
    /\ UNCHANGED <<tables, ends, sessions, refs, cur, body, tries, scan>>

\* MailSelect finds the row's mail and the first attempt begins.
Take(d) ==
    /\ rpc[d] = "next"
    /\ \E r \in refs[d], x \in outbox :
          /\ x.id = r.id
          /\ refs' = [refs EXCEPT ![d] = @ \ {r}]
          /\ cur' = [cur EXCEPT ![d] = r]
          /\ body' = [body EXCEPT ![d] = x.mail]
    /\ tries' = [tries EXCEPT ![d] = 1]
    /\ RunnerTo(d, "send")
    /\ UNCHANGED <<tables, ends, sessions, scan, faults>>

\* Cannot read mail: no such message, or the statement failed.
Skip(d) ==
    /\ rpc[d] = "next"
    /\ \E r \in refs[d] :
          /\ \/ (\A x \in outbox : x.id # r.id) /\ UNCHANGED faults
             \/ Fault
          /\ refs' = [refs EXCEPT ![d] = @ \ {r}]
    /\ UNCHANGED <<tables, ends, sessions, rpc, cur, body, tries, scan>>

Forget(d) ==
    /\ cur' = [cur EXCEPT ![d] = <<>>]
    /\ body' = [body EXCEPT ![d] = <<>>]
    /\ tries' = [tries EXCEPT ![d] = 0]
    /\ RunnerTo(d, "next")

\* The destinations of the mails in M have accepted them once more.
Arrive(M) == arrived' = [m \in Mails |-> arrived[m] + (IF m \in M THEN 1 ELSE 0)]

\* sendViaIPv6 returns nil.
Sent(d) ==
    /\ rpc[d] = "send"
    /\ Arrive({body[d]})
    /\ RunnerTo(d, "dequeue")
    /\ UNCHANGED <<tables, inbox, sent, accepted, unmade, sessions, refs, cur,
                   body, tries, scan, faults>>

\* Mutant: one attempt too many.
RetryOnceMore(d) ==
    /\ tries[d] <= maxRetries
    /\ tries' = [tries EXCEPT ![d] = @ + 1]
    /\ UNCHANGED <<rpc, cur, body>>

Retry(d) ==
    /\ tries[d] < maxRetries
    /\ tries' = [tries EXCEPT ![d] = @ + 1]
    /\ UNCHANGED <<rpc, cur, body>>

\* Mutant: the continue after the abandoned mail is missing.
AbandonFallsThrough(d) ==
    /\ tries[d] = maxRetries
    /\ RunnerTo(d, "dequeue")
    /\ UNCHANGED <<cur, body, tries>>

Abandon(d) == tries[d] = maxRetries /\ Forget(d)

\* sendViaIPv6 returns an error: the node is away or refuses, or the
\* connection broke before or after the node accepted the mail.  Retry, or
\* abandon the mail for this run.
SendFailed(d) ==
    /\ rpc[d] = "send"
    /\ \/ UNCHANGED <<arrived, faults>>
       \/ Fault /\ (UNCHANGED arrived \/ Arrive({body[d]}))
    /\ Retry(d) \/ Abandon(d)
    /\ UNCHANGED <<tables, inbox, sent, accepted, unmade, sessions, refs, scan>>

\* QueueDeleteDestinationForID, whose error is only logged.
Dequeue(d) ==
    /\ rpc[d] = "dequeue"
    /\ \/ /\ queue' = {r \in queue : ~(r.dest = d /\ r.id = cur[d].id)}
          /\ UNCHANGED faults
       \/ Fault /\ UNCHANGED queue
    /\ RunnerTo(d, "pending")
    /\ UNCHANGED <<outbox, uidNext, ends, sessions, refs, cur, body, tries, scan>>

\* Mutant: the runner does not ask whether the message is still queued.
NotPendingUnasked(d) ==
    /\ rpc[d] = "pending"
    /\ RunnerTo(d, "file")
    /\ UNCHANGED <<tables, ends, sessions, refs, cur, body, tries, scan, faults>>

\* QueueSelectIsMessagePendingSend: no other row names the message.
NotPending(d) ==
    /\ rpc[d] = "pending"
    /\ \A r \in queue : r.id # cur[d].id
    /\ RunnerTo(d, "file")
    /\ UNCHANGED <<tables, ends, sessions, refs, cur, body, tries, scan, faults>>

StillPending(d) ==
    /\ rpc[d] = "pending"
    /\ \/ (\E r \in queue : r.id = cur[d].id) /\ UNCHANGED faults
       \/ Fault
    /\ Forget(d)
    /\ UNCHANGED <<tables, ends, sessions, refs, scan>>

\* DeliverToSent, whose error is only logged.
FileSent(d) ==
    /\ rpc[d] = "file"
    /\ sent' \in {sent, sent \cup {body[d]}}
    /\ RunnerTo(d, "delete")
    /\ UNCHANGED <<tables, inbox, arrived, accepted, unmade, sessions, refs, cur,
                   body, tries, scan, faults>>

\* Mutant: MailDelete is given the wrong folder.
DeleteMailElsewhere(d) ==
    /\ rpc[d] = "delete"
    /\ Forget(d)
    /\ UNCHANGED <<tables, ends, sessions, refs, scan, faults>>

\* MailDelete, whose error is ignored.
DeleteMail(d) ==
    /\ rpc[d] = "delete"
    /\ \/ outbox' = {x \in outbox : x.id # cur[d].id} /\ UNCHANGED faults
       \/ Fault /\ UNCHANGED outbox
    /\ Forget(d)
    /\ UNCHANGED <<uidNext, queue, ends, sessions, refs, scan>>

\* The deferred MailExpunge (nothing flags mails in system's Outbox) and
\* running.Store(false).
Stop(d) ==
    /\ rpc[d] = "next" /\ refs[d] = {}
    /\ RunnerTo(d, "off")
    /\ UNCHANGED <<tables, ends, sessions, refs, cur, body, tries, scan, faults>>

-----------------------------------------------------------------------------

\* The mails on their way to a node, which goes on without us.
Flying == {body[d] : d \in {e \in Dests : rpc[e] = "send"}}

\* SIGTERM or a crash: every goroutine stops where it is, the client of an
\* unfinished session sees its connection break, and the tables remain.
Crash ==
    /\ Fault
    /\ \E M \in SUBSET Flying : Arrive(M)
    /\ spc' = [s \in Sessions |->
                 IF spc[s] \in {"idle", "done"} THEN spc[s] ELSE "failed"]
    /\ rpc' = [d \in Dests |-> "off"]
    /\ refs' = [d \in Dests |-> {}]
    /\ cur' = [d \in Dests |-> <<>>]
    /\ body' = [d \in Dests |-> <<>>]
    /\ tries' = [d \in Dests |-> 0]
    /\ scan' = {}
    /\ UNCHANGED <<tables, inbox, sent, accepted, unmade, left, slot>>

Session(s) ==
    \/ Submit(s) \/ DeliverLocally(s) \/ SkipRcpt(s) \/ CopyFailed(s)
    \/ ReadNext(s) \/ Insert(s) \/ InsertRejected(s) \/ Bump(s)
    \/ Enqueue(s) \/ EnqueueFailed(s) \/ WakeRunner(s) \/ Finish(s)

Runner(d) ==
    \/ Snapshot(d) \/ SnapshotFailed(d) \/ Take(d) \/ Skip(d)
    \/ Sent(d) \/ SendFailed(d) \/ Dequeue(d)
    \/ NotPending(d) \/ StillPending(d) \/ FileSent(d) \/ DeleteMail(d)
    \/ Stop(d)

Manager == ManagerList \/ \E d \in Dests : ManagerWake(d)

Next ==
    \/ \E s \in Sessions : Session(s)
    \/ \E d \in Dests : Runner(d)
    \/ Manager
    \/ Crash

Spec == Init /\ [][Next]_vars

-----------------------------------------------------------------------------
(* What the sender promises                                                *)

\* Every queue row names a message that is in Outbox and is the very copy the
\* row was queued for: uid reuse, failed deletes and concurrent runners never
\* make a row point to nothing or to somebody else's mail (sender.go:201).
RowHasItsMail == \A r \in queue : [id |-> r.id, mail |-> r.mail] \in outbox

\* A mail whose row was once committed reached its destination or is still
\* queued, whatever statements failed and wherever the process died.
AcceptedNotLost ==
    \A m \in accepted : arrived[m] > 0 \/ \E r \in queue : r.mail = m

\* When the client is told its message was accepted, every recipient was
\* delivered locally, was queued, or is one QueueFor logs and skips: an address
\* it cannot route, or a copy it could not read, stamp or write.  No refused
\* MailCreate or queue row and no crash is passed over like that.
DoneMeansHandled ==
    \A s \in Sessions : spc[s] = "done" =>
        \A i \in DOMAIN Envelope[s] :
            LET r == Envelope[s][i] IN
                \/ [from |-> s, rcpt |-> r] \in inbox \cup accepted \cup unmade
                \/ DestOf[r] = NoDest

\* The session that is about to queue Outbox message i.
Queueing(s, i) == spc[s] \in {"bump", "enqueue"} /\ slot[s] = i

\* The runner that has sent Outbox message i and is cleaning up.
Cleaning(d, i) == rpc[d] \in {"pending", "file", "delete"} /\ cur[d].id = i

\* Only a failed statement or a crash leaves a mail in Outbox that nobody
\* will ever look at again.
OrphanNeedsFault ==
    faults = 0 =>
        \A x \in outbox :
            \/ \E r \in queue : r.id = x.id
            \/ \E s \in Sessions : Queueing(s, x.id)
            \/ \E d \in Dests : Cleaning(d, x.id)

\* The client did not name the recipient twice.
OnceListed(m) ==
    \A i, j \in DOMAIN Envelope[m.from] :
        Envelope[m.from][i] = m.rcpt /\ Envelope[m.from][j] = m.rcpt => i = j

\* A recipient gets a mail twice only if an answer was lost, a statement
\* failed or the process died: the runners and the manager never send it twice.
DuplicateNeedsFault ==
    \A m \in Mails : OnceListed(m) => arrived[m] <= 1 + faults

\* A copy appears in its sender's Sent folder only after the remote took it.
SentOnlyAfterArrival == \A m \in sent : arrived[m] > 0

\* A mail leaves Outbox only after its destination accepted it.
KeptUntilArrived ==
    [][\A x \in outbox : x \notin outbox' => arrived[x.mail] > 0]_vars

-----------------------------------------------------------------------------
(* Refinement                                                              *)

\* The node is responsible for a mail as long as a queue row names it.
Abstract == INSTANCE Relay WITH
    kept <- {r.mail : r \in queue},
    arrived <- {m \in Mails : arrived[m] > 0}

\* The queue, its runners and the manager, under every modelled fault,
\* implement at-least-once delivery.
ImplementsRelay == Abstract!RelaySpec

=============================================================================
