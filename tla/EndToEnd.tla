------------------------------ MODULE EndToEnd ------------------------------
(***************************************************************************)
(* Two nodes: the queue of one (Outbound) transmits to the overlay         *)
(* sessions of the other (Inbound), over connections that break and nodes  *)
(* that die independently of each other.                                   *)
(*                                                                         *)
(* sendViaIPv6 opens a connection for every attempt (sender.go:260) and    *)
(* sends one mail for one recipient over it.  The runner then waits for    *)
(* the answer to DATA.  When the connection breaks after the message was   *)
(* transmitted, SessionYgg notices nothing and goes on delivering, while   *)
(* the runner, or a restarted process, already tries again.                *)
(*                                                                         *)
(* A connection is a peer of Inbound: the n-th one for a mail.  The copies *)
(* the sender knows to be accepted are the ones it got a 250 for.  Every   *)
(* mail has a stamp that has not expired; Postage is about the others.     *)
(***************************************************************************)
EXTENDS Integers, Sequences, FiniteSets

CONSTANTS
    \* the sending node: see Outbound
    Sessions, Rcpts, Dests, Local, DestOf, NoDest, Envelope, maxRetries,
    MaxFaults,
    \* the receiving node: see Directory and Inbound
    Addresses, Generic, NodeAliases, Admins, MaxUsers, MaxReceiverFaults,
    MaxLines      \* bound: connections on which a mail is transmitted

VARIABLES
    outbox, uidNext, queue, ownInbox, sent, confirmed, accepted, unmade,
    submit, left, slot, rpc, refs, cur, body, tries, scan, faults,
    users, nextUser, aliases, apc, adding, receiverFaults,
    spc, todo, address, aliased, inbox, sends, reply, stored,
    line          \* per runner: the connection it waits on, 0 for none

Out == INSTANCE Outbound WITH
    inbox <- ownInbox, arrived <- confirmed, spc <- submit

Lines == [mail : Out!Mails, n : 1 .. MaxLines]

RcptsOf == [p \in Lines |-> <<p.mail.rcpt>>]

Stamped == [p \in Lines |-> {p.mail.rcpt}]

In == INSTANCE Inbound WITH
    Peers <- Lines, MaxSends <- 1,
    MaxFaults <- MaxReceiverFaults, faults <- receiverFaults

ASSUME EndToEndAssumption ==
    /\ Out!OutboundAssumption
    /\ In!DirectoryAssumption
    /\ In!InboundAssumption
    /\ MaxLines \in Nat

sender   == <<outbox, uidNext, queue, ownInbox, sent, confirmed, accepted,
              unmade, submit, left, slot, rpc, refs, cur, body, tries, scan,
              faults>>
receiver == <<users, nextUser, aliases, apc, adding, receiverFaults,
              spc, todo, address, aliased, inbox, sends, reply, stored>>
vars     == <<sender, receiver, line>>

TypeOK ==
    /\ Out!TypeOK
    /\ In!TypeOK
    /\ line \in [Dests -> 0 .. MaxLines]

Init ==
    /\ Out!Init
    /\ In!Init
    /\ line = [d \in Dests |-> 0]

\* The connection runner d waits on.
Peer(d) == [mail |-> body[d], n |-> line[d]]

Waiting(d) == rpc[d] = "send" /\ line[d] # 0

HangUp(d) == line' = [line EXCEPT ![d] = 0]

\* The node can be reached and takes the message up to the end of DATA, on
\* the next connection.
Transmit(d) ==
    /\ rpc[d] = "send" /\ line[d] = 0
    /\ \E p \in Lines :
          /\ p.mail = body[d]
          /\ \A q \in Lines : q.mail = p.mail => (sends[q] = 0 <=> q.n >= p.n)
          /\ In!Data(p)
          /\ line' = [line EXCEPT ![d] = p.n]
    /\ UNCHANGED sender

\* The connection cannot be made, or breaks before the message is complete.
Unreached(d) ==
    /\ line[d] = 0
    /\ Out!SendFailed(d)
    /\ confirmed' = confirmed /\ faults' = faults
    /\ UNCHANGED <<receiver, line>>

\* Mutant: any answer to DATA counts as success.
AnyAnswer(d) ==
    /\ Waiting(d)
    /\ reply[Peer(d)] # "none"
    /\ Out!Sent(d)
    /\ HangUp(d)
    /\ UNCHANGED receiver

\* 250 comes back: w.Close returns nil.
Confirmed(d) ==
    /\ Waiting(d)
    /\ reply[Peer(d)] = "250"
    /\ Out!Sent(d)
    /\ HangUp(d)
    /\ UNCHANGED receiver

\* 451 comes back, or the other node dies before it answers.
Refused(d) ==
    /\ Waiting(d)
    /\ reply[Peer(d)] \in {"451", "lost"}
    /\ Out!SendFailed(d)
    /\ confirmed' = confirmed /\ faults' = faults
    /\ HangUp(d)
    /\ UNCHANGED receiver

\* Mutant: the runner gives up while the answer is still on its way.
Impatient(d) ==
    /\ Waiting(d)
    /\ Out!SendFailed(d)
    /\ confirmed' = confirmed /\ faults' = faults
    /\ HangUp(d)
    /\ UNCHANGED receiver

\* The connection breaks before the answer comes back, whatever it is.
LineLost(d) ==
    /\ Waiting(d)
    /\ Out!SendFailed(d)
    /\ confirmed' = confirmed
    /\ faults' # faults
    /\ HangUp(d)
    /\ UNCHANGED receiver

Sender ==
    /\ \/ \E s \in Sessions : Out!Session(s)
       \/ \E d \in Dests : rpc[d] # "send" /\ Out!Runner(d)
       \/ Out!Manager
    /\ UNCHANGED <<receiver, line>>

SenderCrash ==
    /\ Out!Crash
    /\ confirmed' = confirmed
    /\ line' = [d \in Dests |-> 0]
    /\ UNCHANGED receiver

\* What the other node does by itself: its sessions go on, administrators
\* change its directory, it dies.
Receiver ==
    /\ \/ \E p \in Lines : In!Session(p) /\ sends' = sends
       \/ In!DirectoryNext
          /\ UNCHANGED <<spc, todo, address, aliased, inbox, sends, reply, stored>>
       \/ In!Crash
    /\ UNCHANGED <<sender, line>>

Next ==
    \/ \E d \in Dests :
          Transmit(d) \/ Unreached(d) \/ Confirmed(d) \/ Refused(d) \/ LineLost(d)
    \/ Sender
    \/ SenderCrash
    \/ Receiver

Spec == Init /\ [][Next]_vars

-----------------------------------------------------------------------------
(* What two nodes promise together                                         *)

\* A mailbox of the other node has got the mail.
Stored(m) == \E x \in stored : x.from.mail = m

\* What the runner was told is true: a 250 is never about another mail,
\* another attempt, or a session that had not finished.
ConfirmedMeansStored == \A m \in Out!Mails : confirmed[m] > 0 => Stored(m)

\* A mail whose row was once committed is in a mailbox of the other node, or
\* its row is still there, whichever of the two nodes died or was cut off.
NeverLost ==
    \A m \in accepted : Stored(m) \/ \E r \in queue : r.mail = m

\* The Sent folder lists only mails that are in their recipient's mailbox.
SentMeansStored == \A m \in sent : Stored(m)

\* The transmissions of a mail that left a copy of it.
Deliveries(m) == {x.from.n : x \in {y \in stored : y.from.mail = m}}

\* A recipient has a mail twice only if an answer got lost, a statement
\* failed or a node died, also when sessions for the same mail overlap
\* because the sender has given up on the earlier one.
CopiesNeedFaults ==
    \A m \in Out!Mails : Out!OnceListed(m) =>
        Cardinality(Deliveries(m)) <= 1 + faults + receiverFaults

-----------------------------------------------------------------------------
(* Refinement                                                              *)

\* Each node keeps its own promises in the company of the other, and the two
\* together implement at-least-once delivery into a mailbox.
ImplementsOutbound == Out!Spec

ImplementsInbound == In!Spec

Abstract == INSTANCE Relay WITH
    Mails <- Out!Mails,
    kept <- {r.mail : r \in queue},
    arrived <- {m \in Out!Mails : Stored(m)}

ImplementsRelay == Abstract!RelaySpec

=============================================================================
