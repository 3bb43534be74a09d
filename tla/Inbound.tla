------------------------------- MODULE Inbound -------------------------------
(***************************************************************************)
(* Mail arriving from other nodes: SessionYgg (session_ygg.go) delivering  *)
(* into the mailboxes of the users in Directory, while administrators      *)
(* change that directory.                                                  *)
(*                                                                         *)
(* A peer transmits one message for a list of recipients.  The session     *)
(* refuses it unless every recipient has a valid stamp, then delivers to   *)
(* one recipient after the other: to the user of that address, or else to  *)
(* the user an alias of that name resolves to.  A recipient nobody can be  *)
(* found for ends the transmission with 451, after the earlier recipients  *)
(* have got their copies, and the peer may transmit again.                 *)
(*                                                                         *)
(* DeliverToUser is MailStore's three statements; its INSERT may be        *)
(* refused at any time, because of writers that are not modelled here.     *)
(***************************************************************************)
EXTENDS Directory, Sequences

CONSTANTS
    Peers,        \* connections from other nodes
    RcptsOf,      \* Peers -> Seq of recipients
    Stamped,      \* Peers -> the recipients its message has valid stamps for
    MaxSends      \* bound: transmissions of one peer

Names == Addresses \cup AliasNames

ASSUME InboundAssumption ==
    /\ RcptsOf \in [Peers -> Seq(Names)]
    /\ Stamped \in [Peers -> SUBSET Names]
    /\ MaxSends \in Nat

\* again: the recipient already had a copy of this transmission.
Copies == [from : Peers, send : Nat, left : Nat, user : UserIds, again : BOOLEAN]

VARIABLES
    spc,          \* where each session stands
    todo,         \* recipients not yet served, the current one first
    address,      \* the address DeliverToUser was called with
    aliased,      \* whether that address came from ResolveAlias
    inbox,        \* the user whose INBOX its SELECT found
    sends,        \* transmissions so far
    reply,        \* the answer to the last one
    stored        \* copies ever inserted; left = Len(todo) at that moment

session == <<spc, todo, address, aliased, inbox>>
inVars  == <<session, sends, reply, stored>>
vars    == <<dirVars, inVars>>

TypeOK ==
    /\ DirectoryTypeOK
    /\ spc \in [Peers -> {"idle", "select", "insert", "bump", "resolve"}]
    /\ todo \in [Peers -> Seq(Names)]
    /\ address \in [Peers -> Names \cup {<<>>}]
    /\ aliased \in [Peers -> BOOLEAN]
    /\ inbox \in [Peers -> 0 .. MaxUsers]
    /\ sends \in [Peers -> 0 .. MaxSends]
    /\ reply \in [Peers -> {"none", "250", "451", "550", "lost"}]
    /\ stored \subseteq Copies

Init ==
    /\ DirectoryInit
    /\ spc = [p \in Peers |-> "idle"]
    /\ todo = [p \in Peers |-> <<>>]
    /\ address = [p \in Peers |-> <<>>]
    /\ aliased = [p \in Peers |-> FALSE]
    /\ inbox = [p \in Peers |-> 0]
    /\ sends = [p \in Peers |-> 0]
    /\ reply = [p \in Peers |-> "none"]
    /\ stored = {}

StepTo(p, step) == spc' = [spc EXCEPT ![p] = step]

\* DeliverToUser(a, msgBytes) is called.
Try(p, a, fromAlias) ==
    /\ StepTo(p, "select")
    /\ address' = [address EXCEPT ![p] = a]
    /\ aliased' = [aliased EXCEPT ![p] = fromAlias]
    /\ inbox' = [inbox EXCEPT ![p] = 0]

\* Data returns r.
Answer(p, r) ==
    /\ StepTo(p, "idle")
    /\ todo' = [todo EXCEPT ![p] = <<>>]
    /\ address' = [address EXCEPT ![p] = <<>>]
    /\ aliased' = [aliased EXCEPT ![p] = FALSE]
    /\ inbox' = [inbox EXCEPT ![p] = 0]
    /\ reply' = [reply EXCEPT ![p] = r]

\* The loop goes on with the recipients in rest.
Serve(p, rest) ==
    IF rest = <<>>
    THEN Answer(p, "250")
    ELSE /\ todo' = [todo EXCEPT ![p] = rest]
         /\ Try(p, Head(rest), FALSE)
         /\ reply' = [reply EXCEPT ![p] = "none"]

-----------------------------------------------------------------------------

\* A peer transmits until it is told 250; a lost 250 makes it transmit again.
\* A node whose key does not match its address is refused at MAIL: no peer.
Transmit(p) ==
    /\ spc[p] = "idle"
    /\ sends[p] < MaxSends
    /\ IF reply[p] = "250" THEN Fault ELSE UNCHANGED faults
    /\ sends' = [sends EXCEPT ![p] = @ + 1]

AllStamped(p) == \A i \in DOMAIN RcptsOf[p] : RcptsOf[p][i] \in Stamped[p]

\* The message passes and the delivery loop starts.
Data(p) ==
    /\ Transmit(p)
    /\ AllStamped(p)
    /\ Serve(p, RcptsOf[p])
    /\ UNCHANGED <<directory, admins, stored>>

\* 550: a recipient without a valid stamp, before anything is delivered.
DataUnpaid(p) ==
    /\ Transmit(p)
    /\ ~AllStamped(p)
    /\ Answer(p, "550")
    /\ UNCHANGED <<directory, admins, stored>>

\* Mutant: a failed delivery through the alias counts as done.
FailedQuietly(p) ==
    IF aliased[p]
    THEN Serve(p, Tail(todo[p]))
    ELSE /\ StepTo(p, "resolve")
         /\ UNCHANGED <<todo, address, aliased, inbox, reply>>

\* DeliverToUser returned an error: try the alias, or give up with 451.
Failed(p) ==
    IF aliased[p]
    THEN Answer(p, "451")
    ELSE /\ StepTo(p, "resolve")
         /\ UNCHANGED <<todo, address, aliased, inbox, reply>>

\* DeliverToUser's SELECT of the INBOX of that address.
Select(p) ==
    /\ spc[p] = "select"
    /\ address[p] \in Addresses
    /\ users[address[p]] # 0
    /\ StepTo(p, "insert")
    /\ inbox' = [inbox EXCEPT ![p] = users[address[p]]]
    /\ UNCHANGED <<dirVars, todo, address, aliased, sends, reply, stored>>

SelectNobody(p) ==
    /\ spc[p] = "select"
    /\ address[p] \in Addresses => users[address[p]] = 0
    /\ Failed(p)
    /\ UNCHANGED <<dirVars, sends, stored>>

Again(p) ==
    \E x \in stored : x.from = p /\ x.send = sends[p] /\ x.left = Len(todo[p])

\* Its INSERT; the user may have been deleted since the SELECT.
Insert(p) ==
    /\ spc[p] = "insert"
    /\ inbox[p] \in LiveUsers
    /\ stored' = stored \cup {[from |-> p, send |-> sends[p], left |-> Len(todo[p]),
                               user |-> inbox[p], again |-> Again(p)]}
    /\ StepTo(p, "bump")
    /\ UNCHANGED <<dirVars, todo, address, aliased, inbox, sends, reply>>

InsertRefused(p) ==
    /\ spc[p] = "insert"
    /\ Failed(p)
    /\ UNCHANGED <<dirVars, sends, stored>>

\* Mutant: the loop stays at a recipient it has delivered through an alias.
BumpAndStay(p) ==
    /\ spc[p] = "bump"
    /\ Serve(p, IF aliased[p] THEN todo[p] ELSE Tail(todo[p]))
    /\ UNCHANGED <<dirVars, sends, stored>>

\* Its UPDATE of uid_next; delivered, next recipient.
Bump(p) ==
    /\ spc[p] = "bump"
    /\ Serve(p, Tail(todo[p]))
    /\ UNCHANGED <<dirVars, sends, stored>>

\* The UPDATE fails: DeliverToUser reports an error for a mail it stored.
BumpLost(p) ==
    /\ spc[p] = "bump"
    /\ Fault
    /\ Failed(p)
    /\ UNCHANGED <<directory, admins, sends, stored>>

\* The users an alias resolves to: at most one, aliases.alias being UNIQUE.
Targets(n) ==
    {a \in Addresses : \E r \in aliases : r.alias = n /\ r.user = users[a]}

ResolveAlias(p) ==
    /\ spc[p] = "resolve"
    /\ \E a \in Targets(Head(todo[p])) : Try(p, a, TRUE)
    /\ UNCHANGED <<dirVars, todo, sends, reply, stored>>

ResolveNobody(p) ==
    /\ spc[p] = "resolve"
    /\ Targets(Head(todo[p])) = {}
    /\ Answer(p, "451")
    /\ UNCHANGED <<dirVars, sends, stored>>

\* SIGTERM or a crash of the server: the peers' connections break.
Crash ==
    /\ Fault
    /\ spc' = [p \in Peers |-> "idle"]
    /\ todo' = [p \in Peers |-> <<>>]
    /\ address' = [p \in Peers |-> <<>>]
    /\ aliased' = [p \in Peers |-> FALSE]
    /\ inbox' = [p \in Peers |-> 0]
    /\ reply' = [p \in Peers |-> IF spc[p] = "idle" THEN reply[p] ELSE "lost"]
    /\ UNCHANGED <<directory, admins, sends, stored>>

Session(p) ==
    \/ Data(p) \/ DataUnpaid(p) \/ Select(p) \/ SelectNobody(p)
    \/ Insert(p) \/ InsertRefused(p) \/ Bump(p) \/ BumpLost(p)
    \/ ResolveAlias(p) \/ ResolveNobody(p)

Next ==
    \/ \E p \in Peers : Session(p)
    \/ DirectoryNext /\ UNCHANGED inVars
    \/ Crash

Spec == Init /\ [][Next]_vars

-----------------------------------------------------------------------------
(* What a node promises its peers                                          *)

\* The copy that transmission n of p left for the recipient at position i.
HasCopy(p, n, i) ==
    \E x \in stored :
        x.from = p /\ x.send = n /\ x.left = Len(RcptsOf[p]) - i + 1

\* A peer that is told 250 may forget the message: in that very transmission
\* every recipient, direct or through an alias, got a copy in a mailbox,
\* however administrators changed users and aliases between two recipients.
AcceptedMeansStored ==
    \A p \in Peers : reply[p] = "250" =>
        \A i \in DOMAIN RcptsOf[p] : HasCopy(p, sends[p], i)

\* Trying the alias after a failed delivery, or the next recipient, never
\* gives one recipient two copies of one transmission.  A lost UPDATE does,
\* since DeliverToUser then reports an error for a mail it stored.
OnceEach ==
    faults = 0 =>
        \A x, y \in stored :
            x.from = y.from /\ x.send = y.send /\ x.left = y.left =>
                x = y /\ ~x.again

\* A name resolves to at most one user, so the row QueryRow happens to take
\* is the only one (mariadb.go:421-431).
OneTarget ==
    \A n \in AliasNames : \A a, b \in Targets(n) : a = b

=============================================================================
