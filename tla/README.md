# Glasir-MTA in TLA+

Glasir-MTA is a mail server for the Yggdrasil overlay network: one Go process
that takes mail from the owner's mail clients by SMTP, queues it, carries it to
other nodes, receives mail from them, and shows mailboxes over IMAP. All state
that outlives the process is in one MariaDB database. This directory holds TLA+
models of it, the TLC runs that check them and the TLAPS proofs about them.
`PROJECT.json` lists the runs, the theorems, which definition models which lines
of the code, and the hazards the properties are for.

Two facts shape every module. The methods of `mariadb.go` are, with few
exceptions, several autocommitted statements, so calls of different goroutines
interleave *between statements*: in the models each statement is a step. And
`main.go:156-161` returns on SIGTERM without waiting for anybody, so a stop is
the same as a crash: every goroutine ends between two of its statements.

## The system's parts

| Part | State | Operations | Meets |
|---|---|---|---|
| Mailbox tables (`mariadb.go`, `schema.sql`) | `mailboxes` (id, name, `uid_next`), `messages` (mailbox, uid, flags, body) | `MailCreate`, `DeliverToUser`, `DeliverToSent`, `MailMove`, flags, expunge, folder commands | everything else |
| Outgoing queue (`smtpsender/sender.go`) | system's Outbox, the `queue` table; in memory one runner per destination with its snapshot and attempts | `QueueFor`, `queueFor`, `run`, `manager` | submission sessions, mailbox tables, remote nodes |
| Submission (`session_local.go`) | sender and recipients of a connection | `Mail`, `Rcpt`, `Data`, which calls `QueueFor` | queue |
| Reception (`session_ygg.go`) | sender and recipients of a connection | `Mail` (identity), `Rcpt`, `Data` (stamps, delivery loop) | directory, mailbox tables |
| Directory (`mariadb.go`, `cmd_users.go`, `cmd_alias.go`) | `users`, `aliases` with the flag of the node alias | `adduser`, `deluser`, `alias add/assign/remove`, `ResolveAlias` | reception; runs in other processes |
| IMAP (`imapserver/mailbox.go`, `user.go`) | none but the folder name of a connection | sequence sets, STORE, COPY, MOVE, APPEND, EXPUNGE, folder commands, STATUS, SEARCH, FETCH | mailbox tables |
| Stamp (`stamp.go`) | none; the date is in the stamp | `Generate`, `Verify` (a proof of work, valid until 48 hours after midnight of its date) | queue, reception |
| Identity, TLS (`yggtls.go`, `crypto_ygg.go`, `smtp.go`), login, NOTIFY, configuration, console, quota reports | keys and settings | checks and reports that change no mail | |

What is hard here: uid numbers are handed out by read, insert, increment with
nothing held in between; a mail, its queue row and its Outbox copy are removed by
separate statements; a runner works from an old snapshot while sessions add rows;
answers of remote nodes are lost and mails sent again; the alias, the user and the
mailbox of a recipient are looked up one after the other while an administrator
changes them; IMAP writes back what it read some statements ago, by folder name
and uid. `hazards` in `PROJECT.json` lists each at its line.

## The modules

**MailStore** - `mailboxes` and `messages` under arbitrary concurrent callers.
`box`, `nextId`, `uidNext`, `messages` are the tables; `pc`, `job`, `target`,
`slot` are where each goroutine stands and what its SELECT returned. `ReadNext`,
`Insert`, `Bump` are the three statements of the three deliver methods (with
`InsertRejected` for a key violation and `BumpLost` for the failed UPDATE, which
`MailCreate` ignores and the others report), `MoveRead` and `MoveCommit` the
snapshot and the commit of `MailMove`'s transaction, the rest one statement each.
`told` and `gone` record what callers were answered and what owners removed.

**Mailboxes** - what MailStore promises, without tables, uids or goroutines:
folders that hold sets of mails and change in one step (`Put`, `Transfer`,
`Discard`, `Create`, `Drop`, `Rename`), a mail in one folder at a time, a removed
mail gone for good, and answers that say whether the mail was put. A fault
(`Disturb`) may excuse one answer. MailStore implements it with `folders` = for each
name the mails of the rows of its mailbox: a delivery takes effect at its INSERT, a
move at its commit.

**SeqSets** - `getIDsFromSeqSet` and `MailIDForSeq`: what a range means on the
tables as they are at that moment. Imap and MailView extend it.

**MailView** - MailStore, its goroutines, and one client that reads: `Status`
(UIDNEXT), `FetchUids`, `FetchNumbers` and `FetchFound` (a SEARCH's answer) begin
a FETCH, `Resolve` looks up one sequence number and `Show` selects one row, each a
statement with anything in between. `reported` is what STATUS last said, `shown`
all the client ever saw; `uneven` collects the mailboxes that lost a row or
counted a uid for a MOVE of nothing, where numbers and uids part.

**Imap** - the IMAP commands that change mail, as loops of MailStore's
statements: `Issue`/`Resolve` are `getIDsFromSeqSet` (uid sets are computed,
sequence numbers looked up one statement each), `Peek`/`Write` STORE,
`Begin`/`Create`/`Created`/`AppendFlag` APPEND, `Peek`/`BeginCopy`/.../`CopyFlags`
COPY, `BeginMove`/`Move` MOVE. What the clients meant is history, written by
`Remember` beside the commands and read by none of them. `named` are the uids a
running STORE of `\Deleted` meant when it was issued (for a set of sequence
numbers, the uids that had those numbers then, whatever `Resolve` finds later),
`goal` the mails a running STORE against `\Deleted` meant, as long as no other
command on the folder overlaps it, and `asked` the mails some client wants
`\Deleted`: named by a STORE, or about to be stored so, until a STORE that kept its
`goal` to the end takes the flag back. `stable` says that names, uids and numbers
have kept their meaning (no folder lost its name, no uid in `given` was given out
again, no number slid before it was looked up), `copied` that a COPY wrote
`\Deleted`.

**Outbound** - `QueueFor`, the runner, the manager, over Outbox and the queue
table. A mail is the copy one session addressed to one recipient. Session steps
follow `QueueFor` statement by statement; `Snapshot`, `Take`, `Sent`,
`SendFailed`, `Dequeue`, `NotPending`, `FileSent`, `DeleteMail`, `Stop` follow
`run`; `SendFailed` covers a node that is away, one that refuses, and one whose
answer is lost after it accepted. `QueueFor` answers for less than one might think:
it logs and passes over a recipient it cannot route (`SkipRcpt`, lines 101-104 and
116-120) and one whose copy it cannot parse, stamp or write (`CopyFailed`, lines
128-149), and then returns nil all the same, so the client is told that the message
was accepted for a recipient who will never get it. `unmade` collects the copies
lost in the second way.

**Relay** - what a node promises for mail to other nodes: take responsibility,
hand over at least once, release only afterwards. Outbound implements it with
`kept` = the mails a queue row names, `arrived` = those a node has accepted.

**Postage** - Outbound with a clock and the stamps of `stamp.go`: QueueFor stamps
each copy when it stores it (`Stamps`), the stamp carries the date without the
hour (`Midnight`), and at every transmission the destination takes only what is
not older than 48 hours (`OnlyPaid`). Time is counted in half days.

**Directory** - users and aliases, the administrators' commands statement by
statement (`adduser` has four).

**Inbound** - SessionYgg's `Data` over Directory: the stamps, the loop over the
recipients, `DeliverToUser`, then `ResolveAlias` and `DeliverToUser` again, 451
and the peer's next transmission.

**EndToEnd** - Outbound of one node and Inbound of another. A connection is a peer
of Inbound, one mail long. `Transmit` begins a session of the receiver on the next
connection, `Confirmed` and `Refused` hand its answer to the runner, `Unreached`
and `LineLost` are connections that break before and after the message was
transmitted, `SenderCrash` and `Receiver` what either node does by itself. A
session whose runner has hung up goes on; the next attempt overlaps with it.

The `MC...` modules give the constants small values. `...Proofs` modules hold the
theorems. Operators marked "Mutant" are plausible bugs in the definition that
follows them; no action uses them, and each run's properties are known to fail
when one replaces it.

Abstractions shared by all: bodies, headers and addresses are opaque; of the
flags only `\Deleted` matters; mails are distinct values and each is handed over
once; mailboxes of different users never meet in a statement, so folder names
stand for (user, folder). In Outbound and Inbound, deliveries into users'
mailboxes appear by their outcome: MailStore shows what these may be (an INSERT
may be refused at any time), and that is what they assume. In Inbound a peer is a
node whose identity was verified at MAIL; in EndToEnd it is one connection of the
other node.

## What TLC checks

| Run | Question | States |
|---|---|---|
| `mailstore` | With two goroutines in two folders and one lost statement or crash, is acknowledged mail kept, never doubled, and does the uid counter recover? Do the statements add up to folders that change in one step (Mailboxes)? | 0.73 M |
| `imap` | With two connections and any two commands (or one and a fault or an expunge) among appends, is `\Deleted` only on mail that a command's set meant when it was issued, and on none once an undisturbed STORE has taken it back? Is every step one MailStore allows? | 0.37 M |
| `sync` | One client that lists a folder or fetches from its last UIDNEXT on, among two goroutines that deliver, move, delete and expunge in two folders (never dropped or renamed): does it miss a mail, and what do sequence numbers mean? | 1.01 M |
| `outbound` | Two sessions, two nodes, recipients that are local, remote and unroutable, copies that cannot be made, one fault anywhere: is a queued mail ever lost, sent twice without cause, filed or deleted too early? Does the queue implement Relay? | 0.99 M |
| `postage` | One session, two mails to one node, two and a half days, one fault: does every mail arrive or expire, and what stays in the queue? | 0.30 M |
| `inbound` | Two peers that transmit twice, two administrators: does 250 mean that every recipient has exactly one copy? | 1.43 M |
| `end_to_end` | A mail to an alias of another node, one fault on each side, up to three connections: is it lost, or stored twice without cause? Do the two nodes implement Relay, with mailboxes for `arrived`? | 0.49 M |

and five runs whose counterexample is the result, each against a sentence of the
repository (the findings):

| Run | The code |
|---|---|
| `mailbox_wedge` | MailCreate ignores that its UPDATE of `uid_next` failed (a stop in its place would do the same): the idle mailbox refuses every later delivery |
| `uid_reuse` | lets two deliveries read one `uid_next`; with the first mail shown and removed before the second is inserted, a client is shown two mails under one uid. The run removes it by a MailDelete; STORE and EXPUNGE remove a row just as well |
| `copy_flags` | COPY writes the copy's flags into the source folder: another mail becomes `\Deleted` |
| `alias_lost` | `alias assign` to an unknown address succeeds and takes the alias from its owner |
| `alias_race` | an `adduser` sees a free node alias, an `alias assign` gives it to another user, the `adduser` takes it from them; two `adduser` commands would do it, too, in one step more |

Some things the properties say are less than one might hope, because the code does
no more:

* `StuckForGood`: a mail the log calls abandoned (`sender.go:226`) keeps its row,
  and the manager tries it again a minute later; after its stamp has expired every
  attempt is refused with 550, nothing removes the row, and the sender of the mail
  is never told. `OnlyExpiredStay` is the other half: nothing else stays.
* `DoneMeansHandled` counts a recipient whose copy could not be made as handled
  (`unmade`): `QueueFor` leaves such a recipient out silently. What it does say is
  that no refused `MailCreate`, no failed queue row and no restart is passed over
  like that: the client is then told of an error, or of nothing.
* A delivery or submission that fails half-way leaves the copies it has made, and
  the next attempt makes them again: `OnceEach` counts one transmission, and a
  submission made again is a further session with mails of its own.
* `ListingIsComplete` promises nothing for a FETCH by number in a folder that lost a
  row before it began: `*` is `uid_next - 1` (`mailbox.go:43`), which is then no
  number, and the command fails; `SequenceIsUid` says where it is right. Nor if it
  loses one while numbers are still to be looked up, each by a statement of its own
  (`mailbox.go:45`): if uid 1 is expunged after number 1 was looked up and another
  mail arrives, number 2 is uid 3, and uid 2, there all along, is passed over. It
  takes three uids, one more than `sync` has; the proof met it first. By uid there is
  no such exception.
* `NothingArrivesBehind` excludes folders with a row removed or a MOVE of nothing:
  `MailMove` counts a uid even if its UPDATE matched no row, and a delivery that
  still holds that uid then appears below a UIDNEXT already reported.

*Premises.* Several invariants speak of runs without faults (`faults = 0`):
`UidBelowNext`, `QuiescentAccepts`, `RefusedNotStored`, `OnceEach`,
`OrphanNeedsFault`, `ListingIsComplete`. One fault does break them, as
`mailbox_wedge` shows for the uid counter; what survives every fault is stated
without the premise (`AcknowledgedKept`, `OneCopy`, `AcceptedNotLost`,
`KeptUntilArrived`, `AcceptedMeansStored`, `NeverLost`, `SentMeansStored`,
`SequenceIsUid`, `NothingArrivesBehind`). `DuplicateNeedsFault` and
`CopiesNeedFaults` count: one extra copy for each fault at most; they and
`StuckForGood` speak of recipients named once in their envelope (`OnceListed`).
`DeletedWasAsked` supposes that folder names, uids and sequence numbers are stable
(`stable`) and that no COPY wrote `\Deleted` (`copied`): flags are written by folder
name and uid, and a number is looked up by a statement of its own after the command
was issued, so without stability the claim is false, and `copy_flags` shows what
COPY does. What it takes to say is that a number still in its place leads to the
mail it meant, that a uid read some statements ago is written in the right folder,
and that no command, late or slow, flags a mail of which a later STORE has taken the
flag back. Of two STOREs that overlap, either may undo the other
(`mailbox.go:229-245`), and the property does not say which wins.
`NothingArrivesBehind` speaks of `Protected` folders, which are neither dropped nor
renamed: a folder renamed to the name brings rows of its own.

*Bounds.* Two goroutines, sessions, peers or connections: every race above is
between two. Two mails and uids up to 2, so that a counter can collide and be
passed; two folders for moves, copies and renames. `MaxFaults` = 1 puts one lost
statement or crash at every possible point; two crashes in a row add nothing a
restart has not already met, as only tables survive. In `outbound` `maxRetries` is
2 instead of 10: one retry and the abandonment. In `postage` and `end_to_end` it is
1, so that a failed mail is abandoned at once and the next attempt is the
manager's: what a retry in the same run does is in `outbound`. `MaxCommands` = 2
lets any two IMAP commands interleave, and `FewFaults` cuts the behaviours of
`imap` after two disturbances (a command, a fault, an EXPUNGE that removed mail),
and where with the second a name, uid or number has changed its meaning or a
COPY has written `\Deleted`, which `DeletedWasAsked` is not about; APPEND is not counted, the mails bound it. In `imap`
and `sync` the set is `1:*`, which covers one id and two; `uid_reuse` adds `*`
alone and `copy_flags` uses `2`. `sync` has one look (`MaxLooks`) because two looks
are two times one: `StillLooking` stops following a client that has had it and
knows no UIDNEXT to wait behind. It has no faults (its properties that survive
faults are proved for any number). `MaxTime` = 5 half days is the first time at
which a stamp of the first day has expired. `MaxLines` = 3 connections allow
more copies than no fault, or one, could explain. `MaxUid` stops new statement sequences above
the bound, not those in progress. Deadlock is checked in `postage` and `outbound`
(an idle process is not stuck: the manager can run); in the others callers may
stop calling, or a bound is reached.

*Fairness* (`postage`). Goroutines are scheduled (WF of each session and runner),
the manager's timer fires (WF of its query and of each wake-up), and a node that is
tried again and again accepts at last what is still paid for (SF of `PostSent`). No
fault is required to happen and the clock is not required to move: if it does, a
mail may expire instead, which `EventualFate` allows. Only the last assumption is
about something outside this process.

## What is proved

For any number of folders, mails, goroutines, sessions, nodes, peers, connections,
users, commands and faults, from the named assumptions on the constants
(`BoundsAssumption`, `OutboundAssumption`, `InboundAssumption`,
`EndToEndAssumption`, those of Directory, Imap, MailView and Postage) alone:

* **MailStoreProofs**, in four layers. `TypeInv` adds to the types what a
  goroutine holds between two statements, and that the uid it read is at most the
  counter. `CounterInv` adds the foreign key: a mailbox id that is gone is never
  used again, without which a late INSERT could meet a fresh counter. It gives
  `UidBelowNext`, hence `QuiescentAccepts`. `MailInv` adds that a pending mail is
  carried by exactly one goroutine and is not yet stored before its INSERT: with
  it `AcknowledgedKept`, `RefusedNotStored` and `OneCopy` are inductive.
  `FolderInv` adds the two keys (a mailbox has one name, a uid one row) and that no
  call still carries a removed mail to its INSERT. With all four, every statement is
  a step of Mailboxes or invisible to it: `ImplementsMailboxes`. Where a mail was put
  by an INSERT, what a MOVE matched (at most one row) and which name a mailbox id
  read statements ago has by now all come from the invariant.
* **MailViewProofs**. `EvenBox` is about one mailbox that never lost a row or
  counted one for nothing: its uids are 1..N, the counter is at N while a writer
  owes the increment and at N or N + 1 otherwise, and at most one writer owes it.
  The UNIQUE key refuses every slot up to N and no slot is above the counter, so
  the next row can only be N + 1: `SequenceIsUid`. With what STATUS reported
  (`ReportInv`) the same argument gives `NothingArrivesBehind`. `ListingIsComplete`
  needs that an acknowledged mail is below the counter: `CountedOrOwed` ties the one
  row at `uid_next` to the goroutine that owes the increment *for that mail* and has
  not answered yet, so `1:*` names every acknowledged uid. `ListInv` then accounts
  for every mail that is due: shown, about to be selected by its uid, or one of the
  numbers to look up in an even mailbox, where `MailIDForSeq` of k, the row with
  k - 1 smaller uids, is uid k (a bijection between those uids and 1..k-1).
* **ImapProofs**. `CommandInv` (each command in progress names folders and uids
  the tables may have) shows that every step of every IMAP command is a step of
  MailStore or leaves it alone: `ImapSpec => Spec`. What MailStoreProofs proves
  then holds under IMAP; `CommandsKeepMail` states it for `AcknowledgedKept`, and
  `CommandsChangeFolders` for `ImplementsMailboxes`.
* **ImapFlagsProofs**. A command about to write `\Deleted` knows the mail only by
  folder name and uid, or only by a number it has still to look up. While names
  are stable a pair names one mail as long as there is a row (`SameMailAt`), and the
  number of a row is one more than the number of smaller uids (`Lookup`, a
  bijection), so what a command has still to treat stays within what it meant when
  it was issued (`DueKept`, `MeantInv`). `GoalStep` follows a STORE against
  `\Deleted`: while nobody overlaps it, each mail of its `goal` is unflagged or
  still due, so when it returns none of them is flagged. `FlagInv` puts both
  together: every row that is `\Deleted`, and every flag a command holds to write,
  belongs to a mail in `asked`, and a mail whose flag is taken back is none of
  these: `DeletedWasAsked`.
* **OutboundProofs**. `RowHasItsMail` is not inductive: a second runner or a
  session may be about to delete or to queue an id. `ClaimInv` says that Outbox
  ids and rows are unique, that an id a session is about to queue has no row and
  no runner, and what a runner that works on an id knows about it. On top of it
  `ArrivalInv` (a runner that cleans up has seen its mail accepted) gives
  `AcceptedNotLost`, `SentOnlyAfterArrival`, the action property
  `KeptUntilArrived` and, step by step, the refinement `ImplementsRelay`. A loop
  invariant of QueueFor (every recipient it has passed is handled or left out) gives
  `DoneMeansHandled`; who answers for each message of Outbox, `OrphanNeedsFault`;
  and an account of each mail's arrivals and pending attempts against the faults
  so far, `DuplicateNeedsFault`.
* **PostageProofs**. A stamped sender takes only steps of Outbound
  (`StampsOnlyRestrict`), so the invariants above hold of it. With them, a runner
  that would delete an expired mail's row must have seen it accepted, which
  `OnlyPaid` excludes: `StuckForGood`.
* **InboundProofs**. Alias names are unique (`AliasUnique`), so `OneTarget` holds
  and AssignYggmailAlias keeps `OneNodeOwner`. `LoopInv` is the loop invariant of
  the delivery loop (every recipient already passed has its copy), which gives
  `AcceptedMeansStored`; `Ahead` (no copy is stored for a recipient not yet
  passed) gives `OnceEach`.
* **EndToEndProofs**. Each node of the composition implements its own
  specification (`ImplementsOutbound`, `ImplementsInbound`), so the theorems of
  OutboundProofs and InboundProofs hold of it, instantiated. `Promise` adds what
  crosses the wire: a runner waits on a connection of the mail it sends, and a
  session still under way is for a mail that is queued or stored. It gives
  `ConfirmedMeansStored`; with the sender's `AcceptedNotLost`, `NeverLost`; with
  `SentOnlyAfterArrival`, `SentMeansStored`; and the refinement of Relay in which a
  mail has arrived when a mailbox of the other node holds it. `CopiesNeedFaults` is
  an account. `Counted` are the connections that stored a copy of the mail, or still
  may; `MayRetry` says that the sender may yet open one more. `CopiesInv`: their
  number, and one if `MayRetry`, is at most 1 + the faults of both nodes. A mail
  may be sent again when every runner is `Free` for one of its rows: it is not about
  to dequeue that row, and the connection it waits on, if any, is `Paid`, that is, it
  left no copy or a fault keeps its 250 away. Whatever lets the sender try again while
  a session still runs - a lost line, a restart, a failed `Dequeue` - is a fault and
  is charged. The finite sums are by FiniteSetTheorems.

Only model-checked: liveness (`EventualFate`, `OnlyExpiredStay`), since it needs
fairness, which the provers do not reach. Every other property of a passing run is
the statement of a theorem. The counterexamples of the five other runs are TLC's.

## What is not modelled

* FETCH's contents (its sequence number is the body's length, `mariadb.go:192`),
  LIST, the flags `\Seen`, `\Answered`, `\Flagged`, MESSAGES and UNSEEN: nothing
  kept depends on them. SEARCH ignores its criteria and, asked for numbers, answers
  uids (`mailbox.go:193`); the model has its answer as uids. SUBSCRIBE writes a
  column `schema.sql` does not have.
* A set that ends at 2^32 - 1: its loop counter wraps and the loop never ends. It
  is deterministic, and far from any uid a run could reach.
* The stamp's hash, salt and cost are data. Both nodes read one clock.
* A node that mails itself (after a refused local delivery `QueueFor` may queue a
  mail for the node it runs on). Outbound shows that the mail is queued then;
  what follows is EndToEnd with one database under both halves.
* `SessionRemote` and `BackendModeExternal`: `main.go` never constructs that mode.
  NOTIFY is only reached from there.
* Quotas are stored and printed; no delivery reads them.
* TLS, key derivation, login, configuration, console input and output, MIME
  rewriting: no state that the other parts depend on.

## What could follow

EndToEnd with expiring stamps (Postage on the sending side) and liveness across the
wire; both halves over one MailStore for a node that mails itself; Outbound's and
Inbound's deliveries as calls of Mailboxes instead of outcomes.
