--------------------------------- MODULE Imap ---------------------------------
(***************************************************************************)
(* The IMAP commands that change mail (internal/imapserver/mailbox.go,     *)
(* user.go) on top of the tables of MailStore.                             *)
(*                                                                         *)
(* Each thread is a connection to the same account.  Its commands run one  *)
(* after the other, but a command is a loop of database statements, so     *)
(* commands of two connections interleave between any two of them.  STORE  *)
(* reads a mail's flags in one statement and writes them in another; COPY  *)
(* reads, runs MailCreate's three statements and writes flags; a sequence  *)
(* number costs a statement of its own before the command begins.  A       *)
(* delivery by SMTP differs from an APPEND without flags only in the answer *)
(* to a lost UPDATE (MailStore), so it is not repeated here.               *)
(*                                                                         *)
(* Of the flags only \Deleted matters.  A copy made by COPY is a mail of   *)
(* its own.  A command for a folder that is not there changes nothing.     *)
(***************************************************************************)
EXTENDS SeqSets, Functions

CONSTANTS
    Sets,       \* sequence sets of the commands: start and stop, 0 for "*"
    MaxCommands \* bound: sequence-set and folder commands ever issued

ASSUME ImapAssumption ==
    /\ Sets \subseteq [start : 1 .. MaxUid, stop : 0 .. MaxUid]
    /\ MaxCommands \in Nat

\* What STORE does to \Deleted: +FLAGS (\Deleted), -FLAGS (\Deleted), +FLAGS
\* or -FLAGS of other flags, FLAGS with and without \Deleted.
StoreOps == {"add", "remove", "keep", "set", "clear"}

SetOps == StoreOps \cup {"copy", "move"}

Ops == SetOps \cup {"append"}

VARIABLES
    stage,      \* where each command stands
    cmd,        \* its operation, folder and destination
    nums,       \* sequence numbers getIDsFromSeqSet has still to look up
    ids,        \* uids the command has still to treat, the current one first
    read,       \* whether the mail it has read, or is to append, is \Deleted
    pid,        \* the uid MailCreate returned
    issued,     \* commands counted against MaxCommands
    \* history, which no command reads: what the clients meant
    stable,     \* whether names, uids and numbers still mean what they did
    given,      \* folder name and uid of every row there ever was
    named,      \* the uids a STORE of \Deleted meant when it was issued
    goal,       \* the mails a STORE against \Deleted meant, while it is alone
    asked,      \* mails to be \Deleted by a client's wish that still stands
    copied      \* whether COPY ever wrote \Deleted

command  == <<stage, cmd, nums, ids, read, pid>>
history  == <<stable, given, named, goal, asked, copied>>
imapVars == <<vars, command, issued, history>>

NoCmd == [op |-> "none"]

Commands == [op : Ops, box : Names, dest : Names]

ImapTypeOK ==
    /\ TypeOK
    /\ stage \in [Threads -> {"idle", "resolve", "treat", "write", "copy",
                              "create", "flags", "move"}]
    /\ cmd \in [Threads -> Commands \cup {NoCmd}]
    /\ nums \in [Threads -> Seq(Nat)]
    /\ ids \in [Threads -> Seq(Nat \ {0})]
    /\ read \in [Threads -> BOOLEAN]
    /\ pid \in [Threads -> Nat]
    /\ issued \in 0 .. MaxCommands
    /\ stable \in BOOLEAN
    /\ given \subseteq Names \X Nat
    /\ named \in [Threads -> SUBSET Nat]
    /\ goal \in [Threads -> SUBSET Mails]
    /\ asked \subseteq Mails
    /\ copied \in BOOLEAN

\* The row of uid u in the folder of that name: none or one.
Row(n, u) == {x \in Stored(box[n]) : x.uid = u}

ImapInit ==
    /\ Init
    /\ stage = [t \in Threads |-> "idle"]
    /\ cmd = [t \in Threads |-> NoCmd]
    /\ nums = [t \in Threads |-> <<>>]
    /\ ids = [t \in Threads |-> <<>>]
    /\ read = [t \in Threads |-> FALSE]
    /\ pid = [t \in Threads |-> 0]
    /\ issued = 0
    /\ stable = TRUE
    /\ given = {}
    /\ named = [t \in Threads |-> {}]
    /\ goal = [t \in Threads |-> {}]
    /\ asked = {}
    /\ copied = FALSE

StageTo(t, s) == stage' = [stage EXCEPT ![t] = s]

\* The command returns, with or without an error.
Done(t) ==
    /\ StageTo(t, "idle")
    /\ cmd' = [cmd EXCEPT ![t] = NoCmd]
    /\ nums' = [nums EXCEPT ![t] = <<>>]
    /\ ids' = [ids EXCEPT ![t] = <<>>]
    /\ read' = [read EXCEPT ![t] = FALSE]
    /\ pid' = [pid EXCEPT ![t] = 0]

\* The loop goes on with the next id.
NextId(t) ==
    /\ StageTo(t, "treat")
    /\ ids' = [ids EXCEPT ![t] = Tail(@)]
    /\ read' = [read EXCEPT ![t] = FALSE]
    /\ pid' = [pid EXCEPT ![t] = 0]
    /\ UNCHANGED <<cmd, nums>>

CountCommand == issued < MaxCommands /\ issued' = issued + 1

Treating(t, ops) == stage[t] = "treat" /\ ids[t] # <<>> /\ cmd[t].op \in ops

-----------------------------------------------------------------------------
(* The ids of a command (SeqSets)                                          *)

\* A set of uids is its own list of ids; sequence numbers are looked up.  The
\* uids stay within the bound MaxUid.
Issue(t, op, n, dest, s, uid) ==
    /\ stage[t] = "idle"
    /\ box[n] # 0
    /\ Numbers(n, s) # <<>>
    /\ Stop(n, s) <= MaxUid
    /\ CountCommand
    /\ StageTo(t, IF uid THEN "treat" ELSE "resolve")
    /\ cmd' = [cmd EXCEPT ![t] = [op |-> op, box |-> n, dest |-> dest]]
    /\ nums' = [nums EXCEPT ![t] = IF uid THEN <<>> ELSE Numbers(n, s)]
    /\ ids' = [ids EXCEPT ![t] = IF uid THEN Numbers(n, s) ELSE <<>>]
    /\ UNCHANGED <<vars, read, pid>>

Resolve(t) ==
    /\ stage[t] = "resolve"
    /\ \E x \in AtSeq(cmd[t].box, Head(nums[t])) :
          ids' = [ids EXCEPT ![t] = Append(@, x.uid)]
    /\ nums' = [nums EXCEPT ![t] = Tail(@)]
    /\ StageTo(t, IF Tail(nums[t]) = <<>> THEN "treat" ELSE "resolve")
    /\ UNCHANGED <<vars, cmd, read, pid>>

-----------------------------------------------------------------------------
(* STORE                                                                   *)

\* MailSelect of the current id, by STORE +FLAGS, STORE -FLAGS and COPY.
Peek(t) ==
    /\ Treating(t, {"add", "remove", "keep", "copy"})
    /\ \E x \in Row(cmd[t].box, Head(ids[t])) : read' = [read EXCEPT ![t] = x.deleted]
    /\ StageTo(t, IF cmd[t].op = "copy" THEN "copy" ELSE "write")
    /\ UNCHANGED <<vars, cmd, nums, ids, pid>>

\* Mutant: the UPDATE forgets which folder the uid is of.
WriteFlagsAnywhere(n, u, deleted) ==
    /\ messages' = {Flagged(x, IF x.uid = u THEN deleted ELSE x.deleted) : x \in messages}
    /\ UNCHANGED <<box, nextId, uidNext, calls, seen, faults>>

\* MailUpdateFlags; it matches no row when there is none of that uid.
WriteFlags(n, u, deleted) ==
    IF \E x \in Row(n, u) : x.deleted # deleted
    THEN UpdateFlags(n, u, deleted)
    ELSE UNCHANGED vars

\* STORE writes what it read and changed; STORE FLAGS writes without reading.
Write(t) ==
    /\ stage[t] = "write" \/ Treating(t, {"set", "clear"})
    /\ WriteFlags(cmd[t].box, Head(ids[t]),
                  \/ cmd[t].op \in {"add", "set"}
                  \/ cmd[t].op = "keep" /\ read[t])
    /\ NextId(t)

-----------------------------------------------------------------------------
(* APPEND and COPY                                                         *)

\* APPEND of a mail with or without \Deleted.
Begin(t, n, m, deleted) ==
    /\ stage[t] = "idle"
    /\ ReadNext(t, n, m, "MailCreate")
    /\ StageTo(t, "create")
    /\ cmd' = [cmd EXCEPT ![t] = [op |-> "append", box |-> n, dest |-> n]]
    /\ read' = [read EXCEPT ![t] = deleted]
    /\ UNCHANGED <<nums, ids, pid>>

\* COPY calls MailCreate: the copy is to have the flags of the original.
BeginCopy(t, m) ==
    /\ stage[t] = "copy"
    /\ ReadNext(t, cmd[t].dest, m, "MailCreate")
    /\ StageTo(t, "create")
    /\ UNCHANGED <<cmd, nums, ids, read, pid>>

Create(t) ==
    /\ stage[t] = "create"
    /\ Insert(t)
    /\ UNCHANGED command

CreateRejected(t) ==
    /\ stage[t] = "create"
    /\ InsertRejected(t)
    /\ Done(t)

\* The uid is counted or not; MailCreate returns it either way.
Created(t) ==
    /\ stage[t] = "create"
    /\ Bump(t) \/ BumpLost(t)
    /\ StageTo(t, "flags")
    /\ pid' = [pid EXCEPT ![t] = slot[t]]
    /\ UNCHANGED <<cmd, nums, ids, read>>

\* CreateMessage writes one flag after the other, each over the ones before.
AppendFlag(t) ==
    /\ stage[t] = "flags" /\ cmd[t].op = "append"
    /\ \E deleted \in {FALSE, read[t]} : WriteFlags(cmd[t].box, pid[t], deleted)
    /\ UNCHANGED command

\* CopyMessages writes the flags to the copy's uid in the folder it copied
\* from.
CopyFlags(t) ==
    /\ stage[t] = "flags" /\ cmd[t].op = "copy"
    /\ WriteFlags(cmd[t].box, pid[t], read[t])
    /\ NextId(t)

-----------------------------------------------------------------------------
(* MOVE                                                                    *)

\* MoveMessages calls MailMove.  From a folder named Outbox it also deletes
\* queue rows of destination "Outbox" (mailbox.go:291-295), which match nothing:
\* a destination is the address of a node.
BeginMove(t) ==
    /\ Treating(t, {"move"})
    /\ MoveRead(t, cmd[t].box, Head(ids[t]), cmd[t].dest)
    /\ StageTo(t, "move")
    /\ UNCHANGED <<cmd, nums, ids, read, pid>>

\* Mutant: the second UPDATE is forgotten.
MoveUncounted(t) ==
    /\ stage[t] = "move"
    /\ CanMove(t)
    /\ MoveRows(t)
    /\ Return(t)
    /\ NextId(t)
    /\ UNCHANGED <<box, nextId, uidNext, seen, faults>>

Move(t) ==
    /\ stage[t] = "move"
    /\ MoveCommit(t)
    /\ NextId(t)

MoveFailed(t) ==
    /\ stage[t] = "move"
    /\ MoveAborted(t)
    /\ Done(t)

-----------------------------------------------------------------------------

\* Every id is treated, every flag of an APPEND written; or a statement of the
\* command fails or finds no row, and the command returns its error.
Finish(t) ==
    /\ stage[t] \in {"resolve", "treat", "write", "copy", "flags"}
    /\ Done(t)
    /\ UNCHANGED vars

\* One statement each: EXPUNGE, CREATE, DELETE, RENAME.
Statement ==
    /\ \E n \in Names :
          \/ (MailExpunge(n) \/ MailboxCreate(n)) /\ UNCHANGED issued
          \/ (MailboxDelete(n) \/ \E new \in Names : MailboxRename(n, new)) /\ CountCommand
    /\ UNCHANGED command

\* The process stops: the connections break.
Stopped ==
    /\ Crash
    /\ stage' = [t \in Threads |-> "idle"]
    /\ cmd' = [t \in Threads |-> NoCmd]
    /\ nums' = [t \in Threads |-> <<>>]
    /\ ids' = [t \in Threads |-> <<>>]
    /\ read' = [t \in Threads |-> FALSE]
    /\ pid' = [t \in Threads |-> 0]

\* A further step of a command, or an APPEND.
Command(t) ==
    \/ Resolve(t)
    \/ Peek(t)
    \/ Write(t)
    \/ \E n \in Names, m \in Mails, deleted \in BOOLEAN : Begin(t, n, m, deleted)
    \/ \E m \in Mails : BeginCopy(t, m)
    \/ Create(t)
    \/ CreateRejected(t)
    \/ Created(t)
    \/ AppendFlag(t)
    \/ CopyFlags(t)
    \/ BeginMove(t)
    \/ Move(t)
    \/ MoveFailed(t)
    \/ Finish(t)

-----------------------------------------------------------------------------
(* What the clients meant                                                  *)

UidsOf(n) == {x.uid : x \in Stored(box[n])}

\* The message sequence number k of folder n is that of its k-th uid.
Numbered(n, k) == {u \in UidsOf(n) : Cardinality({v \in UidsOf(n) : v <= u}) = k}

\* The uids the command has still to treat, or to look up and then treat.
Due(t) == Range(ids[t]) \cup UNION {Numbered(cmd[t].box, k) : k \in Range(nums[t])}

Running(t, ops) == stage[t] # "idle" /\ cmd[t].op \in ops

\* A command that may read and write \Deleted in folder n.
Rival(t, n) ==
    stage[t] # "idle" /\ cmd[t].box = n /\ (cmd[t].op = "append" => read[t])

\* The folder name, uid and mail of every row a client can see.
Places == UNION {{<<n, x.uid, x.mail>> : x \in Stored(box[n])} : n \in Names}

\* A sequence number that is still to be looked up changes its meaning.
Slides(t) ==
    /\ stage[t] = "resolve"
    /\ \E n \in Names, k \in Range(nums[t]) :
          cmd[t].box = n /\ Numbered(n, k) # Numbered(n, k)'

\* No folder loses its name, no uid of it is given out again, no number slides.
StillStable ==
    /\ stable
    /\ \A n \in Names : box[n] # 0 => box'[n] = box[n]
    /\ \A p \in Places' \ Places : <<p[1], p[2]>> \notin given
    /\ \A t \in Threads : ~Slides(t)

\* The mails that running commands ask to be \Deleted: the ones a STORE meant,
\* and the ones an APPEND or a COPY is about to store with that flag.
Asking ==
    (UNION {MailsOf({x \in Stored(box[cmd[t].box]) : x.uid \in named[t]}) :
               t \in {r \in Threads : named[r] # {}}})
    \cup {job[t].mail : t \in {r \in Threads : stage[r] = "create" /\ read[r]}}

\* A STORE against \Deleted that no other command could disturb has treated
\* all its ids and returns.
TakenBack ==
    UNION {goal[t] : t \in {r \in Threads :
              stage[r] = "treat" /\ ids[r] = <<>> /\ stage'[r] = "idle"}}

\* The history of a step.  Once names have changed their meaning it is of no
\* more use.
Remember ==
    /\ stable' = StillStable
    /\ given' = IF stable' THEN given \cup {<<p[1], p[2]>> : p \in Places'} ELSE {}
    /\ named' = [t \in Threads |->
          IF ~stable' \/ ~Running(t, {"add", "set"})' THEN {}
          ELSE IF stage[t] = "idle" THEN Due(t)' ELSE named[t]]
    /\ goal' = [t \in Threads |->
          IF \/ ~stable' \/ ~Running(t, {"remove", "clear"})'
             \/ \E r \in Threads \ {t} : Rival(r, cmd[t].box)'
          THEN {}
          ELSE IF stage[t] = "idle"
               THEN MailsOf({x \in Stored(box[cmd[t].box]) : x.uid \in Due(t)})'
               ELSE goal[t]]
    /\ asked' = IF stable' THEN (asked \ TakenBack) \cup Asking' ELSE {}
    /\ copied' = \/ copied
                 \/ \E t \in Threads : Running(t, {"copy"})' /\ stage'[t] = "flags" /\ read'[t]

-----------------------------------------------------------------------------

ImapNext ==
    /\ \/ \E t \in Threads :
             \/ Command(t) /\ UNCHANGED issued
             \/ \E op \in SetOps, n, dest \in Names, s \in Sets, uid \in BOOLEAN :
                   /\ op \in StoreOps => dest = n
                   /\ Issue(t, op, n, dest, s, uid)
       \/ Statement
       \/ Stopped /\ UNCHANGED issued
    /\ Remember

ImapSpec == ImapInit /\ [][ImapNext]_imapVars

-----------------------------------------------------------------------------
(* What the commands promise                                               *)

\* Every statement of every command is one MailStore allows its callers, so
\* what holds of the tables under arbitrary callers holds under IMAP.
ImplementsMailStore == Spec

\* However STOREs that read, wait and write back, moves, appends and copies
\* interleave, \Deleted (and with it the next EXPUNGE) is only on mails that a
\* client asked to delete: an APPEND with the flag, or a STORE whose set of
\* uids or numbers meant the mail when it was issued.  A later STORE that takes
\* the flag back, and that no command on the folder overlapped, counts: no flag
\* comes back after it.  Flags are written by folder name and uid, so all this
\* depends on names, uids and numbers being stable, and on nobody having copied
\* a mail flagged \Deleted (mailbox.go:268).
DeletedWasAsked ==
    stable /\ ~copied => \A x \in messages : x.deleted => x.mail \in asked

\* The same without the premise on COPY.  README.md:206 says that any standard
\* IMAP client works with the server.  The flags of a copy, however, are
\* written to whatever mail has the copy's uid in the folder copied from.
CopyFlagsOnlyTheCopy ==
    stable => \A x \in messages : x.deleted => x.mail \in asked

=============================================================================
