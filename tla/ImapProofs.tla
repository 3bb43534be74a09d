------------------------------ MODULE ImapProofs ------------------------------
(***************************************************************************)
(* The IMAP commands use the tables as MailStore allows its callers to:    *)
(* Imap implements MailStore.  Whatever MailStoreProofs proves of the      *)
(* tables under arbitrary callers then holds under IMAP.                   *)
(***************************************************************************)
EXTENDS Imap, MailStoreProofs, SequenceTheorems

-----------------------------------------------------------------------------
(* The uids in the tables stay within the bound of MailStore               *)

UidsBounded ==
    /\ \A x \in messages : x.uid <= MaxUid
    /\ \A t \in Threads : slot[t] <= MaxUid

\* A uid is written where uid_next was read, and never read above the bound.
LEMMA BoundedStep == TypeInv /\ UidsBounded /\ [Next]_vars => UidsBounded'
<1> SUFFICES ASSUME TypeInv, UidsBounded, [Next]_vars PROVE UidsBounded'
  OBVIOUS
<1> USE BoundsAssumption DEF UidsBounded, TypeInv, TypeOK, BoxIds, store, calls, seen
<1>1. ASSUME NEW t \in Threads, NEW n \in Names, NEW m \in Mails,
             NEW via \in {"MailCreate", "Deliver"}, ReadNext(t, n, m, via)
      PROVE  UidsBounded'
  BY <1>1 DEF ReadNext
<1>2. ASSUME NEW t \in Threads, Insert(t) PROVE UidsBounded'
  BY <1>2 DEF Insert
<1>3. ASSUME NEW t \in Threads, InsertRejected(t) PROVE UidsBounded'
  BY <1>3 DEF InsertRejected, Return
<1>4. ASSUME NEW t \in Threads, Bump(t) \/ BumpLost(t) PROVE UidsBounded'
  <2>1. messages' = messages /\ Return(t)
    BY <1>4 DEF Bump, BumpLost
  <2> QED
    BY <2>1 DEF Return
<1>5. ASSUME NEW t \in Threads, NEW n \in Names, NEW dest \in Names,
             NEW u \in 1 .. MaxUid, MoveRead(t, n, u, dest)
      PROVE  UidsBounded'
  BY <1>5 DEF MoveRead
<1>6. ASSUME NEW t \in Threads, MoveCommit(t) PROVE UidsBounded'
  BY <1>6 DEF MoveCommit, MoveRows, Moved, Moving, At, Return
<1>7. ASSUME NEW t \in Threads, MoveAborted(t) PROVE UidsBounded'
  BY <1>7 DEF MoveAborted, Return
<1>8. ASSUME NEW n \in Names, NEW u \in 1 .. MaxUid, NEW d \in BOOLEAN,
             UpdateFlags(n, u, d)
      PROVE  UidsBounded'
  BY <1>8 DEF UpdateFlags, Flagged
<1>9. ASSUME NEW n \in Names, NEW u \in 1 .. MaxUid, MailDelete(n, u)
      PROVE  UidsBounded'
  BY <1>9 DEF MailDelete, Remove
<1>10. ASSUME NEW n \in Names,
              MailExpunge(n) \/ MailboxCreate(n) \/ MailboxDelete(n)
       PROVE  UidsBounded'
  BY <1>10 DEF MailExpunge, Remove, MailboxCreate, MailboxDelete
<1>11. ASSUME NEW n \in Names, NEW new \in Names, MailboxRename(n, new)
       PROVE  UidsBounded'
  BY <1>11 DEF MailboxRename
<1>12. ASSUME Crash PROVE UidsBounded'
  BY <1>12 DEF Crash
<1>13. ASSUME UNCHANGED vars PROVE UidsBounded'
  BY <1>13 DEF vars
<1> HIDE DEF UidsBounded, TypeInv, TypeOK
<1> QED
  BY <1>1, <1>2, <1>3, <1>4, <1>5, <1>6, <1>7, <1>8, <1>9, <1>10, <1>11, <1>12,
     <1>13 DEF Next

-----------------------------------------------------------------------------
(* Each command names folders and uids the tables may have                 *)

\* The command is in the middle of treating an id.
HasId(t) ==
    \/ stage[t] \in {"write", "copy", "move"}
    \/ stage[t] \in {"create", "flags"} /\ cmd[t].op # "append"

CommandOK ==
    /\ stage \in [Threads -> {"idle", "resolve", "treat", "write", "copy",
                              "create", "flags", "move"}]
    /\ cmd \in [Threads -> Commands \cup {NoCmd}]
    /\ \A t \in Threads : stage[t] # "idle" => cmd[t] \in Commands
    /\ nums \in [Threads -> Seq(Nat)]
    /\ ids \in [Threads -> Seq(1 .. MaxUid)]
    /\ read \in [Threads -> BOOLEAN]
    /\ \A t \in Threads :
          /\ stage[t] = "resolve" => nums[t] # <<>>
          /\ HasId(t) => ids[t] # <<>>
    /\ pid \in [Threads -> Nat]

CommandInv == TypeInv /\ UidsBounded /\ CommandOK

\* A flag that is written changes a row of a uid MailStore knows, or nothing.
LEMMA FlagWritten ==
  ASSUME TypeInv, UidsBounded, NEW n \in Names, NEW u, NEW d \in BOOLEAN,
         WriteFlags(n, u, d)
  PROVE  [Next]_vars
<1>1. CASE \E x \in Row(n, u) : x.deleted # d
  <2>1. u \in 1 .. MaxUid
    BY <1>1, BoundsAssumption DEF Row, Stored, TypeInv, TypeOK, UidsBounded
  <2>2. UpdateFlags(n, u, d)
    BY <1>1 DEF WriteFlags
  <2> QED
    BY <2>1, <2>2 DEF Next
<1>2. CASE ~ \E x \in Row(n, u) : x.deleted # d
  BY <1>2 DEF WriteFlags
<1> QED
  BY <1>1, <1>2

\* Every step of Imap is a step of MailStore or leaves the tables alone.
LEMMA StepRefines == CommandInv /\ [ImapNext]_imapVars => [Next]_vars
<1> SUFFICES ASSUME CommandInv, [ImapNext]_imapVars PROVE [Next]_vars
  OBVIOUS
<1> USE DEF CommandInv
<1>c. ASSUME NEW t \in Threads, stage[t] # "idle"
      PROVE  cmd[t] \in Commands /\ cmd[t].box \in Names /\ cmd[t].dest \in Names
  BY <1>c DEF CommandOK, Commands
<1>1. ASSUME NEW t \in Threads, Resolve(t) \/ Peek(t) \/ Finish(t) PROVE [Next]_vars
  BY <1>1 DEF Resolve, Peek, Finish
<1>2. ASSUME NEW t \in Threads, Write(t) PROVE [Next]_vars
  <2>1. stage[t] # "idle"
    BY <1>2 DEF Write, Treating
  <2>2. PICK d \in BOOLEAN : WriteFlags(cmd[t].box, Head(ids[t]), d)
    BY <1>2 DEF Write, CommandOK
  <2> QED
    BY <1>c, <2>1, <2>2, FlagWritten
<1>3. ASSUME NEW t \in Threads, NEW n \in Names, NEW m \in Mails,
             NEW deleted \in BOOLEAN, Begin(t, n, m, deleted)
      PROVE  [Next]_vars
  BY <1>3 DEF Begin, Next
<1>4. ASSUME NEW t \in Threads, NEW m \in Mails, BeginCopy(t, m) PROVE [Next]_vars
  <2>1. ReadNext(t, cmd[t].dest, m, "MailCreate") /\ cmd[t].dest \in Names
    BY <1>4, <1>c DEF BeginCopy
  <2> QED
    BY <2>1 DEF Next
<1>5. ASSUME NEW t \in Threads, Create(t) PROVE [Next]_vars
  BY <1>5 DEF Create, Next
<1>6. ASSUME NEW t \in Threads, CreateRejected(t) PROVE [Next]_vars
  BY <1>6 DEF CreateRejected, Next
<1>7. ASSUME NEW t \in Threads, Created(t) PROVE [Next]_vars
  <2>1. Bump(t) \/ BumpLost(t)
    BY <1>7 DEF Created
  <2> QED
    BY <2>1 DEF Next
<1>8. ASSUME NEW t \in Threads, AppendFlag(t) \/ CopyFlags(t) PROVE [Next]_vars
  <2>1. stage[t] # "idle" /\ read[t] \in BOOLEAN
    BY <1>8 DEF AppendFlag, CopyFlags, CommandOK
  <2>2. PICK d \in BOOLEAN : WriteFlags(cmd[t].box, pid[t], d)
    BY <1>8, <2>1 DEF AppendFlag, CopyFlags
  <2> QED
    BY <1>c, <2>1, <2>2, FlagWritten
<1>9. ASSUME NEW t \in Threads, BeginMove(t) PROVE [Next]_vars
  <2>1. stage[t] # "idle" /\ ids[t] # <<>> /\ ids[t] \in Seq(1 .. MaxUid)
    BY <1>9 DEF BeginMove, Treating, CommandOK
  <2>2. Head(ids[t]) \in 1 .. MaxUid
    BY <2>1, HeadTailProperties
  <2>3. MoveRead(t, cmd[t].box, Head(ids[t]), cmd[t].dest)
    BY <1>9 DEF BeginMove
  <2> QED
    BY <1>c, <2>1, <2>2, <2>3 DEF Next
<1>10. ASSUME NEW t \in Threads, Move(t) PROVE [Next]_vars
  BY <1>10 DEF Move, Next
<1>11. ASSUME NEW t \in Threads, MoveFailed(t) PROVE [Next]_vars
  BY <1>11 DEF MoveFailed, Next
<1>12. ASSUME NEW t \in Threads, NEW op \in SetOps, NEW n \in Names,
              NEW dest \in Names, NEW s \in Sets, NEW uid \in BOOLEAN,
              Issue(t, op, n, dest, s, uid)
       PROVE  [Next]_vars
  BY <1>12 DEF Issue
<1>13. ASSUME Statement PROVE [Next]_vars
  BY <1>13 DEF Statement, Next
<1>14. ASSUME Stopped PROVE [Next]_vars
  BY <1>14 DEF Stopped, Next
<1>15. ASSUME UNCHANGED imapVars PROVE [Next]_vars
  BY <1>15 DEF imapVars
<1> HIDE DEF CommandInv
<1> QED
  BY <1>1, <1>2, <1>3, <1>4, <1>5, <1>6, <1>7, <1>8, <1>9, <1>10, <1>11, <1>12,
     <1>13, <1>14, <1>15 DEF ImapNext, Command

\* No command is in progress at the start.
LEMMA CommandInit == ImapInit => CommandInv
<1> SUFFICES ASSUME ImapInit PROVE CommandInv
  OBVIOUS
<1>1. TypeInv
  BY TypeInit DEF ImapInit
<1>2. UidsBounded
  BY BoundsAssumption DEF ImapInit, Init, UidsBounded
<1>3. CommandOK
  BY EmptySeq DEF ImapInit, CommandOK, HasId
<1> QED
  BY <1>1, <1>2, <1>3 DEF CommandInv

\* The numbers of a set whose end is within the bound are within it, too.
LEMMA NumbersBounded ==
  ASSUME TypeInv, NEW n \in Names, box[n] # 0, NEW s \in Sets, Stop(n, s) <= MaxUid
  PROVE  Numbers(n, s) \in Seq(1 .. MaxUid) /\ Numbers(n, s) \in Seq(Nat)
<1> DEFINE k == IF Stop(n, s) < s.start THEN 0 ELSE Stop(n, s) - s.start + 1
<1>1. s.start \in 1 .. MaxUid /\ Stop(n, s) \in Int
  BY BoundsAssumption, ImapAssumption DEF Stop, TypeInv, TypeOK, BoxIds
<1>2. k \in Nat /\ \A i \in 1 .. k : s.start + i - 1 \in 1 .. MaxUid
  BY <1>1, BoundsAssumption
<1>3. Numbers(n, s) = [i \in 1 .. k |-> s.start + i - 1]
  BY DEF Numbers
<1> HIDE DEF k
<1>4. Numbers(n, s) \in [1 .. k -> 1 .. MaxUid]
  BY <1>2, <1>3
<1>5. Numbers(n, s) \in [1 .. k -> Nat]
  BY <1>4, BoundsAssumption
<1> QED
  BY <1>2, <1>4, <1>5, SeqDef, Zenon

\* A command that returns forgets everything; the others are left alone.
LEMMA DoneOK == ASSUME CommandOK, NEW t \in Threads, Done(t) PROVE CommandOK'
<1> USE DEF CommandOK, Done, StageTo
<1>1. /\ stage' \in [Threads -> {"idle", "resolve", "treat", "write", "copy",
                                "create", "flags", "move"}]
      /\ cmd' \in [Threads -> Commands \cup {NoCmd}]
      /\ read' \in [Threads -> BOOLEAN]
      /\ pid' \in [Threads -> Nat]
  OBVIOUS
<1>2. nums' \in [Threads -> Seq(Nat)] /\ ids' \in [Threads -> Seq(1 .. MaxUid)]
  BY EmptySeq
<1>3. stage'[t] = "idle" /\ \A r \in Threads \ {t} :
         /\ stage'[r] = stage[r] /\ cmd'[r] = cmd[r]
         /\ nums'[r] = nums[r] /\ ids'[r] = ids[r]
  OBVIOUS
<1>4. \A r \in Threads :
        /\ stage'[r] # "idle" => cmd'[r] \in Commands
        /\ stage'[r] = "resolve" => nums'[r] # <<>>
        /\ HasId(r)' => ids'[r] # <<>>
  BY <1>3 DEF HasId
<1> QED
  BY <1>1, <1>2, <1>4

\* The loop goes on with the ids that are left.
LEMMA NextIdOK ==
  ASSUME CommandOK, NEW t \in Threads, HasId(t) \/ Treating(t, Ops), NextId(t)
  PROVE  CommandOK'
<1> USE DEF CommandOK
<1>1. ids[t] # <<>> /\ ids[t] \in Seq(1 .. MaxUid) /\ stage[t] # "idle"
  BY DEF HasId, Treating
<1>2. Tail(ids[t]) \in Seq(1 .. MaxUid)
  BY <1>1, HeadTailProperties
<1>3. \A r \in Threads \ {t} :
        /\ stage'[r] = stage[r] /\ cmd'[r] = cmd[r]
        /\ nums'[r] = nums[r] /\ ids'[r] = ids[r]
  BY DEF NextId, StageTo
<1>4. stage'[t] = "treat" /\ cmd'[t] = cmd[t]
  BY DEF NextId, StageTo
<1>5. /\ stage' \in [Threads -> {"idle", "resolve", "treat", "write", "copy",
                                "create", "flags", "move"}]
      /\ cmd' \in [Threads -> Commands \cup {NoCmd}]
      /\ nums' \in [Threads -> Seq(Nat)]
      /\ ids' \in [Threads -> Seq(1 .. MaxUid)]
      /\ read' \in [Threads -> BOOLEAN]
      /\ pid' \in [Threads -> Nat]
  BY <1>2 DEF NextId, StageTo
<1>6. \A r \in Threads : stage'[r] # "idle" => cmd'[r] \in Commands
  BY <1>1, <1>3, <1>4
<1>7. \A r \in Threads :
        /\ stage'[r] = "resolve" => nums'[r] # <<>>
        /\ HasId(r)' => ids'[r] # <<>>
  BY <1>3, <1>4 DEF HasId
<1> QED
  BY <1>5, <1>6, <1>7

\* A further step that changes the stage of a command alone.
LEMMA StageOK ==
  ASSUME CommandOK, NEW t \in Threads, stage[t] # "idle",
         NEW to \in {"treat", "write", "copy", "create", "flags", "move"},
         StageTo(t, to), UNCHANGED <<cmd, nums, ids>>,
         read' \in [Threads -> BOOLEAN], pid' \in [Threads -> Nat],
         to # "treat" => ids[t] # <<>> \/ (to \in {"create", "flags"} /\ cmd[t].op = "append")
  PROVE  CommandOK'
<1> USE DEF CommandOK, StageTo
<1>1. /\ stage' \in [Threads -> {"idle", "resolve", "treat", "write", "copy",
                                "create", "flags", "move"}]
      /\ \A r \in Threads : stage'[r] # "idle" => stage[r] # "idle"
      /\ stage'[t] = to /\ \A r \in Threads \ {t} : stage'[r] = stage[r]
  OBVIOUS
<1>2. \A r \in Threads :
        /\ stage'[r] = "resolve" => nums'[r] # <<>>
        /\ HasId(r)' => ids'[r] # <<>>
  BY <1>1 DEF HasId
<1> QED
  BY <1>1, <1>2

\* Every step keeps the commands in progress well formed.
LEMMA CommandStep == CommandInv /\ [ImapNext]_imapVars => CommandOK'
<1> SUFFICES ASSUME CommandInv, [ImapNext]_imapVars PROVE CommandOK'
  OBVIOUS
<1> USE DEF CommandInv
<1>0. ASSUME UNCHANGED command PROVE CommandOK'
  BY <1>0 DEF command, CommandOK, HasId
<1>1. ASSUME NEW t \in Threads, Resolve(t) PROVE CommandOK'
  <2>1. /\ stage[t] = "resolve" /\ cmd[t] \in Commands
        /\ nums[t] \in Seq(Nat) /\ nums[t] # <<>> /\ ids[t] \in Seq(1 .. MaxUid)
    BY <1>1 DEF Resolve, CommandOK
  <2>2. PICK x \in messages : ids' = [ids EXCEPT ![t] = Append(@, x.uid)]
    BY <1>1 DEF Resolve, AtSeq, Stored
  <2>3. x.uid \in 1 .. MaxUid
    BY <2>2, BoundsAssumption DEF TypeInv, TypeOK, UidsBounded
  <2>4. Append(ids[t], x.uid) \in Seq(1 .. MaxUid) /\ Tail(nums[t]) \in Seq(Nat)
    BY <2>1, <2>3, HeadTailProperties
  <2>5. /\ stage' = [stage EXCEPT ![t] = IF Tail(nums[t]) = <<>> THEN "treat" ELSE "resolve"]
        /\ nums' = [nums EXCEPT ![t] = Tail(@)]
        /\ UNCHANGED <<cmd, read, pid>>
    BY <1>1 DEF Resolve, StageTo
  <2>6. /\ stage'[t] \in {"treat", "resolve"}
        /\ stage'[t] = "resolve" => nums'[t] # <<>>
        /\ \A r \in Threads \ {t} :
              stage'[r] = stage[r] /\ nums'[r] = nums[r] /\ ids'[r] = ids[r]
    BY <2>2, <2>5 DEF CommandOK
  <2>7. /\ stage' \in [Threads -> {"idle", "resolve", "treat", "write", "copy",
                                  "create", "flags", "move"}]
        /\ nums' \in [Threads -> Seq(Nat)]
        /\ ids' \in [Threads -> Seq(1 .. MaxUid)]
    BY <2>2, <2>4, <2>5 DEF CommandOK
  <2>8. \A r \in Threads :
          /\ stage'[r] # "idle" => cmd'[r] \in Commands
          /\ stage'[r] = "resolve" => nums'[r] # <<>>
          /\ HasId(r)' => ids'[r] # <<>>
    BY <2>1, <2>5, <2>6 DEF CommandOK, HasId
  <2> QED
    BY <2>5, <2>7, <2>8 DEF CommandOK
<1>2. ASSUME NEW t \in Threads, Peek(t) PROVE CommandOK'
  <2>1. stage[t] = "treat" /\ ids[t] # <<>> /\ UNCHANGED <<cmd, nums, ids, pid>>
    BY <1>2 DEF Peek, Treating
  <2>2. read' \in [Threads -> BOOLEAN]
    BY <1>2 DEF Peek, CommandOK, Row, Stored, TypeInv, TypeOK
  <2>3. StageTo(t, "copy") \/ StageTo(t, "write")
    BY <1>2 DEF Peek
  <2> QED
    BY <2>1, <2>2, <2>3, StageOK DEF CommandOK
<1>3. ASSUME NEW t \in Threads, Write(t) PROVE CommandOK'
  <2>1. HasId(t) \/ Treating(t, Ops)
    BY <1>3 DEF Write, HasId, Treating, Ops, SetOps, StoreOps
  <2> QED
    BY <1>3, <2>1, NextIdOK DEF Write
<1>4. ASSUME NEW t \in Threads, NEW n \in Names, NEW m \in Mails,
             NEW deleted \in BOOLEAN, Begin(t, n, m, deleted)
      PROVE  CommandOK'
  <2>1. [op |-> "append", box |-> n, dest |-> n] \in Commands
    BY DEF Commands, Ops
  <2> QED
    BY <1>4, <2>1 DEF Begin, StageTo, CommandOK, HasId
<1>5. ASSUME NEW t \in Threads, NEW m \in Mails, BeginCopy(t, m) PROVE CommandOK'
  <2>1. stage[t] = "copy" /\ StageTo(t, "create") /\ UNCHANGED <<cmd, nums, ids, read, pid>>
    BY <1>5 DEF BeginCopy
  <2> QED
    BY <2>1, StageOK DEF CommandOK, HasId
<1>6. ASSUME NEW t \in Threads, CreateRejected(t) \/ MoveFailed(t) \/ Finish(t)
      PROVE  CommandOK'
  BY <1>6, DoneOK DEF CreateRejected, MoveFailed, Finish
<1>7. ASSUME NEW t \in Threads, Created(t) PROVE CommandOK'
  <2>1. /\ stage[t] = "create" /\ StageTo(t, "flags") /\ UNCHANGED <<cmd, nums, ids, read>>
        /\ pid' = [pid EXCEPT ![t] = slot[t]]
    BY <1>7 DEF Created
  <2>2. pid' \in [Threads -> Nat]
    BY <2>1 DEF CommandOK, TypeInv, TypeOK
  <2> QED
    BY <2>1, <2>2, StageOK DEF CommandOK, HasId
<1>8. ASSUME NEW t \in Threads, CopyFlags(t) PROVE CommandOK'
  BY <1>8, NextIdOK DEF CopyFlags, HasId
<1>9. ASSUME NEW t \in Threads, BeginMove(t) PROVE CommandOK'
  <2>1. /\ stage[t] = "treat" /\ ids[t] # <<>> /\ StageTo(t, "move")
        /\ UNCHANGED <<cmd, nums, ids, read, pid>>
    BY <1>9 DEF BeginMove, Treating
  <2> QED
    BY <2>1, StageOK DEF CommandOK
<1>10. ASSUME NEW t \in Threads, Move(t) PROVE CommandOK'
  BY <1>10, NextIdOK DEF Move, HasId
<1>11. ASSUME NEW t \in Threads, NEW op \in SetOps, NEW n \in Names,
              NEW dest \in Names, NEW s \in Sets, NEW uid \in BOOLEAN,
              Issue(t, op, n, dest, s, uid)
       PROVE  CommandOK'
  <2>1. [op |-> op, box |-> n, dest |-> dest] \in Commands
    BY DEF Commands, Ops
  <2>2. Numbers(n, s) \in Seq(1 .. MaxUid) /\ Numbers(n, s) \in Seq(Nat) /\ Numbers(n, s) # <<>>
    BY <1>11, NumbersBounded DEF Issue
  <2>3. UNCHANGED <<read, pid>>
    BY <1>11 DEF Issue
  <2>4. CASE uid
    BY <1>11, <2>1, <2>2, <2>3, <2>4, EmptySeq DEF Issue, StageTo, CommandOK, HasId
  <2>5. CASE ~uid
    BY <1>11, <2>1, <2>2, <2>3, <2>5, EmptySeq DEF Issue, StageTo, CommandOK, HasId
  <2> QED
    BY <2>4, <2>5
<1>12. ASSUME NEW t \in Threads, Create(t) \/ AppendFlag(t) PROVE CommandOK'
  BY <1>0, <1>12 DEF Create, AppendFlag
<1>13. ASSUME Statement PROVE CommandOK'
  BY <1>0, <1>13 DEF Statement
<1>14. ASSUME Stopped PROVE CommandOK'
  BY <1>14, EmptySeq DEF Stopped, CommandOK, HasId
<1>15. ASSUME UNCHANGED imapVars PROVE CommandOK'
  BY <1>0, <1>15 DEF imapVars
<1> HIDE DEF CommandInv
<1> QED
  BY <1>1, <1>2, <1>3, <1>4, <1>5, <1>6, <1>7, <1>8, <1>9, <1>10, <1>11, <1>12,
     <1>13, <1>14, <1>15 DEF ImapNext, Command

\* The inductive invariant behind the refinement.
LEMMA CommandInvariant == ImapSpec => []CommandInv
<1>1. CommandInv /\ [ImapNext]_imapVars => CommandInv'
  BY StepRefines, TypeStep, BoundedStep, CommandStep DEF CommandInv
<1> QED
  BY CommandInit, <1>1, PTL DEF ImapSpec

-----------------------------------------------------------------------------
(* The results                                                             *)

\* However the statements of the commands of several connections interleave,
\* the tables only take steps MailStore allows its callers (mailbox.go,
\* user.go against mariadb.go).
THEOREM CommandsUseTheTables == ImapSpec => ImplementsMailStore
<1>1. ImapInit => Init
  BY DEF ImapInit
<1> QED
  BY <1>1, StepRefines, CommandInvariant, PTL DEF ImapSpec, ImplementsMailStore, Spec

\* No mix of APPEND, COPY, MOVE, STORE, RENAME and crashes loses a mail whose
\* APPEND or COPY was acknowledged: it stays until it is expunged or its
\* folder is deleted.
THEOREM CommandsKeepMail == ImapSpec => []AcknowledgedKept
BY CommandsUseTheTables, NoAcknowledgedMailLost, PTL DEF ImplementsMailStore

\* To the owner of the mail, commands of any number of connections and
\* deliveries beside them are single changes of folders.
THEOREM CommandsChangeFolders == ImapSpec => ImplementsMailboxes
BY CommandsUseTheTables, TablesAreFolders, PTL DEF ImplementsMailStore

-----------------------------------------------------------------------------
(* Which connections a step concerns                                       *)

\* Connection t takes no part in this step.
Bystander(t) ==
    /\ stage'[t] = stage[t] /\ cmd'[t] = cmd[t] /\ nums'[t] = nums[t] /\ ids'[t] = ids[t]
    /\ read'[t] = read[t] /\ pid'[t] = pid[t]
    /\ pc'[t] = pc[t] /\ job'[t] = job[t] /\ target'[t] = target[t] /\ slot'[t] = slot[t]

Issued(t) ==
    \E op \in SetOps, n, dest \in Names, s \in Sets, uid \in BOOLEAN :
        Issue(t, op, n, dest, s, uid)

\* A command that returns, or goes on with its next id, is one connection's.
LEMMA OthersAfterLoop ==
  ASSUME CommandOK, NEW t \in Threads, Done(t) \/ NextId(t)
  PROVE  \A r \in Threads \ {t} :
            /\ stage'[r] = stage[r] /\ cmd'[r] = cmd[r] /\ nums'[r] = nums[r]
            /\ ids'[r] = ids[r] /\ read'[r] = read[r] /\ pid'[r] = pid[r]
  BY DEF Done, NextId, StageTo, CommandOK

\* Every statement sequence of MailStore is one goroutine's.
LEMMA OthersAfterCall ==
  ASSUME TypeInv, NEW t \in Threads,
         \/ Return(t)
         \/ Insert(t)
         \/ \E n, m, via : ReadNext(t, n, m, via)
         \/ \E n, u, dest : MoveRead(t, n, u, dest)
         \/ UNCHANGED calls
  PROVE  \A r \in Threads \ {t} :
            pc'[r] = pc[r] /\ job'[r] = job[r] /\ target'[r] = target[r] /\ slot'[r] = slot[r]
  BY DEF Return, Insert, ReadNext, MoveRead, calls, TypeInv, TypeOK

\* The other connections do not notice a step of one.
LEMMA OthersStandBy ==
  ASSUME CommandInv, NEW t \in Threads, Command(t)
  PROVE  \A r \in Threads \ {t} : Bystander(r)
<1> USE DEF CommandInv
<1> DEFINE Apart(r) == /\ stage'[r] = stage[r] /\ cmd'[r] = cmd[r] /\ nums'[r] = nums[r]
                       /\ ids'[r] = ids[r] /\ read'[r] = read[r] /\ pid'[r] = pid[r]
<1>1. \A r \in Threads \ {t} : Apart(r)
  <2>1. CASE Done(t) \/ NextId(t)
    BY <2>1, OthersAfterLoop
  <2>2. CASE UNCHANGED command
    BY <2>2 DEF command
  <2>3. CASE Resolve(t)
    BY <2>3 DEF Resolve, StageTo, CommandOK
  <2>4. CASE Peek(t)
    BY <2>4 DEF Peek, StageTo, CommandOK
  <2>5. ASSUME NEW n \in Names, NEW m \in Mails, NEW deleted \in BOOLEAN,
               Begin(t, n, m, deleted)
        PROVE  \A r \in Threads \ {t} : Apart(r)
    BY <2>5 DEF Begin, StageTo, CommandOK
  <2>6. ASSUME NEW m \in Mails, BeginCopy(t, m) PROVE \A r \in Threads \ {t} : Apart(r)
    BY <2>6 DEF BeginCopy, StageTo, CommandOK
  <2>7. CASE Created(t)
    BY <2>7 DEF Created, StageTo, CommandOK
  <2>8. CASE BeginMove(t)
    BY <2>8 DEF BeginMove, StageTo, CommandOK
  <2> HIDE DEF Apart
  <2> QED
    BY <2>1, <2>2, <2>3, <2>4, <2>5, <2>6, <2>7, <2>8
    DEF Command, Write, Create, CreateRejected, AppendFlag, CopyFlags, Move, MoveFailed,
        Finish
<1>2. \/ Return(t)
      \/ Insert(t)
      \/ \E n, m, via : ReadNext(t, n, m, via)
      \/ \E n, u, dest : MoveRead(t, n, u, dest)
      \/ UNCHANGED calls
  <2>1. ASSUME NEW n, NEW u, NEW d, WriteFlags(n, u, d) PROVE UNCHANGED calls
    BY <2>1 DEF WriteFlags, UpdateFlags, vars
  <2>2. CASE Write(t) \/ AppendFlag(t) \/ CopyFlags(t)
    BY <2>1, <2>2 DEF Write, AppendFlag, CopyFlags
  <2>3. CASE Resolve(t) \/ Peek(t) \/ Finish(t)
    BY <2>3 DEF Resolve, Peek, Finish, vars
  <2>4. CASE \/ Create(t) \/ CreateRejected(t) \/ Created(t) \/ Move(t) \/ MoveFailed(t)
    BY <2>4 DEF Create, CreateRejected, Created, Move, MoveFailed, InsertRejected, Bump,
       BumpLost, MoveCommit, MoveAborted
  <2>5. CASE \/ \E n \in Names, m \in Mails, deleted \in BOOLEAN : Begin(t, n, m, deleted)
             \/ \E m \in Mails : BeginCopy(t, m)
             \/ BeginMove(t)
    BY <2>5 DEF Begin, BeginCopy, BeginMove
  <2> QED
    BY <2>2, <2>3, <2>4, <2>5 DEF Command
<1>3. \A r \in Threads \ {t} :
         pc'[r] = pc[r] /\ job'[r] = job[r] /\ target'[r] = target[r] /\ slot'[r] = slot[r]
  BY <1>2, OthersAfterCall
<1> QED
  BY <1>1, <1>3 DEF Bystander

\* In every step a connection looks on, takes a step of its own, or stops with
\* the process.
LEMMA WhoActs ==
  CommandInv /\ [ImapNext]_imapVars =>
     \A r \in Threads : Bystander(r) \/ Command(r) \/ Issued(r) \/ Stopped
<1> SUFFICES ASSUME CommandInv, [ImapNext]_imapVars, NEW r \in Threads
             PROVE  Bystander(r) \/ Command(r) \/ Issued(r) \/ Stopped
  OBVIOUS
<1>1. ASSUME NEW t \in Threads, Command(t) PROVE Bystander(r) \/ Command(r)
  BY <1>1, OthersStandBy
<1>2. ASSUME NEW t \in Threads, NEW op \in SetOps, NEW n \in Names, NEW dest \in Names,
             NEW s \in Sets, NEW uid \in BOOLEAN, Issue(t, op, n, dest, s, uid)
      PROVE  Bystander(r) \/ Issued(r)
  <2>1. CASE r = t
    BY <1>2, <2>1 DEF Issued
  <2>2. CASE r # t
    BY <1>2, <2>2 DEF Issue, StageTo, vars, calls, Bystander, CommandInv, CommandOK
  <2> QED
    BY <2>1, <2>2
<1>3. ASSUME Statement PROVE Bystander(r)
  BY <1>3 DEF Statement, MailExpunge, Remove, MailboxCreate, MailboxDelete, MailboxRename,
     command, calls, Bystander
<1>4. ASSUME UNCHANGED imapVars PROVE Bystander(r)
  BY <1>4 DEF imapVars, vars, command, calls, Bystander
<1> QED
  BY <1>1, <1>2, <1>3, <1>4 DEF ImapNext

-----------------------------------------------------------------------------
(* Stages                                                                  *)

\* What the stage says of a command's numbers, operation and statements.
Shape(t) ==
    /\ stage[t] # "resolve" => nums[t] = <<>>
    /\ stage[t] = "move" => cmd[t].op = "move" /\ job[t].from = cmd[t].box
    /\ stage[t] = "copy" => cmd[t].op = "copy"
    /\ stage[t] = "create" => pc[t] \in {"insert", "bump"}

ShapeInv == \A t \in Threads : Shape(t)

\* A command only leaves its numbers behind when all are looked up, and MailCreate
\* and MailMove run in the stages made for them.
LEMMA ShapeStep == CommandInv /\ ShapeInv /\ [ImapNext]_imapVars => ShapeInv'
<1> SUFFICES ASSUME CommandInv, [ImapNext]_imapVars, NEW t \in Threads, Shape(t)
             PROVE  Shape(t)'
  BY DEF ShapeInv
<1> USE DEF CommandInv, Shape
<1>1. CASE Bystander(t)
  BY <1>1 DEF Bystander
<1>2. CASE Stopped
  BY <1>2 DEF Stopped
<1>3. CASE Issued(t)
  BY <1>3 DEF Issued, Issue, StageTo, CommandOK
<1>4. CASE Command(t)
  <2>1. CASE Resolve(t)
    BY <2>1 DEF Resolve, StageTo, CommandOK
  <2>2. CASE Peek(t)
    BY <2>2 DEF Peek, Treating, StageTo, CommandOK
  <2>3. ASSUME NextId(t), stage[t] # "resolve" PROVE Shape(t)'
    BY <2>3 DEF NextId, StageTo, CommandOK
  <2>4. ASSUME Done(t) PROVE Shape(t)'
    BY <2>4 DEF Done, StageTo, CommandOK
  <2>5. ASSUME NEW n \in Names, NEW m \in Mails, NEW deleted \in BOOLEAN,
               Begin(t, n, m, deleted)
        PROVE  Shape(t)'
    BY <2>5 DEF Begin, ReadNext, StageTo, CommandOK, TypeInv, TypeOK
  <2>6. ASSUME NEW m \in Mails, BeginCopy(t, m) PROVE Shape(t)'
    BY <2>6 DEF BeginCopy, ReadNext, StageTo, CommandOK, TypeInv, TypeOK
  <2>7. CASE Create(t)
    BY <2>7 DEF Create, Insert, command, TypeInv, TypeOK
  <2>8. CASE Created(t)
    BY <2>8 DEF Created, StageTo, CommandOK
  <2>9. CASE AppendFlag(t)
    BY <2>9 DEF AppendFlag, command
  <2>10. CASE BeginMove(t)
    BY <2>10 DEF BeginMove, MoveRead, Treating, StageTo, CommandOK, TypeInv, TypeOK
  <2>11. Write(t) \/ CopyFlags(t) \/ Move(t) => NextId(t) /\ stage[t] # "resolve"
    BY DEF Write, Treating, CopyFlags, Move
  <2>12. CreateRejected(t) \/ MoveFailed(t) \/ Finish(t) => Done(t)
    BY DEF CreateRejected, MoveFailed, Finish
  <2> HIDE DEF Shape
  <2> QED
    BY <1>4, <2>1, <2>2, <2>3, <2>4, <2>5, <2>6, <2>7, <2>8, <2>9, <2>10, <2>11, <2>12
    DEF Command
<1> HIDE DEF Shape
<1> QED
  BY <1>1, <1>2, <1>3, <1>4, WhoActs

-----------------------------------------------------------------------------
(* Types                                                                   *)

HistoryOK ==
    /\ stable \in BOOLEAN
    /\ given \subseteq Names \X Nat
    /\ named \in [Threads -> SUBSET Nat]
    /\ goal \in [Threads -> SUBSET Mails]
    /\ asked \subseteq Mails
    /\ copied \in BOOLEAN
    /\ issued \in 0 .. MaxCommands

HistoryInv == HistoryOK /\ ShapeInv

\* The mails of stored rows are mails, their uids numbers.
LEMMA RowsTyped ==
  TypeInv => \A x \in messages : x.mail \in Mails /\ x.uid \in Nat
  BY DEF TypeInv, TypeOK

\* What a command has still to treat are uids.
LEMMA DueTyped == CommandInv => \A t \in Threads : Due(t) \subseteq Nat
<1> SUFFICES ASSUME CommandInv, NEW t \in Threads PROVE Due(t) \subseteq Nat
  OBVIOUS
<1>1. Range(ids[t]) \subseteq Nat
  <2>1. ids[t] \in Seq(1 .. MaxUid)
    BY DEF CommandInv, CommandOK
  <2>2. \A i \in DOMAIN ids[t] : ids[t][i] \in 1 .. MaxUid
    BY <2>1, LenProperties
  <2> QED
    BY <2>2, BoundsAssumption DEF Range
<1>2. \A k : Numbered(cmd[t].box, k) \subseteq Nat
  BY RowsTyped DEF Numbered, UidsOf, Stored, CommandInv
<1> QED
  BY <1>1, <1>2 DEF Due

\* The mails the running commands ask for are mails.
LEMMA AskingTyped == CommandInv /\ ShapeInv => Asking \subseteq Mails
<1> SUFFICES ASSUME CommandInv, ShapeInv PROVE Asking \subseteq Mails
  OBVIOUS
<1>1. ASSUME NEW t \in Threads, stage[t] = "create" PROVE job[t].mail \in Mails
  BY <1>1 DEF ShapeInv, Shape, CommandInv, TypeInv, CallsOK, Deliveries
<1>2. \A rows \in SUBSET messages : MailsOf(rows) \subseteq Mails
  BY RowsTyped DEF MailsOf, CommandInv
<1>3. ASSUME NEW t \in Threads
      PROVE  MailsOf({x \in Stored(box[cmd[t].box]) : x.uid \in named[t]}) \subseteq Mails
  BY <1>2 DEF Stored
<1> QED
  BY <1>1, <1>3 DEF Asking

\* The history variables keep their types.
LEMMA HistoryStep ==
  CommandInv /\ HistoryInv /\ [ImapNext]_imapVars => HistoryInv'
<1> SUFFICES ASSUME CommandInv, HistoryInv, [ImapNext]_imapVars PROVE HistoryOK'
  BY ShapeStep DEF HistoryInv
<1>0. CommandInv' /\ ShapeInv'
  BY StepRefines, TypeStep, BoundedStep, CommandStep, ShapeStep DEF CommandInv, HistoryInv
<1>d. (CommandInv => \A t \in Threads : Due(t) \subseteq Nat)'
  BY DueTyped, PTL
<1>a. (CommandInv /\ ShapeInv => Asking \subseteq Mails)'
  BY AskingTyped, PTL
<1>r. (TypeInv => \A x \in messages : x.mail \in Mails /\ x.uid \in Nat)'
  BY RowsTyped, PTL
<1>1. CASE Remember
  <2>1. given' \subseteq Names \X Nat
    <3>1. \A p \in Places' : <<p[1], p[2]>> \in Names \X Nat
      BY <1>0, <1>r DEF Places, Stored, CommandInv, TypeInv, TypeOK
    <3>2. given \subseteq Names \X Nat
      BY DEF HistoryInv, HistoryOK
    <3> QED
      BY <1>1, <3>1, <3>2 DEF Remember
  <2>2. named' \in [Threads -> SUBSET Nat]
    <3>1. \A t \in Threads : Due(t)' \subseteq Nat
      BY <1>0, <1>d
    <3>2. \A t \in Threads : named[t] \subseteq Nat
      BY DEF HistoryInv, HistoryOK
    <3> QED
      BY <1>1, <3>1, <3>2 DEF Remember
  <2>3. goal' \in [Threads -> SUBSET Mails]
    <3>1. \A t \in Threads :
             MailsOf({x \in Stored(box[cmd[t].box]) : x.uid \in Due(t)})' \subseteq Mails
      BY <1>0, <1>r DEF MailsOf, Stored, CommandInv
    <3>2. \A t \in Threads : goal[t] \subseteq Mails
      BY DEF HistoryInv, HistoryOK
    <3> QED
      BY <1>1, <3>1, <3>2 DEF Remember
  <2>4. asked' \subseteq Mails
    <3>1. Asking' \subseteq Mails
      BY <1>0, <1>a
    <3> QED
      BY <1>1, <3>1 DEF Remember, HistoryInv, HistoryOK
  <2>5. stable' \in BOOLEAN
    BY <1>1 DEF Remember, StillStable
  <2>6. copied' \in BOOLEAN
    BY <1>1 DEF Remember, HistoryInv, HistoryOK
  <2>7. issued' \in 0 .. MaxCommands
    <3>1. CountCommand \/ UNCHANGED issued
      BY DEF ImapNext, Issue, Statement, imapVars
    <3> QED
      BY <3>1, ImapAssumption DEF CountCommand, HistoryInv, HistoryOK
  <2> QED
    BY <2>1, <2>2, <2>3, <2>4, <2>5, <2>6, <2>7 DEF HistoryOK
<1>2. CASE UNCHANGED imapVars
  BY <1>2 DEF imapVars, history, HistoryInv, HistoryOK
<1> QED
  BY <1>1, <1>2 DEF ImapNext

\* Nobody means anything yet.
LEMMA HistoryInit == ImapInit => HistoryInv
<1> SUFFICES ASSUME ImapInit PROVE HistoryInv
  OBVIOUS
<1>1. issued \in 0 .. MaxCommands
  BY ImapAssumption DEF ImapInit
<1>2. ShapeInv
  BY DEF ImapInit, ShapeInv, Shape
<1> QED
  BY <1>1, <1>2 DEF ImapInit, HistoryInv, HistoryOK

\* Tables, commands and history are well typed in every reachable state.
THEOREM ImapTypeCorrect == ImapSpec => []ImapTypeOK
<1>1. CommandInv /\ HistoryInv => ImapTypeOK
  <2> SUFFICES ASSUME CommandInv, HistoryInv PROVE ImapTypeOK
    OBVIOUS
  <2>1. ids \in [Threads -> Seq(Nat \ {0})]
    <3>1. 1 .. MaxUid \subseteq Nat \ {0}
      BY BoundsAssumption
    <3>2. ASSUME NEW q \in Seq(1 .. MaxUid) PROVE q \in Seq(Nat \ {0})
      BY <3>1, SeqMonotonic
    <3> QED
      BY <3>2 DEF CommandInv, CommandOK
  <2> QED
    BY <2>1 DEF CommandInv, CommandOK, HistoryInv, HistoryOK, ImapTypeOK, TypeInv
<1> QED
  BY <1>1, CommandInvariant, HistoryInit, HistoryStep, PTL DEF ImapSpec

=============================================================================
