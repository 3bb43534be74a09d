------------------------------ MODULE Directory ------------------------------
(***************************************************************************)
(* The users and aliases tables (schema.sql, mariadb.go) and the command   *)
(* line that changes them (cmd_users.go, cmd_alias.go).                    *)
(*                                                                         *)
(* Each command is a process of its own beside the running server.         *)
(* adduser talks to the tables four times, with prompts in between, so two *)
(* administrators interleave; every other command is one statement, or one *)
(* transaction whose UPDATE locks all of aliases.                          *)
(*                                                                         *)
(* An alias is a name that resolves to a user.  The node alias, the key    *)
(* of the configuration in hex @yggmail, is the one flagged is_Glasir.     *)
(***************************************************************************)
EXTENDS Integers

CONSTANTS
    Addresses,    \* users' addresses
    Generic,      \* names of generic aliases
    NodeAliases,  \* the node alias, one for each key configured over time
    Admins,       \* concurrent adduser commands
    MaxUsers,     \* bound: rows ever inserted into users
    MaxFaults     \* bound: failed statements and crashes

ASSUME DirectoryAssumption == MaxUsers \in Nat /\ MaxFaults \in Nat

AliasNames == Generic \cup NodeAliases

UserIds == 1 .. MaxUsers

VARIABLES
    users,        \* Addresses -> id of the users row, 0 when there is none
    nextUser,     \* AUTO_INCREMENT of users.id
    aliases,      \* rows of aliases: alias, user_id, is_Glasir
    apc,          \* where each adduser stands
    adding,       \* the address it is adding
    faults

directory == <<users, nextUser, aliases>>
admins    == <<apc, adding>>
dirVars   == <<directory, admins, faults>>

DirectoryTypeOK ==
    /\ users \in [Addresses -> 0 .. MaxUsers]
    /\ nextUser \in 1 .. MaxUsers + 1
    /\ aliases \subseteq [alias : AliasNames, user : UserIds, node : BOOLEAN]
    /\ apc \in [Admins -> {"idle", "create", "owner", "assign"}]
    /\ adding \in [Admins -> Addresses \cup {<<>>}]
    /\ \A c \in Admins : apc[c] # "idle" => adding[c] \in Addresses
    /\ faults \in 0 .. MaxFaults

\* Only 'system' exists, which is no address mail is sent to.
DirectoryInit ==
    /\ users = [a \in Addresses |-> 0]
    /\ nextUser = 1
    /\ aliases = {}
    /\ apc = [c \in Admins |-> "idle"]
    /\ adding = [c \in Admins |-> <<>>]
    /\ faults = 0

Fault == faults < MaxFaults /\ faults' = faults + 1

LiveUsers == {users[a] : a \in Addresses} \ {0}

\* The rows YggmailAliasOwner selects.
NodeRows == {r \in aliases : r.node}

-----------------------------------------------------------------------------
(* adduser                                                                 *)

Leave(c) ==
    /\ apc' = [apc EXCEPT ![c] = "idle"]
    /\ adding' = [adding EXCEPT ![c] = <<>>]

StageTo(c, stage) == apc' = [apc EXCEPT ![c] = stage]

\* UserExists says no, or fails, which is ignored; the prompts follow.
AddUser(c, a) ==
    /\ apc[c] = "idle"
    /\ \/ users[a] = 0 /\ UNCHANGED faults
       \/ users[a] # 0 /\ Fault
    /\ StageTo(c, "create")
    /\ adding' = [adding EXCEPT ![c] = a]
    /\ UNCHANGED directory

\* One transaction: the users row and its INBOX.
UserCreate(c) ==
    /\ apc[c] = "create"
    /\ users[adding[c]] = 0
    /\ nextUser <= MaxUsers
    /\ users' = [users EXCEPT ![adding[c]] = nextUser]
    /\ nextUser' = nextUser + 1
    /\ StageTo(c, "owner")
    /\ UNCHANGED <<aliases, adding, faults>>

\* The prompts are answered badly, the address was added meanwhile
\* (users.address is UNIQUE), or the command is killed.
AddUserFatal(c) ==
    /\ apc[c] # "idle"
    /\ Leave(c)
    /\ UNCHANGED <<directory, faults>>

\* YggmailAliasOwner: any error is taken for "nobody owns the node alias".
AliasOwner(c) ==
    /\ apc[c] = "owner"
    /\ \/ NodeRows = {} /\ StageTo(c, "assign") /\ UNCHANGED <<adding, faults>>
       \/ NodeRows # {} /\ Fault /\ StageTo(c, "assign") /\ UNCHANGED adding
       \/ NodeRows # {} /\ Leave(c) /\ UNCHANGED faults
    /\ UNCHANGED directory

-----------------------------------------------------------------------------
(* AssignYggmailAlias                                                      *)

Unflagged(rows) == {[alias |-> r.alias, user |-> r.user, node |-> FALSE] : r \in rows}

Without(rows, k) == {r \in rows : r.alias # k}

\* Mutant: the row is inserted for an address that is no user's, too.
RowForAnybody(a, k, node) == {[alias |-> k, user |-> users[a], node |-> node]}

\* INSERT ... SELECT id FROM users WHERE address = a: no row for no user.
RowFor(a, k, node) ==
    IF users[a] = 0 THEN {} ELSE {[alias |-> k, user |-> users[a], node |-> node]}

\* Mutant: the owner under the node's former key keeps the flag.
AssignYggmailAliasKeepingFlags(a, k) ==
    aliases' = Without(aliases, k) \cup RowFor(a, k, TRUE)

\* Mutant: the alias is not deleted first.
AssignYggmailAliasAgain(a, k) ==
    aliases' = Unflagged(aliases) \cup RowFor(a, k, TRUE)

\* UPDATE is_Glasir = 0, DELETE the alias, INSERT it for a, COMMIT.
AssignYggmailAlias(a, k) ==
    aliases' = Without(Unflagged(aliases), k) \cup RowFor(a, k, TRUE)

AssignAlias(c) ==
    /\ apc[c] = "assign"
    /\ \E k \in NodeAliases : AssignYggmailAlias(adding[c], k)
    /\ Leave(c)
    /\ UNCHANGED <<users, nextUser, faults>>

\* alias assign
AliasAssign(a, k) ==
    /\ AssignYggmailAlias(a, k)
    /\ UNCHANGED <<users, nextUser, admins, faults>>

-----------------------------------------------------------------------------
(* The other commands                                                      *)

\* alias add: aliases.alias is UNIQUE, an unknown target inserts nothing.
AddAlias(n, a) ==
    /\ users[a] # 0
    /\ \A r \in aliases : r.alias # n
    /\ aliases' = aliases \cup RowFor(a, n, FALSE)
    /\ UNCHANGED <<users, nextUser, admins, faults>>

\* alias remove
DeleteAlias(n) ==
    /\ \E r \in aliases : r.alias = n
    /\ aliases' = Without(aliases, n)
    /\ UNCHANGED <<users, nextUser, admins, faults>>

\* deluser: ON DELETE CASCADE takes aliases, mailboxes and messages along.
UserDelete(a) ==
    /\ users[a] # 0
    /\ users' = [users EXCEPT ![a] = 0]
    /\ aliases' = {r \in aliases : r.user # users[a]}
    /\ UNCHANGED <<nextUser, admins, faults>>

DirectoryNext ==
    \/ \E c \in Admins :
          \/ \E a \in Addresses : AddUser(c, a)
          \/ UserCreate(c)
          \/ AddUserFatal(c)
          \/ AliasOwner(c)
          \/ AssignAlias(c)
    \/ \E a \in Addresses :
          \/ \E k \in NodeAliases : AliasAssign(a, k)
          \/ \E n \in AliasNames : AddAlias(n, a)
          \/ UserDelete(a)
    \/ \E n \in AliasNames : DeleteAlias(n)

DirectorySpec == DirectoryInit /\ [][DirectoryNext]_dirVars

-----------------------------------------------------------------------------
(* What the tables promise                                                 *)

\* At most one row carries is_Glasir, also after the node's key changed and
\* whatever commands interleave: YggmailAliasOwner's LIMIT 1 hides nothing
\* (mariadb.go:434-472).
OneNodeOwner == \A r, q \in NodeRows : r = q

\* The comment of AssignYggmailAlias (mariadb.go:433) says it assigns the
\* alias to a user and takes it from others, and alias assign then prints
\* that the alias is assigned to the address.  For an address nobody has, it
\* succeeds as well, and the alias belongs to nobody.
AssignedMeansOwned ==
    [][\A a \in Addresses, k \in NodeAliases :
          AliasAssign(a, k) => \E r \in aliases' : r.alias = k /\ r.user = users[a]]_dirVars

\* adduser leaves a node alias alone that somebody owns: it prints that alias
\* assign is the way to change it (cmd_users.go:94-95).  An alias assign between
\* its look and its assignment refutes it; another adduser would, too.
AddUserTakesNothing ==
    [][\A c \in Admins : AssignAlias(c) => NodeRows \subseteq aliases']_dirVars

=============================================================================
