---------------------------- MODULE InboundProofs ----------------------------
(***************************************************************************)
(* Proofs about Inbound and the Directory it delivers through, for any     *)
(* users, aliases, administrators, peers and envelopes.                    *)
(*                                                                         *)
(* Three layers: types; the tables' keys, from which a name has one owner; *)
(* and the delivery loop, whose invariant says which recipients have their *)
(* copy at every point of a transmission.                                  *)
(***************************************************************************)
EXTENDS Inbound, TLAPS

-----------------------------------------------------------------------------
(* Types                                                                   *)

SessionTypeOK ==
    /\ spc \in [Peers -> {"idle", "select", "insert", "bump", "resolve"}]
    /\ todo \in [Peers -> Seq(Names)]
    /\ address \in [Peers -> Names \cup {<<>>}]
    /\ aliased \in [Peers -> BOOLEAN]
    /\ inbox \in [Peers -> 0 .. MaxUsers]
    /\ reply \in [Peers -> {"none", "250", "451", "550", "lost"}]

\* A session that is not idle has a recipient to serve.
Busy == \A p \in Peers : spc[p] # "idle" => todo[p] # <<>>

TypeInv == TypeOK /\ Busy

\* Data returns one of the replies a session gives.
LEMMA AnswerTyped ==
  ASSUME SessionTypeOK, Busy, NEW p \in Peers, NEW r \in {"250", "451", "550"},
         Answer(p, r)
  PROVE  SessionTypeOK' /\ Busy'
<1>1. /\ spc' \in [Peers -> {"idle", "select", "insert", "bump", "resolve"}]
      /\ reply' \in [Peers -> {"none", "250", "451", "550", "lost"}]
      /\ aliased' \in [Peers -> BOOLEAN]
  BY DEF Answer, StepTo, SessionTypeOK
<1>2. /\ todo' \in [Peers -> Seq(Names)]
      /\ address' \in [Peers -> Names \cup {<<>>}]
  BY DEF Answer, SessionTypeOK
<1>3. inbox' \in [Peers -> 0 .. MaxUsers]
  BY DirectoryAssumption DEF Answer, SessionTypeOK
<1>4. Busy'
  BY DEF Answer, StepTo, SessionTypeOK, Busy
<1> QED
  BY <1>1, <1>2, <1>3, <1>4 DEF SessionTypeOK

\* DeliverToUser is called with an address.
LEMMA TryTyped ==
  ASSUME SessionTypeOK, NEW p \in Peers, NEW a \in Names, NEW b \in BOOLEAN,
         Try(p, a, b)
  PROVE  /\ spc' \in [Peers -> {"idle", "select", "insert", "bump", "resolve"}]
         /\ address' \in [Peers -> Names \cup {<<>>}]
         /\ aliased' \in [Peers -> BOOLEAN]
         /\ inbox' \in [Peers -> 0 .. MaxUsers]
         /\ \A q \in Peers : q # p => spc'[q] = spc[q]
<1>1. inbox' \in [Peers -> 0 .. MaxUsers]
  BY DirectoryAssumption DEF Try, SessionTypeOK
<1> QED
  BY <1>1 DEF Try, StepTo, SessionTypeOK

\* The delivery loop goes on with a recipient, or ends.
LEMMA ServeTyped ==
  ASSUME SessionTypeOK, Busy, NEW p \in Peers, NEW rest \in Seq(Names),
         Serve(p, rest)
  PROVE  SessionTypeOK' /\ Busy'
<1>1. CASE rest = <<>>
  BY <1>1, AnswerTyped DEF Serve
<1>2. CASE rest # <<>>
  <2>1. Head(rest) \in Names
    BY <1>2
  <2>2. Try(p, Head(rest), FALSE)
    BY <1>2 DEF Serve
  <2>3. /\ todo' \in [Peers -> Seq(Names)]
        /\ reply' \in [Peers -> {"none", "250", "451", "550", "lost"}]
        /\ todo' = [todo EXCEPT ![p] = rest]
    BY <1>2 DEF Serve, SessionTypeOK
  <2>4. Busy'
    BY <1>2, <2>1, <2>2, <2>3, TryTyped DEF SessionTypeOK, Busy
  <2> QED
    BY <2>1, <2>2, <2>3, <2>4, TryTyped DEF SessionTypeOK
<1> QED
  BY <1>1, <1>2

\* A failed DeliverToUser leads to the alias or to 451.
LEMMA FailedTyped ==
  ASSUME SessionTypeOK, Busy, NEW p \in Peers, spc[p] # "idle", Failed(p)
  PROVE  SessionTypeOK' /\ Busy'
<1>1. CASE aliased[p]
  BY <1>1, AnswerTyped DEF Failed
<1>2. CASE ~aliased[p]
  BY <1>2 DEF Failed, StepTo, SessionTypeOK, Busy
<1> QED
  BY <1>1, <1>2

\* The rest of the recipients is a list of recipients.
LEMMA RestTyped ==
  ASSUME SessionTypeOK, Busy, NEW p \in Peers, spc[p] # "idle"
  PROVE  /\ Head(todo[p]) \in Names
         /\ Tail(todo[p]) \in Seq(Names)
         /\ Len(todo[p]) \in Nat
         /\ Len(Tail(todo[p])) = Len(todo[p]) - 1
  BY DEF SessionTypeOK, Busy

\* The tables are empty and no command or session runs.
LEMMA TypeInit == Init => TypeInv
  BY DirectoryAssumption, InboundAssumption
  DEF Init, DirectoryInit, TypeInv, TypeOK, DirectoryTypeOK, Busy

\* UPDATE aliases SET is_Glasir = 0 changes no other column.
LEMMA UnflaggedTyped ==
  ASSUME NEW names, NEW ids,
         NEW rows \in SUBSET [alias : names, user : ids, node : BOOLEAN]
  PROVE  Unflagged(rows) \subseteq [alias : names, user : ids, node : BOOLEAN]
<1> DEFINE cleared(r) == [alias |-> r.alias, user |-> r.user, node |-> FALSE]
<1>1. \A r \in rows :
         cleared(r) \in [alias : names, user : ids, node : BOOLEAN]
  OBVIOUS
<1>2. Unflagged(rows) = {cleared(r) : r \in rows}
  BY DEF Unflagged
<1> HIDE DEF cleared
<1> QED
  BY <1>1, <1>2

\* The administrators' commands keep the directory well typed.
LEMMA DirectoryTypeStep ==
  DirectoryTypeOK /\ DirectoryNext => DirectoryTypeOK'
<1> SUFFICES ASSUME DirectoryTypeOK, DirectoryNext PROVE DirectoryTypeOK'
  OBVIOUS
<1> USE DirectoryAssumption DEF DirectoryTypeOK
<1>a. ASSUME NEW a \in Addresses, NEW k \in AliasNames, NEW node \in BOOLEAN
      PROVE  RowFor(a, k, node) \subseteq
                [alias : AliasNames, user : UserIds, node : BOOLEAN]
  BY DEF RowFor, UserIds
<1>b. ASSUME NEW a \in Addresses, NEW k \in NodeAliases, AssignYggmailAlias(a, k)
      PROVE  aliases' \subseteq [alias : AliasNames, user : UserIds, node : BOOLEAN]
  <2>1. k \in AliasNames
    BY DEF AliasNames
  <2>2. RowFor(a, k, TRUE) \subseteq
           [alias : AliasNames, user : UserIds, node : BOOLEAN]
    BY <1>a, <2>1
  <2>3. Unflagged(aliases) \subseteq
           [alias : AliasNames, user : UserIds, node : BOOLEAN]
    BY UnflaggedTyped
  <2> QED
    BY <1>b, <2>2, <2>3 DEF AssignYggmailAlias, Without
<1>1. ASSUME NEW c \in Admins, NEW a \in Addresses, AddUser(c, a)
      PROVE  DirectoryTypeOK'
  BY <1>1 DEF AddUser, Fault, StageTo, directory
<1>2. ASSUME NEW c \in Admins, UserCreate(c) PROVE DirectoryTypeOK'
  BY <1>2 DEF UserCreate, StageTo
<1>3. ASSUME NEW c \in Admins, AddUserFatal(c) PROVE DirectoryTypeOK'
  BY <1>3 DEF AddUserFatal, Leave, directory
<1>4. ASSUME NEW c \in Admins, AliasOwner(c) PROVE DirectoryTypeOK'
  BY SMTT(30), <1>4 DEF AliasOwner, Leave, StageTo, Fault, directory
<1>5. ASSUME NEW c \in Admins, AssignAlias(c) PROVE DirectoryTypeOK'
  <2>1. adding[c] \in Addresses
    BY <1>5 DEF AssignAlias
  <2>2. aliases' \subseteq [alias : AliasNames, user : UserIds, node : BOOLEAN]
    BY <1>5, <1>b, <2>1 DEF AssignAlias
  <2> QED
    BY <1>5, <2>2 DEF AssignAlias, Leave
<1>6. ASSUME NEW a \in Addresses, NEW k \in NodeAliases, AliasAssign(a, k)
      PROVE  DirectoryTypeOK'
  BY <1>6, <1>b DEF AliasAssign, admins
<1>7. ASSUME NEW a \in Addresses, NEW n \in AliasNames, AddAlias(n, a)
      PROVE  DirectoryTypeOK'
  BY <1>7, <1>a DEF AddAlias, admins
<1>8. ASSUME NEW a \in Addresses, UserDelete(a) PROVE DirectoryTypeOK'
  BY <1>8 DEF UserDelete, admins
<1>9. ASSUME NEW n \in AliasNames, DeleteAlias(n) PROVE DirectoryTypeOK'
  BY <1>9 DEF DeleteAlias, Without, admins
<1> QED
  BY <1>1, <1>2, <1>3, <1>4, <1>5, <1>6, <1>7, <1>8, <1>9 DEF DirectoryNext

\* Every step of a session, of a command and a crash keep the types.
LEMMA TypeStep == TypeInv /\ [Next]_vars => TypeInv'
<1> SUFFICES ASSUME TypeInv, [Next]_vars PROVE TypeInv'
  OBVIOUS
<1>t. /\ DirectoryTypeOK /\ SessionTypeOK /\ Busy
      /\ sends \in [Peers -> 0 .. MaxSends]
      /\ stored \subseteq Copies
  BY DEF TypeInv, TypeOK, SessionTypeOK
<1>g. ASSUME DirectoryTypeOK', SessionTypeOK', Busy',
             sends' \in [Peers -> 0 .. MaxSends], stored' \subseteq Copies
      PROVE  TypeInv'
  BY <1>g DEF TypeInv, TypeOK, SessionTypeOK
<1>d. ASSUME UNCHANGED <<directory, admins>>, UNCHANGED faults \/ Fault
      PROVE  DirectoryTypeOK'
  BY <1>t, <1>d, DirectoryAssumption
  DEF DirectoryTypeOK, directory, admins, Fault
<1>1. ASSUME NEW p \in Peers, Data(p) PROVE TypeInv'
  <2>1. RcptsOf[p] \in Seq(Names)
    BY InboundAssumption
  <2>2. SessionTypeOK' /\ Busy'
    BY <1>1, <1>t, <2>1, ServeTyped DEF Data
  <2>3. sends' \in [Peers -> 0 .. MaxSends]
    BY <1>1, <1>t, InboundAssumption DEF Data, Transmit
  <2>4. DirectoryTypeOK'
    BY <1>1, <1>d DEF Data, Transmit
  <2> QED
    BY <1>1, <1>t, <1>g, <2>2, <2>3, <2>4 DEF Data
<1>2. ASSUME NEW p \in Peers, DataUnpaid(p) PROVE TypeInv'
  <2>2. SessionTypeOK' /\ Busy'
    BY <1>2, <1>t, AnswerTyped DEF DataUnpaid
  <2>3. sends' \in [Peers -> 0 .. MaxSends]
    BY <1>2, <1>t, InboundAssumption DEF DataUnpaid, Transmit
  <2>4. DirectoryTypeOK'
    BY <1>2, <1>d DEF DataUnpaid, Transmit
  <2> QED
    BY <1>2, <1>t, <1>g, <2>2, <2>3, <2>4 DEF DataUnpaid
<1>3. ASSUME NEW p \in Peers, Select(p) PROVE TypeInv'
  <2>1. users[address[p]] \in 0 .. MaxUsers
    BY <1>3, <1>t DEF Select, DirectoryTypeOK
  <2>2. SessionTypeOK' /\ Busy'
    BY <1>3, <1>t, <2>1 DEF Select, StepTo, SessionTypeOK, Busy
  <2> QED
    BY <1>3, <1>t, <1>g, <1>d, <2>2 DEF Select, dirVars
<1>4. ASSUME NEW p \in Peers, SelectNobody(p) \/ InsertRefused(p) PROVE TypeInv'
  <2>1. spc[p] # "idle" /\ Failed(p) /\ UNCHANGED <<dirVars, sends, stored>>
    BY <1>4 DEF SelectNobody, InsertRefused
  <2>2. SessionTypeOK' /\ Busy'
    BY <1>t, <2>1, FailedTyped
  <2> QED
    BY <1>t, <1>g, <1>d, <2>1, <2>2 DEF dirVars
<1>5. ASSUME NEW p \in Peers, Insert(p) PROVE TypeInv'
  <2>1. /\ inbox[p] \in UserIds
        /\ Len(todo[p]) \in Nat
        /\ sends[p] \in Nat
    BY <1>5, <1>t, InboundAssumption
    DEF Insert, LiveUsers, DirectoryTypeOK, UserIds, SessionTypeOK
  <2>2. stored' \subseteq Copies
    <3>1. Again(p) \in BOOLEAN
      BY DEF Again
    <3>2. [from |-> p, send |-> sends[p], left |-> Len(todo[p]),
           user |-> inbox[p], again |-> Again(p)] \in Copies
      BY <2>1, <3>1 DEF Copies
    <3> QED
      BY <1>5, <1>t, <3>2 DEF Insert
  <2>3. SessionTypeOK' /\ Busy'
    BY <1>5, <1>t DEF Insert, StepTo, SessionTypeOK, Busy
  <2> QED
    BY <1>5, <1>t, <1>g, <1>d, <2>2, <2>3 DEF Insert, dirVars
<1>6. ASSUME NEW p \in Peers, Bump(p) PROVE TypeInv'
  <2>1. SessionTypeOK' /\ Busy'
    BY <1>6, <1>t, RestTyped, ServeTyped DEF Bump
  <2> QED
    BY <1>6, <1>t, <1>g, <1>d, <2>1 DEF Bump, dirVars
<1>7. ASSUME NEW p \in Peers, BumpLost(p) PROVE TypeInv'
  <2>1. SessionTypeOK' /\ Busy'
    BY <1>7, <1>t, FailedTyped DEF BumpLost
  <2> QED
    BY <1>7, <1>t, <1>g, <1>d, <2>1 DEF BumpLost
<1>8. ASSUME NEW p \in Peers, ResolveAlias(p) PROVE TypeInv'
  <2>1. SessionTypeOK' /\ Busy'
    <3>1. PICK a \in Names : Try(p, a, TRUE)
      BY <1>8 DEF ResolveAlias, Targets, Names
    <3>2. spc[p] # "idle" /\ UNCHANGED <<todo, reply>>
      BY <1>8 DEF ResolveAlias
    <3> QED
      BY <1>t, <3>1, <3>2, TryTyped DEF SessionTypeOK, Busy
  <2> QED
    BY <1>8, <1>t, <1>g, <1>d, <2>1 DEF ResolveAlias, dirVars
<1>9. ASSUME NEW p \in Peers, ResolveNobody(p) PROVE TypeInv'
  <2>1. SessionTypeOK' /\ Busy'
    BY <1>9, <1>t, AnswerTyped DEF ResolveNobody
  <2> QED
    BY <1>9, <1>t, <1>g, <1>d, <2>1 DEF ResolveNobody, dirVars
<1>10. ASSUME DirectoryNext, UNCHANGED inVars PROVE TypeInv'
  <2>1. DirectoryTypeOK'
    BY <1>10, <1>t, DirectoryTypeStep
  <2> QED
    BY <1>10, <1>t, <1>g, <2>1 DEF inVars, session, SessionTypeOK, Busy
<1>11. ASSUME Crash PROVE TypeInv'
  <2>1. SessionTypeOK' /\ Busy'
    BY <1>11, <1>t, DirectoryAssumption DEF Crash, SessionTypeOK, Busy
  <2> QED
    BY <1>11, <1>t, <1>g, <1>d, <2>1 DEF Crash
<1>12. CASE UNCHANGED vars
  <2>1. DirectoryTypeOK'
    BY <1>12, <1>d DEF vars, dirVars
  <2> QED
    BY <1>12, <1>t, <1>g, <2>1 DEF vars, inVars, session, SessionTypeOK, Busy
<1> QED
  BY <1>1, <1>2, <1>3, <1>4, <1>5, <1>6, <1>7, <1>8, <1>9, <1>10, <1>11, <1>12
  DEF Next, Session

\* The directory, the sessions and the copies stay well typed.
THEOREM TypeCorrect == Spec => []TypeOK
<1>1. TypeInv => TypeOK
  BY DEF TypeInv
<1> QED
  BY TypeInit, TypeStep, <1>1, PTL DEF Spec

-----------------------------------------------------------------------------
(* The keys of the tables                                                  *)

AliasUnique == \A r, q \in aliases : r.alias = q.alias => r = q

KeyInv ==
    /\ \A a \in Addresses : users[a] < nextUser
    /\ \A a, b \in Addresses : users[a] = users[b] /\ users[a] # 0 => a = b
    /\ AliasUnique
    /\ OneNodeOwner

\* There are no users and no aliases.
LEMMA KeyInit == Init => KeyInv
  BY DEF Init, DirectoryInit, KeyInv, AliasUnique, OneNodeOwner, NodeRows

\* INSERT ... SELECT inserts at most one row, for the alias it is given.
LEMMA OneRow ==
  ASSUME NEW a, NEW k, NEW node
  PROVE  /\ \A r, q \in RowFor(a, k, node) : r = q
         /\ \A r \in RowFor(a, k, node) : r.alias = k /\ r.node = node
<1> DEFINE row == [alias |-> k, user |-> users[a], node |-> node]
<1>1. row.alias = k /\ row.node = node
  OBVIOUS
<1>2. \A r \in RowFor(a, k, node) : r = row
  BY DEF RowFor
<1> HIDE DEF row
<1> QED
  BY <1>1, <1>2

\* AssignYggmailAlias leaves the alias with one row at most and the flag on
\* that row at most.
LEMMA AssignKeepsKeys ==
  ASSUME NEW a \in Addresses, NEW k, AliasUnique, AssignYggmailAlias(a, k)
  PROVE  AliasUnique' /\ OneNodeOwner'
<1> DEFINE kept == Without(Unflagged(aliases), k)
<1>1. \A r \in kept : r.alias # k /\ ~r.node
  BY DEF Unflagged, Without
<1>2. \A r, q \in kept : r.alias = q.alias => r = q
  <2> DEFINE cleared(x) == [alias |-> x.alias, user |-> x.user, node |-> FALSE]
  <2>1. \A r \in kept : \E x \in aliases : r = cleared(x)
    BY DEF Unflagged, Without
  <2>2. \A x : cleared(x).alias = x.alias
    OBVIOUS
  <2> HIDE DEF cleared, kept
  <2> QED
    BY <2>1, <2>2 DEF AliasUnique
<1>3. /\ \A r, q \in RowFor(a, k, TRUE) : r = q
      /\ \A r \in RowFor(a, k, TRUE) : r.alias = k
  BY OneRow
<1>4. aliases' = kept \cup RowFor(a, k, TRUE)
  BY DEF AssignYggmailAlias
<1> HIDE DEF kept
<1>5. AliasUnique'
  BY <1>1, <1>2, <1>3, <1>4 DEF AliasUnique
<1>6. OneNodeOwner'
  BY <1>1, <1>3, <1>4 DEF OneNodeOwner, NodeRows
<1> QED
  BY <1>5, <1>6

\* Every command keeps the keys; sessions never write the directory.
LEMMA KeyStep == TypeInv /\ KeyInv /\ [Next]_vars => KeyInv'
<1> SUFFICES ASSUME TypeInv, KeyInv, [Next]_vars PROVE KeyInv'
  OBVIOUS
<1>t. /\ users \in [Addresses -> 0 .. MaxUsers]
      /\ nextUser \in 1 .. MaxUsers + 1
      /\ \A c \in Admins : apc[c] # "idle" => adding[c] \in Addresses
  BY DEF TypeInv, TypeOK, DirectoryTypeOK
<1>m. MaxUsers \in Nat
  BY DirectoryAssumption
<1>0. ASSUME UNCHANGED directory PROVE KeyInv'
  BY <1>0 DEF directory, KeyInv, AliasUnique, OneNodeOwner, NodeRows
<1>a. ASSUME NEW a \in Addresses, NEW k, AssignYggmailAlias(a, k),
             UNCHANGED <<users, nextUser>>
      PROVE  KeyInv'
  <2>1. AliasUnique' /\ OneNodeOwner'
    BY <1>a, AssignKeepsKeys DEF KeyInv
  <2> QED
    BY <1>a, <2>1 DEF KeyInv
<1>r. ASSUME aliases' \subseteq aliases, UNCHANGED <<users, nextUser>>
      PROVE  KeyInv'
  BY <1>r DEF KeyInv, AliasUnique, OneNodeOwner, NodeRows
<1>1. ASSUME NEW c \in Admins, UserCreate(c) PROVE KeyInv'
  <2>1. adding[c] \in Addresses
    BY <1>1, <1>t DEF UserCreate
  <2>2. AliasUnique' /\ OneNodeOwner'
    BY <1>1 DEF UserCreate, KeyInv, AliasUnique, OneNodeOwner, NodeRows
  <2>3. \A a \in Addresses : users'[a] = IF a = adding[c] THEN nextUser ELSE users[a]
    BY <1>1, <1>t, <2>1 DEF UserCreate
  <2>4. nextUser' = nextUser + 1
    BY <1>1 DEF UserCreate
  <2> QED
    BY <1>t, <1>m, <2>2, <2>3, <2>4 DEF KeyInv
<1>2. ASSUME NEW c \in Admins, AssignAlias(c) PROVE KeyInv'
  BY <1>2, <1>t, <1>a DEF AssignAlias
<1>3. ASSUME NEW a \in Addresses, NEW k \in NodeAliases, AliasAssign(a, k)
      PROVE  KeyInv'
  BY <1>3, <1>a DEF AliasAssign
<1>4. ASSUME NEW a \in Addresses, NEW n \in AliasNames, AddAlias(n, a)
      PROVE  KeyInv'
  <2>1. /\ aliases' = aliases \cup RowFor(a, n, FALSE)
        /\ \A r \in aliases : r.alias # n
        /\ UNCHANGED <<users, nextUser>>
    BY <1>4 DEF AddAlias
  <2>2. /\ \A r, q \in RowFor(a, n, FALSE) : r = q
        /\ \A r \in RowFor(a, n, FALSE) : r.alias = n /\ ~r.node
    BY OneRow
  <2> QED
    BY <2>1, <2>2 DEF KeyInv, AliasUnique, OneNodeOwner, NodeRows
<1>5. ASSUME NEW a \in Addresses, UserDelete(a) PROVE KeyInv'
  <2>1. AliasUnique' /\ OneNodeOwner'
    BY <1>5 DEF UserDelete, KeyInv, AliasUnique, OneNodeOwner, NodeRows
  <2>2. \A b \in Addresses : users'[b] = IF b = a THEN 0 ELSE users[b]
    BY <1>5, <1>t DEF UserDelete
  <2>3. nextUser' = nextUser
    BY <1>5 DEF UserDelete
  <2> QED
    BY <1>t, <1>m, <2>1, <2>2, <2>3 DEF KeyInv
<1>6. ASSUME NEW n \in AliasNames, DeleteAlias(n) PROVE KeyInv'
  BY <1>6, <1>r DEF DeleteAlias, Without
<1>7. ASSUME NEW c \in Admins,
             AddUserFatal(c) \/ AliasOwner(c) \/ \E a \in Addresses : AddUser(c, a)
      PROVE  KeyInv'
  BY <1>7, <1>0 DEF AddUserFatal, AliasOwner, AddUser
<1>8. CASE DirectoryNext
  BY <1>8, <1>1, <1>2, <1>3, <1>4, <1>5, <1>6, <1>7 DEF DirectoryNext
<1>9. ASSUME NEW p \in Peers, Session(p) PROVE KeyInv'
  BY <1>9, <1>0
  DEF Session, Data, DataUnpaid, Select, SelectNobody, Insert, InsertRefused,
      Bump, BumpLost, ResolveAlias, ResolveNobody, dirVars
<1>10. CASE Crash
  BY <1>10, <1>0 DEF Crash
<1>11. CASE UNCHANGED vars
  BY <1>11, <1>0 DEF vars, dirVars
<1> QED
  BY <1>8, <1>9, <1>10, <1>11 DEF Next

\* However commands interleave, and whatever keys the node had, at most one
\* alias is the node's (mariadb.go:434-472).
THEOREM NodeAliasHasOneOwner == Spec => []OneNodeOwner
<1>1. KeyInv => OneNodeOwner
  BY DEF KeyInv
<1> QED
  BY TypeInit, TypeStep, KeyInit, KeyStep, <1>1, PTL DEF Spec

\* ResolveAlias has at most one answer (mariadb.go:421-431).
THEOREM NamesResolveOneWay == Spec => []OneTarget
<1>1. TypeInv /\ KeyInv => OneTarget
  <2> SUFFICES ASSUME TypeInv, KeyInv, NEW n \in AliasNames,
                      NEW a \in Targets(n), NEW b \in Targets(n)
               PROVE  a = b
    BY DEF OneTarget
  <2>1. /\ aliases \subseteq [alias : AliasNames, user : UserIds, node : BOOLEAN]
        /\ MaxUsers \in Nat
    BY DirectoryAssumption DEF TypeInv, TypeOK, DirectoryTypeOK
  <2>2. PICK r \in aliases : r.alias = n /\ r.user = users[a]
    BY DEF Targets
  <2>3. PICK q \in aliases : q.alias = n /\ q.user = users[b]
    BY DEF Targets
  <2>4. r = q
    BY <2>2, <2>3 DEF KeyInv, AliasUnique
  <2>5. users[a] = users[b] /\ users[a] # 0
    BY <2>1, <2>2, <2>3, <2>4 DEF UserIds
  <2> QED
    BY <2>5 DEF KeyInv, Targets
<1> QED
  BY TypeInit, TypeStep, KeyInit, KeyStep, <1>1, PTL DEF Spec

-----------------------------------------------------------------------------
(* The delivery loop                                                       *)

\* The first k recipients have their copy of the current transmission of p.
Served(p, k) ==
    \A i \in DOMAIN RcptsOf[p] : i <= k => HasCopy(p, sends[p], i)

LoopAt(p) ==
    /\ spc[p] # "idle" =>
          /\ reply[p] # "250"
          /\ Served(p, Len(RcptsOf[p]) - Len(todo[p]))
    /\ spc[p] = "bump" =>
          \E x \in stored :
              x.from = p /\ x.send = sends[p] /\ x.left = Len(todo[p])
    /\ reply[p] = "250" => Served(p, Len(RcptsOf[p]))

LoopInv == \A p \in Peers : LoopAt(p)

\* Nobody has transmitted anything.
LEMMA LoopInit == Init => LoopInv
  BY DEF Init, LoopInv, LoopAt

\* Copies stay, so a step of somebody else costs p nothing.
LEMMA LoopFrame ==
  ASSUME NEW p \in Peers, LoopAt(p), stored \subseteq stored',
         spc'[p] = spc[p], todo'[p] = todo[p], sends'[p] = sends[p],
         reply'[p] = reply[p]
  PROVE  LoopAt(p)'
<1>1. \A i : HasCopy(p, sends[p], i) => HasCopy(p, sends[p], i)'
  BY DEF HasCopy
<1> QED
  BY <1>1 DEF LoopAt, Served, HasCopy

\* A refusal claims nothing.
LEMMA LoopAnswer ==
  ASSUME TypeInv, NEW p \in Peers, NEW r \in {"451", "550"}, Answer(p, r)
  PROVE  LoopAt(p)'
  BY DEF TypeInv, TypeOK, Answer, StepTo, LoopAt

\* Nor does the way to the alias.
LEMMA LoopFailed ==
  ASSUME TypeInv, NEW p \in Peers, LoopAt(p), spc[p] # "idle", Failed(p),
         stored' = stored, sends' = sends
  PROVE  LoopAt(p)'
<1>1. CASE aliased[p]
  BY <1>1, LoopAnswer DEF Failed
<1>2. CASE ~aliased[p]
  BY <1>2 DEF Failed, StepTo, TypeInv, TypeOK, LoopAt, Served, HasCopy
<1> QED
  BY <1>1, <1>2

\* The loop may go on with rest once everybody before rest is served, and
\* 250 is returned when rest is empty.
LEMMA LoopServe ==
  ASSUME TypeInv, NEW p \in Peers, NEW rest \in Seq(Names), Serve(p, rest),
         Served(p, Len(RcptsOf[p]) - Len(rest))'
  PROVE  LoopAt(p)'
<1>t. /\ spc \in [Peers -> {"idle", "select", "insert", "bump", "resolve"}]
      /\ todo \in [Peers -> Seq(Names)]
      /\ reply \in [Peers -> {"none", "250", "451", "550", "lost"}]
      /\ Len(RcptsOf[p]) \in Nat
  BY InboundAssumption DEF TypeInv, TypeOK
<1>1. CASE rest = <<>>
  <2>1. Served(p, Len(RcptsOf[p]))'
    BY <1>1, <1>t
  <2>2. spc'[p] = "idle"
    BY <1>1, <1>t DEF Serve, Answer, StepTo
  <2> QED
    BY <2>1, <2>2 DEF LoopAt
<1>2. CASE rest # <<>>
  <2>1. todo'[p] = rest /\ spc'[p] = "select" /\ reply'[p] = "none"
    BY <1>2, <1>t DEF Serve, Try, StepTo
  <2> QED
    BY <2>1 DEF LoopAt
<1> QED
  BY <1>1, <1>2

\* What a step does to the sessions it does not belong to.
Apart(p) ==
    \A q \in Peers \ {p} :
        /\ spc'[q] = spc[q] /\ todo'[q] = todo[q]
        /\ sends'[q] = sends[q] /\ reply'[q] = reply[q]

\* A session's step is its own.
LEMMA SessionApart ==
  ASSUME TypeInv, NEW p \in Peers, Session(p)
  PROVE  Apart(p) /\ stored \subseteq stored'
<1>t. /\ spc \in [Peers -> {"idle", "select", "insert", "bump", "resolve"}]
      /\ todo \in [Peers -> Seq(Names)]
      /\ sends \in [Peers -> 0 .. MaxSends]
      /\ reply \in [Peers -> {"none", "250", "451", "550", "lost"}]
  BY DEF TypeInv, TypeOK
<1>1. ASSUME NEW r, Answer(p, r), sends' = sends PROVE Apart(p)
  BY <1>t, <1>1 DEF Answer, StepTo, Apart
<1>2. ASSUME NEW rest, Serve(p, rest), sends' = sends PROVE Apart(p)
  BY <1>t, <1>1, <1>2 DEF Serve, Try, StepTo, Apart
<1>3. ASSUME Failed(p), sends' = sends PROVE Apart(p)
  BY <1>t, <1>1, <1>3 DEF Failed, StepTo, Apart
<1>4. ASSUME Data(p) PROVE Apart(p) /\ stored \subseteq stored'
  <2>1. sends' = [sends EXCEPT ![p] = @ + 1] /\ Serve(p, RcptsOf[p])
    BY <1>4 DEF Data, Transmit
  <2>2. Apart(p)
    BY <1>t, <2>1 DEF Serve, Answer, Try, StepTo, Apart
  <2> QED
    BY <1>4, <2>2 DEF Data
<1>5. ASSUME DataUnpaid(p) PROVE Apart(p) /\ stored \subseteq stored'
  BY <1>t, <1>5 DEF DataUnpaid, Transmit, Answer, StepTo, Apart
<1>6. ASSUME Select(p) \/ Insert(p) PROVE Apart(p) /\ stored \subseteq stored'
  BY <1>t, <1>6 DEF Select, Insert, StepTo, Apart
<1>7. ASSUME SelectNobody(p) \/ InsertRefused(p) \/ BumpLost(p)
      PROVE  Apart(p) /\ stored \subseteq stored'
  BY <1>3, <1>7 DEF SelectNobody, InsertRefused, BumpLost
<1>8. ASSUME Bump(p) PROVE Apart(p) /\ stored \subseteq stored'
  BY <1>2, <1>8 DEF Bump
<1>9. ASSUME ResolveAlias(p) PROVE Apart(p) /\ stored \subseteq stored'
  BY <1>t, <1>9 DEF ResolveAlias, Try, StepTo, Apart
<1>10. ASSUME ResolveNobody(p) PROVE Apart(p) /\ stored \subseteq stored'
  BY <1>1, <1>10 DEF ResolveNobody
<1> QED
  BY <1>4, <1>5, <1>6, <1>7, <1>8, <1>9, <1>10 DEF Session

\* Every step of the loop accounts for the recipients before the current one.
LEMMA LoopStep == TypeInv /\ LoopInv /\ [Next]_vars => LoopInv'
<1> SUFFICES ASSUME TypeInv, LoopInv, [Next]_vars PROVE LoopInv'
  OBVIOUS
<1>t. /\ spc \in [Peers -> {"idle", "select", "insert", "bump", "resolve"}]
      /\ todo \in [Peers -> Seq(Names)]
      /\ sends \in [Peers -> 0 .. MaxSends]
      /\ reply \in [Peers -> {"none", "250", "451", "550", "lost"}]
      /\ \A p \in Peers : Len(RcptsOf[p]) \in Nat /\ RcptsOf[p] \in Seq(Names)
  BY InboundAssumption DEF TypeInv, TypeOK
<1>r. \A p \in Peers : spc[p] # "idle" =>
         /\ Tail(todo[p]) \in Seq(Names)
         /\ Len(todo[p]) \in Nat
         /\ Len(Tail(todo[p])) = Len(todo[p]) - 1
  BY RestTyped DEF TypeInv, TypeOK, SessionTypeOK
<1>s. ASSUME NEW p \in Peers, Session(p), LoopAt(p)' PROVE LoopInv'
  BY <1>s, SessionApart, LoopFrame DEF Apart, LoopInv
<1>1. ASSUME NEW p \in Peers, Data(p) PROVE LoopAt(p)'
  <2>1. Serve(p, RcptsOf[p])
    BY <1>1 DEF Data
  <2>2. Served(p, Len(RcptsOf[p]) - Len(RcptsOf[p]))'
    BY <1>t DEF Served
  <2> QED
    BY <1>t, <2>1, <2>2, LoopServe
<1>2. ASSUME NEW p \in Peers, DataUnpaid(p) PROVE LoopAt(p)'
  BY <1>2, LoopAnswer DEF DataUnpaid
<1>3. ASSUME NEW p \in Peers, Select(p) PROVE LoopAt(p)'
  BY <1>3, <1>t DEF Select, StepTo, LoopInv, LoopAt, Served, HasCopy
<1>4. ASSUME NEW p \in Peers, SelectNobody(p) \/ InsertRefused(p) \/ BumpLost(p)
      PROVE  LoopAt(p)'
  BY <1>4, LoopFailed DEF SelectNobody, InsertRefused, BumpLost, LoopInv
<1>5. ASSUME NEW p \in Peers, Insert(p) PROVE LoopAt(p)'
  <2>1. /\ spc[p] = "insert" /\ spc'[p] = "bump"
        /\ UNCHANGED <<todo, sends, reply>>
        /\ stored \subseteq stored'
    BY <1>5, <1>t DEF Insert, StepTo
  <2>2. \E x \in stored' :
            x.from = p /\ x.send = sends[p] /\ x.left = Len(todo[p])
    <3> DEFINE copy == [from |-> p, send |-> sends[p], left |-> Len(todo[p]),
                        user |-> inbox[p], again |-> Again(p)]
    <3>1. copy \in stored'
      BY <1>5 DEF Insert
    <3>2. copy.from = p /\ copy.send = sends[p] /\ copy.left = Len(todo[p])
      OBVIOUS
    <3> QED
      BY <3>1, <3>2
  <2> QED
    BY <2>1, <2>2 DEF LoopInv, LoopAt, Served, HasCopy
<1>6. ASSUME NEW p \in Peers, Bump(p) PROVE LoopAt(p)'
  <2>1. /\ spc[p] = "bump" /\ Serve(p, Tail(todo[p]))
        /\ UNCHANGED <<sends, stored>>
    BY <1>6 DEF Bump
  <2>2. Served(p, Len(RcptsOf[p]) - Len(todo[p]))
    BY <2>1 DEF LoopInv, LoopAt
  <2>3. \E x \in stored :
            x.from = p /\ x.send = sends[p] /\ x.left = Len(todo[p])
    BY <2>1 DEF LoopInv, LoopAt
  <2>4. Served(p, Len(RcptsOf[p]) - Len(Tail(todo[p])))
    <3> SUFFICES ASSUME NEW i \in DOMAIN RcptsOf[p],
                        i <= Len(RcptsOf[p]) - Len(Tail(todo[p]))
                 PROVE  HasCopy(p, sends[p], i)
      BY DEF Served
    <3>0. i \in Nat /\ Len(todo[p]) \in Nat
          /\ Len(Tail(todo[p])) = Len(todo[p]) - 1
      BY <1>t, <1>r, <2>1
    <3>1. CASE i <= Len(RcptsOf[p]) - Len(todo[p])
      BY <2>2, <3>1 DEF Served
    <3>2. CASE ~(i <= Len(RcptsOf[p]) - Len(todo[p]))
      <4>1. Len(RcptsOf[p]) - i + 1 = Len(todo[p])
        <5>1. \A r, t, k \in Nat :
                 k <= r - (t - 1) /\ ~(k <= r - t) => r - k + 1 = t
          OBVIOUS
        <5>2. i <= Len(RcptsOf[p]) - (Len(todo[p]) - 1)
          BY <3>0
        <5> QED
          BY <1>t, <3>0, <3>2, <5>1, <5>2
      <4> QED
        BY <2>3, <4>1 DEF HasCopy
    <3> QED
      BY <3>1, <3>2
  <2>5. ASSUME NEW rest, rest = Tail(todo[p])
        PROVE  Served(p, Len(RcptsOf[p]) - Len(rest))'
    BY <2>4, <2>1, <2>5 DEF Served, HasCopy
  <2>6. PICK rest \in Seq(Names) : rest = Tail(todo[p])
    BY <1>r, <2>1
  <2> QED
    BY <2>1, <2>5, <2>6, LoopServe
<1>7. ASSUME NEW p \in Peers, ResolveAlias(p) PROVE LoopAt(p)'
  BY <1>7, <1>t DEF ResolveAlias, Try, StepTo, LoopInv, LoopAt, Served, HasCopy
<1>8. ASSUME NEW p \in Peers, ResolveNobody(p) PROVE LoopAt(p)'
  BY <1>8, LoopAnswer DEF ResolveNobody
<1>9. ASSUME NEW p \in Peers, Session(p) PROVE LoopInv'
  BY <1>9, <1>s, <1>1, <1>2, <1>3, <1>4, <1>5, <1>6, <1>7, <1>8 DEF Session
<1>10. CASE Crash
  BY <1>10, <1>t DEF Crash, LoopInv, LoopAt, Served, HasCopy
<1>11. CASE UNCHANGED inVars
  BY <1>11 DEF inVars, session, LoopInv, LoopAt, Served, HasCopy
<1> QED
  BY <1>9, <1>10, <1>11 DEF Next, vars

\* A peer that was told 250 has left a copy for every recipient, whatever the
\* administrators, other sessions, failed statements and crashes did
\* (session_ygg.go:152-174).
THEOREM AcceptedMailIsStored == Spec => []AcceptedMeansStored
<1>1. LoopInv => AcceptedMeansStored
  <2> SUFFICES ASSUME LoopInv, NEW p \in Peers, reply[p] = "250",
                      NEW i \in DOMAIN RcptsOf[p]
               PROVE  HasCopy(p, sends[p], i)
    BY DEF AcceptedMeansStored
  <2>1. i <= Len(RcptsOf[p])
    BY InboundAssumption
  <2> QED
    BY <2>1 DEF LoopInv, LoopAt, Served
<1> QED
  BY TypeInit, TypeStep, LoopInit, LoopStep, <1>1, PTL DEF Spec

-----------------------------------------------------------------------------
(* One copy each                                                           *)

\* The copies of the transmission in progress are those of the recipients
\* before the current one, which has its own only between INSERT and UPDATE.
Ahead ==
    \A x \in stored :
        /\ x.send <= sends[x.from]
        /\ x.send = sends[x.from] /\ spc[x.from] # "idle" =>
              \/ x.left > Len(todo[x.from])
              \/ x.left = Len(todo[x.from]) /\ spc[x.from] = "bump"

OnceInv == OnceEach /\ (faults = 0 => Ahead)

\* Nothing is stored.
LEMMA OnceInit == Init => OnceInv
  BY DEF Init, OnceInv, OnceEach, Ahead

\* Without faults the loop never comes back to a recipient it has served.
LEMMA OnceStep == TypeInv /\ OnceInv /\ [Next]_vars => OnceInv'
<1> SUFFICES ASSUME TypeInv, OnceInv, [Next]_vars PROVE OnceInv'
  OBVIOUS
<1>t. /\ spc \in [Peers -> {"idle", "select", "insert", "bump", "resolve"}]
      /\ todo \in [Peers -> Seq(Names)]
      /\ sends \in [Peers -> Nat]
      /\ faults \in Nat
      /\ \A x \in stored : x.from \in Peers /\ x.send \in Nat /\ x.left \in Nat
  <2>1. /\ sends \in [Peers -> 0 .. MaxSends] /\ MaxSends \in Nat
        /\ faults \in 0 .. MaxFaults /\ MaxFaults \in Nat
        /\ stored \subseteq Copies
    BY InboundAssumption, DirectoryAssumption DEF TypeInv, TypeOK, DirectoryTypeOK
  <2> QED
    BY <2>1 DEF TypeInv, TypeOK, Copies
<1>r. \A p \in Peers : spc[p] # "idle" =>
         /\ Len(todo[p]) \in Nat
         /\ Len(Tail(todo[p])) = Len(todo[p]) - 1
  BY RestTyped DEF TypeInv, TypeOK, SessionTypeOK
<1>f. ASSUME Fault PROVE OnceInv'
  <2>1. faults' # 0
    BY <1>t, <1>f DEF Fault
  <2> QED
    BY <2>1 DEF OnceInv, OnceEach
\* No new copy: Ahead is all that a step can disturb.
<1>s. ASSUME stored' = stored, faults' = faults, faults = 0 => Ahead'
      PROVE  OnceInv'
  BY <1>s DEF OnceInv, OnceEach
<1>a. ASSUME NEW p \in Peers, Session(p), UNCHANGED <<sends, stored, faults>>,
             spc[p] # "idle",
             \/ spc'[p] = "idle"
             \/ todo'[p] = todo[p] /\ spc[p] # "bump"
             \/ Len(todo'[p]) = Len(todo[p]) - 1
      PROVE  OnceInv'
  <2>1. ASSUME faults = 0 PROVE Ahead'
    <3>1. Ahead
      BY <2>1 DEF OnceInv
    <3>2. Apart(p)
      BY <1>a, SessionApart
    <3>3. Len(todo[p]) \in Nat
      BY <1>a, <1>r
    <3> SUFFICES ASSUME NEW x \in stored
                 PROVE  /\ x.send <= sends[x.from]
                        /\ x.send = sends[x.from] /\ spc'[x.from] # "idle" =>
                              \/ x.left > Len(todo'[x.from])
                              \/ /\ x.left = Len(todo'[x.from])
                                 /\ spc'[x.from] = "bump"
      BY <1>a DEF Ahead
    <3>4. CASE x.from # p
      BY <1>t, <3>1, <3>2, <3>4 DEF Ahead, Apart
    <3>5. CASE x.from = p
      <4>1. CASE spc'[p] = "idle"
        BY <3>1, <3>5, <4>1 DEF Ahead
      <4>2. CASE todo'[p] = todo[p] /\ spc[p] # "bump"
        BY <1>a, <3>1, <3>5, <4>2 DEF Ahead
      <4>3. CASE Len(todo'[p]) = Len(todo[p]) - 1
        BY SMTT(30), <1>a, <1>t, <3>1, <3>3, <3>5, <4>3 DEF Ahead
      <4> QED
        BY <1>a, <4>1, <4>2, <4>3
    <3> QED
      BY <3>4, <3>5
  <2> QED
    BY <1>a, <1>s, <2>1
<1>1. ASSUME NEW p \in Peers, Data(p) \/ DataUnpaid(p) PROVE OnceInv'
  <2>1. CASE UNCHANGED faults
    <3>1. /\ sends' = [sends EXCEPT ![p] = @ + 1]
          /\ stored' = stored
      BY <1>1 DEF Data, DataUnpaid, Transmit
    <3>2. Apart(p)
      BY <1>1, SessionApart DEF Session
    <3>3. ASSUME faults = 0 PROVE Ahead'
      <4>1. Ahead
        BY <3>3 DEF OnceInv
      <4> QED
        BY <1>t, <3>1, <3>2, <4>1 DEF Ahead, Apart
    <3> QED
      BY <2>1, <1>s, <3>1, <3>3
  <2>2. CASE Fault
    BY <2>2, <1>f
  <2> QED
    BY <1>1, <2>1, <2>2 DEF Data, DataUnpaid, Transmit
<1>2. ASSUME NEW p \in Peers, Select(p) PROVE OnceInv'
  <2>1. /\ spc[p] = "select" /\ todo' = todo
        /\ UNCHANGED <<sends, stored, faults>>
    BY <1>2 DEF Select, dirVars
  <2> QED
    BY <1>2, <2>1, <1>a DEF Session
<1>3. ASSUME NEW p \in Peers, SelectNobody(p) \/ InsertRefused(p) PROVE OnceInv'
  <2>1. /\ spc[p] \in {"select", "insert"} /\ Failed(p)
        /\ UNCHANGED <<sends, stored, faults>>
    BY <1>3 DEF SelectNobody, InsertRefused, dirVars
  <2>2. spc'[p] = "idle" \/ todo' = todo
    BY <2>1, <1>t DEF Failed, Answer, StepTo
  <2> QED
    BY <1>3, <2>1, <2>2, <1>a DEF Session
<1>4. ASSUME NEW p \in Peers, Insert(p) PROVE OnceInv'
  <2> DEFINE copy == [from |-> p, send |-> sends[p], left |-> Len(todo[p]),
                      user |-> inbox[p], again |-> Again(p)]
  <2>1. /\ copy.from = p /\ copy.send = sends[p] /\ copy.left = Len(todo[p])
        /\ copy.again = Again(p)
        /\ stored' = stored \cup {copy}
        /\ spc[p] = "insert" /\ spc' = [spc EXCEPT ![p] = "bump"]
        /\ UNCHANGED <<todo, sends, faults>>
    BY <1>4 DEF Insert, StepTo, dirVars
  <2> HIDE DEF copy
  <2>2. ASSUME faults = 0 PROVE Ahead' /\ OnceEach'
    <3>1. Ahead /\ \A x, y \in stored :
             x.from = y.from /\ x.send = y.send /\ x.left = y.left =>
                 x = y /\ ~x.again
      BY <2>2 DEF OnceInv, OnceEach
    <3>2. \A x \in stored : ~(x.from = p /\ x.send = sends[p] /\ x.left = Len(todo[p]))
      <4>1. Ahead /\ spc[p] = "insert" /\ Len(todo[p]) \in Nat
        BY <1>r, <2>1, <3>1
      <4> QED
        BY <4>1 DEF Ahead
    <3>3. Ahead'
      BY <1>t, <1>r, <2>1, <3>1 DEF Ahead
    <3>4. ~copy.again
      BY <2>1, <3>2, Zenon DEF Again
    <3>5. OnceEach'
      BY <2>1, <3>1, <3>2, <3>4 DEF OnceEach
    <3> QED
      BY <3>3, <3>5
  <2> QED
    BY <2>1, <2>2 DEF OnceInv, OnceEach
<1>5. ASSUME NEW p \in Peers, Bump(p) PROVE OnceInv'
  <2>1. /\ spc[p] = "bump" /\ Serve(p, Tail(todo[p]))
        /\ UNCHANGED <<sends, stored, faults>>
    BY <1>5 DEF Bump, dirVars
  <2>2. PICK rest : rest = Tail(todo[p]) /\ Len(rest) = Len(todo[p]) - 1
    BY <1>r, <2>1
  <2>3. spc'[p] = "idle" \/ todo'[p] = rest
    BY <2>1, <2>2, <1>t DEF Serve, Answer, StepTo
  <2>4. spc'[p] = "idle" \/ Len(todo'[p]) = Len(todo[p]) - 1
    BY <2>2, <2>3
  <2> QED
    BY <1>5, <2>1, <2>4, <1>a DEF Session
<1>6. ASSUME NEW p \in Peers, BumpLost(p) PROVE OnceInv'
  BY <1>6, <1>f DEF BumpLost
<1>7. ASSUME NEW p \in Peers, ResolveAlias(p) PROVE OnceInv'
  <2>1. /\ spc[p] = "resolve" /\ todo' = todo
        /\ UNCHANGED <<sends, stored, faults>>
    BY <1>7 DEF ResolveAlias, dirVars
  <2> QED
    BY <1>7, <2>1, <1>a DEF Session
<1>8. ASSUME NEW p \in Peers, ResolveNobody(p) PROVE OnceInv'
  <2>1. /\ spc[p] = "resolve" /\ spc'[p] = "idle"
        /\ UNCHANGED <<sends, stored, faults>>
    BY <1>8, <1>t DEF ResolveNobody, Answer, StepTo, dirVars
  <2> QED
    BY <1>8, <2>1, <1>a DEF Session
<1>9. ASSUME UNCHANGED inVars, UNCHANGED faults \/ Fault PROVE OnceInv'
  <2>1. UNCHANGED <<stored, spc, todo, sends>>
    BY <1>9 DEF inVars, session
  <2> QED
    BY <1>9, <1>f, <2>1 DEF OnceInv, OnceEach, Ahead
<1>10. ASSUME DirectoryNext PROVE UNCHANGED faults \/ Fault
  BY <1>10
  DEF DirectoryNext, AddUser, UserCreate, AddUserFatal, AliasOwner, AssignAlias,
      AliasAssign, AddAlias, UserDelete, DeleteAlias
<1>11. CASE Crash
  BY <1>11, <1>f DEF Crash
<1>12. CASE UNCHANGED vars
  BY <1>12, <1>9 DEF vars, dirVars
<1> QED
  BY <1>1, <1>2, <1>3, <1>4, <1>5, <1>6, <1>7, <1>8, <1>9, <1>10, <1>11, <1>12
  DEF Next, Session

\* Without a lost UPDATE or a crash, one transmission leaves each recipient
\* one copy at most, alias or no alias (session_ygg.go:152-174).
THEOREM OneCopyEach == Spec => []OnceEach
<1>1. OnceInv => OnceEach
  BY DEF OnceInv
<1> QED
  BY TypeInit, TypeStep, OnceInit, OnceStep, <1>1, PTL DEF Spec

=============================================================================
