------------------------------- MODULE MailView -------------------------------
(***************************************************************************)
(* What an IMAP client sees of the tables: STATUS, SEARCH and FETCH        *)
(* (internal/imapserver/mailbox.go) over MailStore.                        *)
(*                                                                         *)
(* FETCH takes its ids from a sequence set or from the client, who got     *)
(* them from a SEARCH, and runs one statement for each, skipping those     *)
(* that find no row.  STATUS answers UIDVALIDITY 1 always: the client      *)
(* keeps what it was shown by folder name and uid for ever.                *)
(*                                                                         *)
(* One client, whose commands run one after the other, beside any number   *)
(* of goroutines that change the tables.  Envelopes, bodies and flags are  *)
(* what the mail is, and are left out; so are MESSAGES and UNSEEN, two     *)
(* counts made by statements of their own.                                 *)
(***************************************************************************)
EXTENDS SeqSets

CONSTANTS
    Sets,       \* sequence sets of the client's FETCH commands
    MaxLooks    \* bound: commands of the client

ASSUME ViewAssumption ==
    /\ Sets \subseteq [start : 0 .. MaxUid, stop : 0 .. MaxUid]
    /\ MaxLooks \in Nat

VARIABLES
    reported,   \* of each folder at the last STATUS: UIDNEXT and the rows
    fetch,      \* the FETCH under way
    shown,      \* every folder name, uid and mail FETCH ever showed
    uneven,     \* mailboxes that lost a row, or counted one they never got
    looks       \* commands so far

client   == <<reported, fetch, shown, looks>>
viewVars == <<vars, client, uneven>>

NoFetch == [idle |-> TRUE]

\* The rows of a folder as a client can name them.
Rows(n) == {<<x.uid, x.mail>> : x \in Stored(box[n])}

\* Those whose delivery has been acknowledged.
Settled(n) == {r \in Rows(n) : told[r[2]] = "ok"}

ViewInit ==
    /\ Init
    /\ reported = [n \in Names |-> [next |-> 1, rows |-> {}]]
    /\ fetch = NoFetch
    /\ shown = {}
    /\ uneven = {}
    /\ looks = 0

Look == looks < MaxLooks /\ looks' = looks + 1

\* Mutant: the uid after the next one.
NextIDAhead(n) == uidNext[box[n]] + 1

\* MailNextID
NextID(n) == uidNext[box[n]]

Status(n) ==
    /\ fetch = NoFetch
    /\ box[n] # 0
    /\ Look
    /\ reported' = [reported EXCEPT ![n] = [next |-> NextID(n), rows |-> Rows(n)]]
    /\ UNCHANGED <<fetch, shown>>

\* A FETCH command: what it has to show when it is to list the whole folder,
\* the sequence numbers to look up, the uids to select, what it has shown.
Begin(n, due, nums, ids) ==
    /\ fetch = NoFetch
    /\ box[n] # 0
    /\ Look
    /\ fetch' = [box |-> n, due |-> due, nums |-> nums, ids |-> ids, got |-> {}]
    /\ UNCHANGED <<reported, shown>>

Elements(seq) == {seq[i] : i \in DOMAIN seq}

FetchUids(n, s) ==
    Begin(n, IF s.start <= 1 /\ s.stop = 0 THEN Settled(n) ELSE {},
          <<>>, Elements(Numbers(n, s)))

\* In an uneven folder the numbers of a set mean other mails, or none.
FetchNumbers(n, s) ==
    Begin(n, IF s.start = 1 /\ s.stop = 0 /\ box[n] \notin uneven THEN Settled(n) ELSE {},
          Numbers(n, s), {})

\* MailSearch: all uids, whatever the criteria; the client fetches them.
FetchFound(n) == Begin(n, Rows(n), <<>>, {x.uid : x \in Stored(box[n])})

\* MailIDForSeq
Resolve ==
    /\ fetch # NoFetch /\ fetch.nums # <<>>
    /\ \E x \in AtSeq(fetch.box, Head(fetch.nums)) :
          fetch' = [fetch EXCEPT !.nums = Tail(@), !.ids = @ \cup {x.uid}]
    /\ UNCHANGED <<reported, shown, looks>>

\* No such number: the command fails before it shows anything.
ResolveFailed ==
    /\ fetch # NoFetch /\ fetch.nums # <<>>
    /\ AtSeq(fetch.box, Head(fetch.nums)) = {}
    /\ fetch' = NoFetch
    /\ UNCHANGED <<reported, shown, looks>>

\* MailSelect, and continue when it finds no row.
Show ==
    /\ fetch # NoFetch /\ fetch.nums = <<>>
    /\ \E u \in fetch.ids :
          /\ \A v \in fetch.ids : u <= v
          /\ LET rows == {r \in Rows(fetch.box) : r[1] = u}
             IN  /\ fetch' = [fetch EXCEPT !.ids = @ \ {u}, !.got = @ \cup rows]
                 /\ shown' = shown \cup {<<fetch.box, r[1], r[2]>> : r \in rows}
    /\ UNCHANGED <<reported, looks>>

Listed == fetch # NoFetch /\ fetch.nums = <<>> /\ fetch.ids = {}

EndFetch ==
    /\ Listed
    /\ fetch' = NoFetch
    /\ UNCHANGED <<reported, shown, looks>>

ClientNext ==
    \/ \E n \in Names :
          \/ Status(n)
          \/ \E s \in Sets : FetchUids(n, s) \/ FetchNumbers(n, s)
          \/ FetchFound(n)
    \/ Resolve \/ ResolveFailed \/ Show \/ EndFetch

\* A mail of mailbox b is no longer there under its uid.
LosesRow(b) ==
    \E x \in Stored(b) : \A y \in Stored(b)' : y.uid # x.uid \/ y.mail # x.mail

\* A MOVE that found no row, or moved one to where it was, counts a uid.
CountsNothing(b) ==
    /\ \E t \in Threads : pc[t] = "move" /\ target[t] = b /\ pc'[t] # "move"
    /\ uidNext'[b] # uidNext[b]
    /\ Stored(b)' = Stored(b)

\* What has left the folder need not be shown.  Where a mail was removed while
\* there are numbers to look up, a number may mean a mail that arrived since,
\* and the mail it meant is passed over.
Forgive ==
    \/ fetch = NoFetch /\ UNCHANGED fetch
    \/ \E n \in Names :
          /\ fetch # NoFetch /\ fetch.box = n
          /\ fetch' = [fetch EXCEPT !.due =
                          IF fetch.nums # <<>> /\ box'[n] \in uneven' THEN {}
                          ELSE @ \cap Rows(n)']

StoreNext ==
    /\ Next
    /\ uneven' = uneven \cup {b \in BoxIds : LosesRow(b) \/ CountsNothing(b)}
    /\ Forgive
    /\ UNCHANGED <<reported, shown, looks>>

ViewNext ==
    \/ StoreNext
    \/ ClientNext /\ UNCHANGED <<vars, uneven>>

ViewSpec == ViewInit /\ [][ViewNext]_viewVars

-----------------------------------------------------------------------------
(* What a client can rely on                                               *)

\* schema.sql:26 calls uid the "IMAP UID, unique within mailbox": a uid that
\* showed a client one mail of a folder never shows it another.  Two
\* deliveries that read the same uid_next refute it when the first mail is
\* shown and removed between their INSERTs.
UidNamesOneMail ==
    \A p, q \in shown : p[1] = q[1] /\ p[2] = q[2] => p[3] = q[3]

\* Sequence numbers are uids as long as nobody removes a mail from the folder
\* or moves nothing into it, whatever deliveries and moves race for uid_next
\* and whichever statements fail.  Only then is uid_next - 1, which the code
\* takes for the last sequence number (mailbox.go:43), a number there is.
SequenceIsUid ==
    \A n \in Names : box[n] # 0 /\ box[n] \notin uneven =>
        /\ \A r \in Rows(n) : \A k \in 1 .. r[1] : \E q \in Rows(n) : q[1] = k
        /\ \A k \in 1 .. NextID(n) - 1 : \E q \in Rows(n) : q[1] = k

\* A mail below a UIDNEXT that STATUS reported was there already: a client
\* that fetches from UIDNEXT on misses none (mailbox.go:84).  A mail removed
\* while a delivery holds its uid, or a MOVE of nothing that counts a uid for
\* which another delivery is still to insert, would put one behind its back; so
\* would another folder renamed to this name, which only Protected names escape.
NothingArrivesBehind ==
    \A n \in Protected : box[n] # 0 /\ box[n] \notin uneven =>
        \A r \in Rows(n) : r[1] < reported[n].next => r \in reported[n].rows

\* A listing of the whole folder shows every mail that was acknowledged before
\* it began and has been there ever since: by uid whatever is delivered, moved
\* or expunged meanwhile, by number when nothing is removed before the numbers
\* are uids.  A lost UPDATE of uid_next hides a mail from "1:*".
ListingIsComplete ==
    faults = 0 /\ Listed => fetch.due \subseteq fetch.got

=============================================================================
