------------------------------- MODULE Postage -------------------------------
(***************************************************************************)
(* Outbound with the stamps of internal/stamp/stamp.go and a clock.        *)
(*                                                                         *)
(* QueueFor stamps each copy once, when it stores it in Outbox             *)
(* (sender.go:135); the stamp carries the UTC date, not the hour.  A node  *)
(* verifies it at every transmission (session_ygg.go:108) and refuses the  *)
(* mail with 550 once 48 hours have passed since that date's midnight.     *)
(* The sender takes that for any failure: the row stays and the manager    *)
(* tries it again, with the same stamp.                                    *)
(*                                                                         *)
(* Time is counted in half days from some midnight, so that a stamp made   *)
(* in the morning and one made in the evening of a day differ.  Both nodes *)
(* read the same clock.  The work a stamp proves is data.                  *)
(***************************************************************************)
EXTENDS Outbound

CONSTANT MaxTime    \* bound: where the clock stops

ASSUME PostageAssumption == MaxTime \in Nat

VARIABLES
    now,        \* the clock
    made        \* when the stamp of each copy was generated

postVars == <<vars, now, made>>

Day == 2

PostTypeOK ==
    /\ TypeOK
    /\ now \in 0 .. MaxTime
    /\ made \in [Mails -> 0 .. MaxTime]
    /\ \A m \in Mails : made[m] <= now

\* The date in the stamp, read back as the midnight it began.
Midnight(t) == Day * (t \div Day)

\* Verify of a stamp generated at time t.
Verify(t) == now - Midnight(t) <= 2 * Day

Expired(m) == ~Verify(made[m])

PostInit ==
    /\ Init
    /\ now = 0
    /\ made = [m \in Mails |-> 0]

\* Mutant: the date is that of a time zone ahead of UTC.
StampsAhead(s) ==
    made' = IF spc[s] = "route" /\ spc'[s] = "insert"
            THEN [made EXCEPT ![Mail(s)] = now + 1]
            ELSE made

\* The stamp is generated with the copy that ReadNext is about to store.
Stamps(s) ==
    made' = IF spc[s] = "route" /\ spc'[s] = "insert"
            THEN [made EXCEPT ![Mail(s)] = now]
            ELSE made

\* The destination takes only what is still paid for.
OnlyPaid == \A m \in Mails : arrived'[m] > arrived[m] => ~Expired(m)

PostSession(s) == Session(s) /\ Stamps(s) /\ UNCHANGED now

PostRunner(d) == Runner(d) /\ OnlyPaid /\ UNCHANGED <<now, made>>

PostSent(d) == Sent(d) /\ OnlyPaid /\ UNCHANGED <<now, made>>

Tick ==
    /\ now < MaxTime
    /\ now' = now + 1
    /\ UNCHANGED <<vars, made>>

PostNext ==
    \/ \E s \in Sessions : PostSession(s)
    \/ \E d \in Dests : PostRunner(d)
    \/ Manager /\ UNCHANGED <<now, made>>
    \/ Crash /\ OnlyPaid /\ UNCHANGED <<now, made>>
    \/ Tick

PostSpec == PostInit /\ [][PostNext]_postVars

\* Goroutines keep running, the manager's timer keeps firing, and a node that
\* is tried again and again accepts at last what is still paid for.  Neither
\* faults nor the clock are required to move.
PostFairness ==
    /\ \A s \in Sessions : WF_postVars(PostSession(s))
    /\ \A d \in Dests : WF_postVars(PostRunner(d)) /\ SF_postVars(PostSent(d))
    /\ WF_postVars(ManagerList /\ UNCHANGED <<now, made>>)
    /\ \A d \in Dests : WF_postVars(ManagerWake(d) /\ UNCHANGED <<now, made>>)

PostFairSpec == PostSpec /\ PostFairness

-----------------------------------------------------------------------------
(* What a stamp is good for                                                *)

\* Every queued mail eventually arrives or its stamp expires, also when the
\* runner was busy past its snapshot, the process restarted, or an expired
\* mail is in the queue before it (sender.go:85-93, 200-231).
EventualFate == \A m \in Mails : m \in accepted ~> (arrived[m] > 0 \/ Expired(m))

\* At last the queue table holds nothing but mails whose stamps have expired.
OnlyExpiredStay == <>[](\A r \in queue : Expired(r.mail))

\* A row whose mail has not just been accepted, with a stamp that has expired.
Stuck(m) ==
    /\ Expired(m)
    /\ \E r \in queue :
          /\ r.mail = m
          /\ \A d \in Dests : rpc[d] = "dequeue" => cur[d] # r

\* No runner, retry or restart ever ends the attempts for a mail whose stamp
\* has expired: the log calls it abandoned (sender.go:226), but its row stays
\* and nobody is told.
StuckForGood ==
    [][\A m \in Mails : OnceListed(m) /\ Stuck(m) => Stuck(m)']_postVars

=============================================================================
