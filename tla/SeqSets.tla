------------------------------- MODULE SeqSets -------------------------------
(***************************************************************************)
(* How the IMAP commands read a sequence set: getIDsFromSeqSet             *)
(* (internal/imapserver/mailbox.go) over the tables of MailStore.          *)
(*                                                                         *)
(* A set is a range from start to stop; the parser gives 0 for "*", and    *)
(* "*" alone is the range from 0 to 0.  The code replaces a stop of 0 by   *)
(* uid_next - 1, in sets of uids and of sequence numbers, and counts from  *)
(* start to stop.  A uid need not have a row.  A sequence number is looked *)
(* up by a statement of its own, and one that has no row is an error.      *)
(***************************************************************************)
EXTENDS MailStore, Sequences, FiniteSets

Stop(n, s) == IF s.stop = 0 THEN uidNext[box[n]] - 1 ELSE s.stop

\* Mutant: the loop ends before stop.
NumbersBeforeStop(n, s) ==
    [i \in 1 .. (IF Stop(n, s) <= s.start THEN 0 ELSE Stop(n, s) - s.start) |->
        s.start + i - 1]

\* Mutant: the loop counts from 0.
NumbersFromZero(n, s) ==
    [i \in 1 .. (IF Stop(n, s) < s.start THEN 0 ELSE Stop(n, s) - s.start + 1) |->
        s.start + i - 2]

\* start, start + 1, ..., stop; empty when start is above stop.
Numbers(n, s) ==
    [i \in 1 .. (IF Stop(n, s) < s.start THEN 0 ELSE Stop(n, s) - s.start + 1) |->
        s.start + i - 1]

\* Mutant: MailIDForSeq counts its OFFSET from 1.
AtSeqAfter(n, k) ==
    {x \in Stored(box[n]) : Cardinality({y \in Stored(box[n]) : y.uid < x.uid}) = k}

\* MailIDForSeq: the row with k - 1 smaller uids in the folder.
AtSeq(n, k) ==
    {x \in Stored(box[n]) : Cardinality({y \in Stored(box[n]) : y.uid < x.uid}) = k - 1}

=============================================================================
