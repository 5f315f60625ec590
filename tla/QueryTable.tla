----------------------------- MODULE QueryTable -----------------------------
(***************************************************************************)
(* The client's record of the DNS queries it has sent and not yet had       *)
(* answered (client.c, "Client-side query tracking for lazy mode"): the     *)
(* array this.pending_queries with the counters num_pending and             *)
(* num_timeouts, as functions on the value of the three, which the handlers *)
(* of ClientTunnel compose within one step.                                *)
(*                                                                         *)
(* What is abstracted: of the time stamp of an entry, `timed' says that it  *)
(* is there (tv_sec # 0), and which of them are older than max_timeout_ms + *)
(* 1 s is an argument; num_untracked is only reported. num_timeouts grows    *)
(* for ever; the code only asks whether it is 0, and what it counts on is   *)
(* that it is at least the number of entries given up, so it stays at       *)
(* MaxTimeouts when it gets there.                                         *)
(***************************************************************************)
EXTENDS Integers, FiniteSets

CONSTANTS
    NumIds,         \* 65536, the number of DNS ids
    PendingLength,  \* PENDING_QUERIES_LENGTH, 4 * MAX(windowsize_up, windowsize_down)
    MaxTimeouts     \* bound of the model: num_timeouts is exact up to here

ASSUME TableAssumption ==
    /\ NumIds \in Nat \ {0}
    /\ PendingLength \in Nat \ {0}
    /\ MaxTimeouts \in Nat /\ MaxTimeouts >= PendingLength

QueryIds == 0 .. NumIds - 1
NoId    == -1
Entries == 0 .. PendingLength - 1

Entry == [ id : QueryIds \cup {NoId}, timed : BOOLEAN ]

Free == [ id |-> NoId, timed |-> FALSE ]

Table == [ entry : [Entries -> Entry], num_pending : Nat, num_timeouts : Nat ]

(* client_handshake, "init query tracking".                                *)
EmptyTable ==
    [ entry |-> [i \in Entries |-> Free], num_pending |-> 0, num_timeouts |-> 0 ]

(* The entries the client counts as waiting at the server, and those it has *)
(* given up but still recognises.                                          *)
Waiting(t)  == {i \in Entries : t.entry[i].id # NoId /\ t.entry[i].timed}
GivenUp(t)  == {i \in Entries : t.entry[i].id # NoId /\ ~t.entry[i].timed}

First(S) == CHOOSE i \in S : \A j \in S : i <= j

Saturated(n) == IF n > MaxTimeouts THEN MaxTimeouts ELSE n

(* An overdue query loses its time stamp and keeps its id.                 *)
GiveUp(t, overdue) ==
    [i \in Entries |-> IF i \in overdue THEN [t.entry[i] EXCEPT !.timed = FALSE]
                                        ELSE t.entry[i]]

(* Faulty: the queries given up are not counted; or none ever is.          *)
check_forgets_count(t, overdue) ==
    [t EXCEPT !.entry = GiveUp(t, overdue), !.num_pending = Cardinality(Waiting(t))]

check_never_expires(t, overdue) == [t EXCEPT !.num_pending = Cardinality(Waiting(t))]

(* check_pending_queries, where `overdue' are the entries of Waiting(t)     *)
(* older than max_timeout_ms + 1 s: an overdue query is counted as timed    *)
(* out -- and, this time, as pending still.                                *)
check_pending_queries(t, overdue) ==
    [ entry        |-> GiveUp(t, overdue),
      num_pending  |-> Cardinality(Waiting(t)),
      num_timeouts |-> Saturated(t.num_timeouts + Cardinality(overdue)) ]

(* Faulty: the query is entered but not counted.                           *)
sent_uncounted(t, id) ==
    LET free == {i \in Entries : t.entry[i].id = NoId}
        room == IF free # {} THEN free
                ELSE {i \in Entries : ~t.entry[i].timed}
    IN  IF room = {} THEN t
        ELSE [t EXCEPT !.entry[First(room)] = [id |-> id, timed |-> TRUE]]

(* query_sent_now: the first free entry, else the first one given up; a     *)
(* query that finds neither is not tracked.                                *)
query_sent_now(t, id) ==
    LET free == {i \in Entries : t.entry[i].id = NoId}
        room == IF free # {} THEN free
                ELSE {i \in Entries : ~t.entry[i].timed}
    IN  IF room = {} THEN t
        ELSE [ t EXCEPT !.entry[First(room)] = [id |-> id, timed |-> TRUE],
                        !.num_pending = @ + 1 ]

(* got_response: the first entry with this id is freed, and if it had been  *)
(* given up, it is taken out of the timeouts. Where num_timeouts says that  *)
(* nothing is given up, an entry without a time stamp is taken for an empty *)
(* one and passed over, still at the price of one off num_pending.         *)
got_response(t, id) ==
    LET hits   == {i \in Entries : id # NoId /\ t.entry[i].id = id}
        passed == IF t.num_timeouts > 0 THEN {} ELSE hits \cap GivenUp(t)
        taken  == hits \ passed
        seen   == IF taken = {} THEN hits ELSE {i \in hits : i <= First(taken)}
        fewer  == [t EXCEPT !.num_pending = IF @ > Cardinality(seen)
                                            THEN @ - Cardinality(seen) ELSE 0]
    IN  IF taken = {} THEN fewer
        ELSE [ fewer EXCEPT !.entry[First(taken)] = Free,
                            !.num_timeouts = IF First(taken) \in GivenUp(t)
                                             THEN @ - 1 ELSE @ ]

=============================================================================
