---------------------------- MODULE ClientTunnel ----------------------------
(***************************************************************************)
(* The client's main loop (client.c, client_tunnel) and what keeps it and   *)
(* the server from waiting for one another: in lazy mode the server may     *)
(* only talk when it holds a query to answer, so the client keeps           *)
(* windowsize_down queries pending, replaces those that are answered or     *)
(* lost, and sends the acknowledgement of a downstream fragment at once.    *)
(*                                                                         *)
(* One iteration of the loop is two steps: up to select(), at most one      *)
(* query is sent; select() returns for a timeout, for the tun device or for *)
(* one DNS answer, which tunnel_dns handles. The network and the server     *)
(* answer any query that is under way, in any order, lose it, or answer it  *)
(* more than once. The buffers of fragments are modelled in SendWindow and  *)
(* RecvWindow: here, any number of fragments may want to be sent. When the  *)
(* client adapts its timeouts to failures is not modelled here: a SERVFAIL  *)
(* may or may not have these effects. min_send_interval_ms is 0, which no   *)
(* option changes, so use_min_send is never set.                           *)
(***************************************************************************)
EXTENDS QueryTable

CONSTANTS
    WindowUp, WindowDown,   \* windowsize_up, windowsize_down
    Fragments,  \* sequence ids of the downstream fragments
    RandomIds   \* what rand() & 0xFF may return

ASSUME TunnelAssumption ==
    /\ WindowUp \in Nat \ {0} /\ WindowDown \in Nat \ {0}
    /\ Fragments \subseteq Nat
    /\ RandomIds \subseteq QueryIds

VARIABLES
    at,         \* where the loop is: "send", "select" or "stopped"
    tv,         \* what select() waits for at most: min_send_interval_ms + 1 us
                \* ("instant"), send_ping_soon ("soon"), send_interval_ms
                \* ("interval"), or max_timeout_ms and the next resend ("full")
    send_ping_soon, \* 0 ("unset"), 1 as at the start ("now"), or 100 .. 900 ("soon")
    track,      \* the table of queries
    chunkid,    \* the id of the last query
    next_downstream_ack,    \* the fragment to acknowledge, -1 for none
    lazymode,
    away        \* ids of the queries under way or held by the server

vars == <<at, tv, send_ping_soon, track, chunkid, next_downstream_ack, lazymode, away>>

NoAck == -1

Init ==
    /\ at = "send"
    /\ tv = "full"
    /\ send_ping_soon = "now"
    /\ track = EmptyTable
    /\ chunkid \in QueryIds
    /\ next_downstream_ack = NoAck
    /\ lazymode \in BOOLEAN
    /\ away = {}

-----------------------------------------------------------------------------
(* Sending.                                                                *)

(* send_query: the ids go round, 7727 at a time; the round that would give  *)
(* 0 gives a random one instead.                                           *)
IdsAfter(id) ==
    LET n == (id + 1) % NumIds
    IN  IF n = 0 THEN RandomIds ELSE {n}

(* send_ping and send_next_frag, but for their contents: one query, which   *)
(* carries the acknowledgement if there is one.                            *)
SendQuery(t, id) ==
    /\ chunkid' = id
    /\ track' = query_sent_now(t, id)
    /\ away' = away \cup {id}
    /\ next_downstream_ack' = NoAck
    /\ send_ping_soon' = "unset"

SendNothing(t) ==
    /\ track' = t
    /\ tv' = IF send_ping_soon = "unset" THEN "full" ELSE "soon"
    /\ send_ping_soon' = "unset"
    /\ UNCHANGED <<chunkid, away, next_downstream_ack>>

(* How many queries the loop would like to send: the fragments there are,   *)
(* and those that are missing at the server.                               *)
Wanted(pending, sending) ==
    LET missing == (IF lazymode THEN WindowDown ELSE 1) - pending
    IN  IF missing > sending THEN missing ELSE sending

(* Faulty: an acknowledgement alone is no reason to send.                  *)
LoopIgnoringAck(sending, overdue) ==
    LET t     == check_pending_queries(track, overdue)
        total == Wanted(t.num_pending, sending)
    IN  /\ at = "send"
        /\ \/ /\ total > 0
              /\ \E id \in IdsAfter(chunkid) : SendQuery(t, id)
              /\ tv' = CASE sending > 1 \/ (total > 1 /\ lazymode) -> "instant"
                         [] total > 1 /\ sending <= 1 /\ ~lazymode -> "interval"
                         [] OTHER -> "full"
           \/ /\ total <= 0
              /\ SendNothing(t)
        /\ at' = "select"
        /\ UNCHANGED lazymode

(* client_tunnel from the top of the loop to select(), with `sending'       *)
(* fragments to send and the queries `overdue' older than max_timeout_ms +  *)
(* 1 s.                                                                    *)
Loop(sending, overdue) ==
    LET t     == check_pending_queries(track, overdue)
        total == Wanted(t.num_pending, sending)
    IN  /\ at = "send"
        /\ \/ /\ total > 0 \/ next_downstream_ack # NoAck
              /\ \E id \in IdsAfter(chunkid) : SendQuery(t, id)
              /\ tv' = CASE sending > 1 \/ (total > 1 /\ lazymode) -> "instant"
                         [] total > 1 /\ sending <= 1 /\ ~lazymode -> "interval"
                         [] OTHER -> "full"
           \/ /\ total <= 0 /\ next_downstream_ack = NoAck
              /\ SendNothing(t)
        /\ at' = "select"
        /\ UNCHANGED lazymode

-----------------------------------------------------------------------------
(* select() returns.                                                       *)

(* Nothing to read, or a packet on the tun device (tunnel_tun, modelled in  *)
(* SendWindow): on to the next iteration.                                  *)
Wake ==
    /\ at = "select"
    /\ at' = "send"
    /\ UNCHANGED <<tv, send_ping_soon, track, chunkid, next_downstream_ack, lazymode, away>>

(* An answer to query id is read; the network may deliver it once more.     *)
Receive(id) ==
    /\ at = "select"
    /\ id \in away
    /\ at' = "send"
    /\ UNCHANGED tv

Rest(id) == {away, away \ {id}}

(* tunnel_dns, an answer with a fragment in it.                            *)
AnswerData(id) ==
    /\ Receive(id)
    /\ away' \in Rest(id)
    /\ track' = got_response(track, id)
    /\ next_downstream_ack' \in Fragments
    /\ UNCHANGED <<send_ping_soon, chunkid, lazymode>>

(* tunnel_dns, an answer without one, or an error.                          *)
AnswerEmpty(id) ==
    /\ Receive(id)
    /\ away' \in Rest(id)
    /\ track' = got_response(track, id)
    /\ send_ping_soon' = "soon"
    /\ UNCHANGED <<next_downstream_ack, chunkid, lazymode>>

(* tunnel_dns, a SERVFAIL that makes the client reduce its timeout in lazy  *)
(* mode and tell the server so with a ping (update_server_timeout(1)).     *)
AnswerServfail(id) ==
    /\ Receive(id)
    /\ lazymode
    /\ \E new \in IdsAfter(chunkid), rest \in Rest(id) :
           /\ chunkid' = new
           /\ away' = rest \cup {new}
           /\ track' = got_response(query_sent_now(track, new), id)
    /\ send_ping_soon' = "soon"
    /\ UNCHANGED <<next_downstream_ack, lazymode>>

(* ... and one that makes it ask the server for immediate mode              *)
(* (handshake_switch_options): up to Tries queries that are not tracked,    *)
(* and until one of them is answered every other answer is thrown away.     *)
Tries == 5

IdsAfterTries[n \in 0 .. Tries] ==
    IF n = 0 THEN {chunkid} ELSE UNION {IdsAfter(id) : id \in IdsAfterTries[n - 1]}

AnswerLastDitch(id) ==
    /\ Receive(id)
    /\ lazymode
    /\ lazymode' \in BOOLEAN
    /\ chunkid' \in UNION {IdsAfterTries[n] : n \in 1 .. Tries}
    /\ away' \in SUBSET away
    /\ track' = got_response(track, id)
    /\ send_ping_soon' = "soon"
    /\ UNCHANGED next_downstream_ack

(* tunnel_dns, BADIP: the query is not marked as answered.                 *)
AnswerBadip(id) ==
    /\ Receive(id)
    /\ away' \in Rest(id)
    /\ UNCHANGED <<send_ping_soon, track, chunkid, next_downstream_ack, lazymode>>

(* No downstream data for 60 seconds.                                      *)
ShutDown ==
    /\ at = "select"
    /\ at' = "stopped"
    /\ UNCHANGED <<tv, send_ping_soon, track, chunkid, next_downstream_ack, lazymode, away>>

-----------------------------------------------------------------------------
(* The network, while the client waits.                                    *)

(* A query or its answer is lost.                                          *)
Lose(id) ==
    /\ at = "select"
    /\ id \in away
    /\ away' = away \ {id}
    /\ UNCHANGED <<at, tv, send_ping_soon, track, chunkid, next_downstream_ack, lazymode>>

Next ==
    \/ \E sending \in 0 .. WindowUp, overdue \in SUBSET Waiting(track) : Loop(sending, overdue)
    \/ Wake
    \/ \E id \in QueryIds : AnswerData(id)
    \/ \E id \in QueryIds : AnswerEmpty(id)
    \/ \E id \in QueryIds : AnswerServfail(id)
    \/ \E id \in QueryIds : AnswerLastDitch(id)
    \/ \E id \in QueryIds : AnswerBadip(id)
    \/ ShutDown
    \/ \E id \in QueryIds : Lose(id)

Spec == Init /\ [][Next]_vars

(* The client runs, its select() ends by its timeout at the latest, and     *)
(* time passes; nothing is asked of the network.                           *)
FairSpec ==
    /\ Spec
    /\ WF_vars(\E sending \in 0 .. WindowUp, overdue \in SUBSET Waiting(track) :
                   Loop(sending, overdue))
    /\ WF_vars(Wake)
    /\ \A i \in Entries :
           SF_vars(\E sending \in 0 .. WindowUp, overdue \in SUBSET Waiting(track) :
                       i \in overdue /\ Loop(sending, overdue))

-----------------------------------------------------------------------------
(* Properties.                                                             *)

(* num_timeouts never falls behind the entries that are given up but still  *)
(* in the table, although entries are overwritten, answered late and        *)
(* answered twice: so got_response always frees the entry of a query that   *)
(* is answered after it was given up, and never takes it for an empty one.  *)
TimedOutCounted == Cardinality(GivenUp(track)) <= track.num_timeouts

(* While the client waits, num_pending, which the loop, got_response and    *)
(* query_sent_now keep each in its own way, covers every query the client   *)
(* is waiting for: a query is never sent for one that is pending still.     *)
PendingCovered == at = "select" => track.num_pending >= Cardinality(Waiting(track))

(* "Downstream data is always ACK'd immediately": an acknowledgement leaves *)
(* in a query before the next fragment is read, so next_downstream_ack      *)
(* never passes from one fragment to the next.                             *)
AckNotOverwritten ==
    [][next_downstream_ack' # next_downstream_ack =>
           next_downstream_ack = NoAck \/ next_downstream_ack' = NoAck]_vars

(* Whatever is lost, late or rejected, the client does not stop asking: the *)
(* server again and again gets a query to answer.                          *)
NeverStarved == []<>(away # {} \/ at = "stopped")

=============================================================================
