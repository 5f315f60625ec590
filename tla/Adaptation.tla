----------------------------- MODULE Adaptation -----------------------------
(***************************************************************************)
(* How the client adapts its time-outs, all in milliseconds, to the path:   *)
(* five pings at the end of the handshake measure the round-trip time; in   *)
(* the tunnel more answers do. In lazy mode the server may hold a query     *)
(* back for server_timeout_ms, and the client waits max_timeout_ms for the  *)
(* answer, so the first follows the second and the round-trip time          *)
(* (update_server_timeout). A relay that answers SERVFAIL because it does   *)
(* not wait that long makes the client reduce both, step by step, and in    *)
(* the end give lazy mode up.                                              *)
(*                                                                         *)
(* This is the client with autodetect_server_timeout, as in the app; without *)
(* it the time-outs stay as they are. What is left out: send_interval_ms    *)
(* and downstream_timeout_ms, which follow the same average, and the counter *)
(* send_query_sendcnt, which is never more than 0 (client.c:374, 1215), with *)
(* all that depends on it.                                                 *)
(***************************************************************************)
EXTENDS Integers

CONSTANTS
    Targets,    \* what max_timeout_ms may be at the start (option -I)
    Trips,      \* round-trip times
    MaxSamples  \* bound of the model: no more answers are measured

ASSUME AdaptationAssumption ==
    /\ Targets \subseteq {n \in Nat : n >= 100}
    /\ Trips \subseteq Nat
    /\ MaxSamples \in Nat

VARIABLES
    phase,      \* "idle", "pings" or "tunnel"
    pings,      \* pings that handshake_set_timeout has sent
    target,     \* max_timeout_ms at the start, for the properties
    timing,     \* the statistics and what is worked out from them:
                \* rtt_total_ms, num_immediate, max_timeout_ms,
                \* server_timeout_ms, num_rtt_timeouts
    lazymode,
    num_servfail,   \* exact up to 44, then by its last digit
    enough,         \* send_query_recvcnt is 500 or more
    waited          \* for the properties: how many SERVFAILs have come, with
                    \* nothing else between them, since there is reason to ask
                    \* for immediate mode and the client has not done so, and
                    \* max_timeout_ms when the first came

adaptation == <<phase, pings, target, timing, lazymode, num_servfail, enough, waited>>

Pings == 5
Measured == [total |-> 0, num |-> 0, max |-> 0, server |-> 0, misses |-> 0]
NotWaiting == [fails |-> 0, from |-> 0]

AdaptationInit ==
    /\ phase = "idle" /\ pings = 0 /\ target = 0 /\ timing = Measured
    /\ lazymode = FALSE /\ num_servfail = 0 /\ enough = FALSE
    /\ waited = NotWaiting

-----------------------------------------------------------------------------
(* Operators on the statistics.                                            *)

AverageRtt(t) == IF t.num = 0 THEN 1 ELSE t.total \div t.num

Larger(a, b) == IF a >= b THEN a ELSE b

(* update_server_timeout: what is left of the target after the round trip.  *)
(* A path slower than the target is waited for only at the third time.     *)
update_server_timeout(t) ==
    LET rtt    == AverageRtt(t)
        missed == rtt >= t.max /\ t.num > 5
    IN  CASE ~missed -> [t EXCEPT !.server = Larger(t.max - rtt, 0)]
          [] missed /\ t.misses < 2 -> [t EXCEPT !.misses = @ + 1]
          [] missed /\ t.misses >= 2 ->
                [t EXCEPT !.max = rtt + 1000, !.server = 1000, !.misses = 0]

(* Faulty: the time-outs follow the statistics only when the target does.   *)
got_response_only(t, rtt, lazy) == [t EXCEPT !.total = @ + rtt, !.num = @ + 1]

(* got_response, an immediate answer.                                      *)
got_response(t, rtt, lazy) ==
    LET measured == [t EXCEPT !.total = @ + rtt, !.num = @ + 1]
    IN  IF lazy THEN update_server_timeout(measured) ELSE measured

immediate_mode_defaults(t) ==
    [t EXCEPT !.max = Larger((4 * t.total) \div t.num, 5000), !.server = 0]

-----------------------------------------------------------------------------
(* The end of the handshake.                                               *)

(* The options are given, and handshake_set_timeout resets the statistics.  *)
(* How often the path was slower than the target it does not:               *)
(* num_rtt_timeouts is static, and the app connects again in one process.   *)
BeginPings ==
    /\ phase = "idle"
    /\ phase' = "pings"
    /\ target' \in Targets /\ lazymode' \in BOOLEAN
    /\ \E n \in 0 .. 2 : timing' = [Measured EXCEPT !.max = target', !.misses = n]
    /\ UNCHANGED <<pings, num_servfail, enough, waited>>

(* A ping sets the server's time-out. The wait for the answer is measured   *)
(* even if none has come; it ends when nothing has come for as many seconds *)
(* as pings were sent, and an answer to something else begins it anew, so   *)
(* that any time may be measured (handshake_waitdns).                      *)
handshake_set_timeout ==
    /\ phase = "pings" /\ pings < Pings
    /\ \E rtt \in Trips \cup {1000 * (pings + 1)} :
          timing' = got_response(update_server_timeout(timing), rtt, lazymode)
    /\ pings' = pings + 1
    /\ UNCHANGED <<phase, target, lazymode, num_servfail, enough, waited>>

client_tunnel ==
    /\ phase = "pings" /\ pings = Pings
    /\ phase' = "tunnel" /\ pings' = 0
    /\ UNCHANGED <<target, timing, lazymode, num_servfail, enough, waited>>

-----------------------------------------------------------------------------
(* tunnel_dns.                                                             *)

(* An answer with a header. Whether it counts as an immediate one is not    *)
(* known yet: got_response is given the variable before parse_data sets it. *)
Answer ==
    /\ phase = "tunnel"
    /\ enough' \in {enough, TRUE}
    /\ \/ UNCHANGED timing
       \/ /\ timing.num < MaxSamples
          /\ \E rtt \in Trips : timing' = got_response(timing, rtt, lazymode)
    /\ UNCHANGED <<phase, pings, target, lazymode, num_servfail>>
    /\ waited' = NotWaiting

Folded(n) == IF n < 45 THEN n ELSE n - 5

Servfails == num_servfail + 1

(* Faulty: a target of just 500 is not reduced.                            *)
TooLongAbove ==
    lazymode /\ ~enough /\ Servfails >= 10 /\ timing.max > 500 /\ Servfails % 5 = 0

(* Faulty: reduced as long as there is something to take away.              *)
TooLongToNothing ==
    lazymode /\ ~enough /\ Servfails >= 10 /\ timing.max >= 200 /\ Servfails % 5 = 0

(* Every fifth SERVFAIL may mean that the relay does not wait so long.      *)
TooLong ==
    lazymode /\ ~enough /\ Servfails >= 10 /\ timing.max >= 500 /\ Servfails % 5 = 0

(* Or that lazy mode does not work here at all.                            *)
Hopeless == lazymode /\ ~enough /\ Servfails >= 40 /\ timing.max < 500

(* SERVFAILs alone are a reason to give lazy mode up if few queries have    *)
(* been answered and the path itself is not slow.                          *)
Reason == lazymode /\ ~enough /\ AverageRtt(timing) < 700

Waiting ==
    IF Reason
    THEN [fails |-> waited.fails + 1,
          from  |-> IF waited.fails = 0 THEN timing.max ELSE waited.from]
    ELSE NotWaiting

Reduced(t) == update_server_timeout([t EXCEPT !.max = @ - 200])

Reduce ==
    /\ phase = "tunnel" /\ TooLong
    /\ num_servfail' = Folded(Servfails)
    /\ timing' = Reduced(timing)
    /\ waited' = Waiting
    /\ UNCHANGED <<phase, pings, target, lazymode, enough>>

(* The server is asked for immediate mode; if it does not answer, the       *)
(* client goes on in lazy mode with the time-outs of the other.            *)
LastDitch ==
    /\ phase = "tunnel" /\ Hopeless
    /\ num_servfail' = Folded(Servfails)
    /\ timing' = immediate_mode_defaults(timing)
    /\ lazymode' \in BOOLEAN
    /\ waited' = NotWaiting
    /\ UNCHANGED <<phase, pings, target, enough>>

Ignore ==
    /\ phase = "tunnel" /\ ~TooLong /\ ~Hopeless
    /\ num_servfail' = Folded(Servfails)
    /\ waited' = Waiting
    /\ UNCHANGED <<phase, pings, target, timing, lazymode, enough>>

Servfail == Reduce \/ LastDitch \/ Ignore

Tunnel == handshake_set_timeout \/ client_tunnel \/ Answer \/ Servfail

AdaptationNext == BeginPings \/ Tunnel
AdaptationSpec == AdaptationInit /\ [][AdaptationNext]_adaptation

-----------------------------------------------------------------------------
(* Properties.                                                             *)

(* However the average, the target and the mode have changed, the server is *)
(* not to hold a query so long that its answer comes after the client stops *)
(* waiting for it, unless the path alone takes that long                   *)
(* (update_server_timeout).                                                *)
AnswersInTime ==
    phase = "tunnel" /\ lazymode /\ AverageRtt(timing) < timing.max =>
        /\ timing.server >= 0
        /\ timing.server + AverageRtt(timing) <= timing.max

(* Reduced again and again, the target stays at 300 ms or where the user    *)
(* has put it (tunnel_dns, the branch of SERVFAIL).                        *)
TargetKept == phase # "idle" => timing.max >= 300 \/ timing.max >= target

(* "last-ditch attempt to fix SERVFAILs" (client.c:1081): in lazy mode over *)
(* a path that is not slow, if SERVFAILs are all that comes and few queries *)
(* were answered before, the client asks for immediate mode, and if it is   *)
(* not heard, again and again: no later than it takes to bring the target,  *)
(* 200 ms at every fifth SERVFAIL, below 500 ms from where it was, and once *)
(* more from 1.7 seconds, where a third miss may put it.                   *)
Patience == 10 + 5 * ((waited.from + 1200) \div 200)
LastDitchTried == waited.fails <= Patience

=============================================================================
