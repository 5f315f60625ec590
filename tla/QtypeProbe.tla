----------------------------- MODULE QtypeProbe -----------------------------
(***************************************************************************)
(* The search of the handshake for the best DNS query type (client.c,       *)
(* handshake_qtype_autodetect, handshake_qtypetest): the types, numbered    *)
(* from the one with the largest answers on, are tried with a wait of 1 s   *)
(* each, then those better than the best found so far with 2 s, then 3 s.   *)
(*                                                                         *)
(* delay[t] is how many seconds the path takes to answer a query of type t, *)
(* Never when it does not or changes the answer. The answer to an earlier   *)
(* query may come while another is awaited: it is not taken for the answer, *)
(* but restarts the wait.                                                   *)
(***************************************************************************)
EXTENDS Naturals, FiniteSets

CONSTANT Delays     \* what the paths looked at may take: delays and Never

Types == 0 .. 6     \* NULL, PRIVATE, TXT, SRV, MX, CNAME, A
MaxTimeout == 3
Never == MaxTimeout + 2
None  == 100

VARIABLES
    delay,      \* of the path; it does not change
    timeout, qtypenum, highestworking,
    late,       \* whether an answer to an earlier query may still come
    lossless,   \* whether no query that should have been answered was lost
    done

vars == <<delay, timeout, qtypenum, highestworking, late, lossless, done>>

Init ==
    /\ delay \in [Types -> Delays]
    /\ timeout = 1 /\ qtypenum = 0 /\ highestworking = None
    /\ late = FALSE /\ lossless = TRUE /\ done = FALSE

(* The end of a round, with the best type being best.                       *)
EndRound(best) ==
    /\ highestworking' = best
    /\ timeout' = timeout + 1
    /\ qtypenum' = 0
    /\ done' = (best = 0 \/ timeout' > MaxTimeout)

(* Faulty: a round goes on with the types that are worse.                   *)
AnsweredGoOn ==
    /\ ~ done
    /\ delay[qtypenum] <= timeout \/ (late /\ delay[qtypenum] # Never)
    /\ IF qtypenum + 1 \in Types
       THEN /\ highestworking' = qtypenum /\ qtypenum' = qtypenum + 1
            /\ UNCHANGED <<timeout, done>>
       ELSE EndRound(qtypenum)
    /\ UNCHANGED <<delay, late, lossless>>

(* The type works: the round ends. That the wait was restarted may have     *)
(* helped.                                                                  *)
Answered ==
    /\ ~ done
    /\ delay[qtypenum] <= timeout \/ (late /\ delay[qtypenum] # Never)
    /\ EndRound(qtypenum)
    /\ UNCHANGED <<delay, late, lossless>>

(* It does not, in this time: on to the next that would be better than what *)
(* is known to work.                                                        *)
NotAnswered ==
    /\ ~ done
    /\ IF qtypenum + 1 \in Types /\ qtypenum + 1 < highestworking
       THEN qtypenum' = qtypenum + 1 /\ UNCHANGED <<timeout, highestworking, done>>
       ELSE EndRound(highestworking)
    /\ late' = (late \/ delay[qtypenum] # Never)
    /\ lossless' = (lossless /\ delay[qtypenum] > timeout)
    /\ UNCHANGED delay

Next == Answered \/ NotAnswered

Spec == Init /\ [][Next]_vars

-----------------------------------------------------------------------------
(* Properties.                                                             *)

TypeOK ==
    /\ timeout \in 1 .. MaxTimeout + 1
    /\ qtypenum \in Types
    /\ highestworking \in Types \cup {None}
    /\ ~ done => qtypenum < highestworking

(* The type chosen is one that the path brings unchanged ...                *)
TypeWorks == highestworking # None => delay[highestworking] # Never

(* ... and, if no query was lost, none is better that is answered within    *)
(* the longest wait; in particular one is found if there is one.            *)
NoneBetter ==
    done /\ lossless =>
        \A t \in Types : delay[t] <= MaxTimeout => highestworking <= t

=============================================================================
