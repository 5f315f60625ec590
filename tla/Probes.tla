------------------------------- MODULE Probes -------------------------------
(***************************************************************************)
(* The two searches of the client for what the DNS path carries, in the     *)
(* order in which client.c runs them: the one for the query type, and, once *)
(* the handshake has come so far, the one for the size of the answers with  *)
(* that type. Each keeps its state in local variables, which are gone when  *)
(* it has returned; all that goes from the first to the second is the type, *)
(* which decides how large an answer the path brings: any limit is possible *)
(* with any type.                                                          *)
(***************************************************************************)
EXTENDS Integers

CONSTANTS Delays, Limits, Corrupting    \* as in QtypeProbe and FragsizeProbe

VARIABLES
    stage,      \* "qtype" or "fragsize", the search that runs, or "between"
    delay, timeout, qtypenum, highestworking, late, answers_kept, type_found,
    limit, corrupting, proposed_fragsize, range, max_fragsize, try,
    fragments_kept, size_found

Qtype == INSTANCE QtypeProbe WITH lossless <- answers_kept, done <- type_found

Fragsize == INSTANCE FragsizeProbe WITH lossless <- fragments_kept, done <- size_found

ASSUME ProbesAssumption ==
    /\ Delays \subseteq 1 .. Qtype!Never
    /\ Limits \subseteq Nat
    /\ Corrupting \subseteq BOOLEAN

type_search == <<delay, timeout, qtypenum, highestworking, late, answers_kept, type_found>>
size_search == <<limit, corrupting, proposed_fragsize, range, max_fragsize, try,
                 fragments_kept, size_found>>
vars == <<stage, type_search, size_search>>

(* The second search has not begun.                                        *)
NoFragsizeSearch ==
    /\ limit = 0 /\ corrupting = FALSE
    /\ proposed_fragsize = 768 /\ range = 768 /\ max_fragsize = 0 /\ try = 0
    /\ fragments_kept = TRUE /\ size_found = TRUE

Init == stage = "qtype" /\ Qtype!Init /\ NoFragsizeSearch

SearchQtype ==
    /\ stage = "qtype"
    /\ Qtype!Next
    /\ UNCHANGED <<stage, size_search>>

(* A type was found: handshake_qtype_autodetect returns ...                 *)
Found ==
    /\ stage = "qtype" /\ type_found /\ highestworking # Qtype!None
    /\ stage' = "between"
    /\ delay' = [t \in Qtype!Types |-> Qtype!Never]
    /\ timeout' = 1 /\ qtypenum' = 0 /\ highestworking' = Qtype!None
    /\ late' = FALSE /\ answers_kept' = TRUE
    /\ UNCHANGED <<type_found, size_search>>

(* ... and client_handshake comes to handshake_autoprobe_fragsize.          *)
Begin ==
    /\ stage = "between"
    /\ stage' = "fragsize"
    /\ limit' \in Limits /\ corrupting' \in Corrupting
    /\ size_found' = FALSE
    /\ UNCHANGED <<type_search, proposed_fragsize, range, max_fragsize, try, fragments_kept>>

SearchFragsize ==
    /\ stage = "fragsize"
    /\ Fragsize!Next
    /\ UNCHANGED <<stage, type_search>>

Next == SearchQtype \/ Found \/ Begin \/ SearchFragsize

Spec == Init /\ [][Next]_vars

-----------------------------------------------------------------------------
(* Properties.                                                             *)

(* Every variable keeps its type; no size is proposed that does not fit the *)
(* message.                                                                *)
TypeOK == stage \in {"qtype", "between", "fragsize"} /\ Qtype!TypeOK /\ Fragsize!TypeOK

(* The type chosen is one that the path brings unchanged, although answers  *)
(* may come too late; and if no query was lost, no better type is answered  *)
(* within the longest wait (handshake_qtype_autodetect), so one is found if *)
(* there is one.                                                           *)
BestType == Qtype!TypeWorks /\ (stage = "qtype" => Qtype!NoneBetter)

(* The best size is the largest of those whose answer came whole, whichever *)
(* answers were lost on the way to it (handshake_autoprobe_fragsize).       *)
ProbeFits == Fragsize!ProbeFits

(* When no answer was lost the search comes close to the limit of the path. *)
ProbeClose == Fragsize!ProbeClose

=============================================================================
