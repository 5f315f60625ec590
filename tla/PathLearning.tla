---------------------------- MODULE PathLearning ----------------------------
(***************************************************************************)
(* All that the client finds out about the path, in the order in which it   *)
(* does: the query type and the size of the answers (Probes), and then, for *)
(* as long as the tunnel stands, how long answers take and how long relays  *)
(* wait (Adaptation). Nothing goes from the searches to the adaptation: a   *)
(* path of any type and size may be of any speed.                          *)
(***************************************************************************)
EXTENDS Probes, Adaptation

allvars == <<vars, adaptation>>

PathInit == Init /\ AdaptationInit

Search ==
    /\ phase = "idle"
    /\ Next
    /\ UNCHANGED adaptation

(* handshake_autoprobe_fragsize has returned a size, and its variables are  *)
(* gone; client_handshake goes on to handshake_set_timeout.                *)
SetTimeout ==
    /\ stage = "fragsize" /\ size_found /\ Fragsize!Result > 0
    /\ BeginPings
    /\ stage' = "between"
    /\ limit' = 0 /\ corrupting' = FALSE
    /\ proposed_fragsize' = 768 /\ range' = 768 /\ max_fragsize' = 0 /\ try' = 0
    /\ fragments_kept' = TRUE
    /\ UNCHANGED <<type_search, size_found>>

Adapt ==
    /\ Tunnel
    /\ UNCHANGED vars

PathNext == Search \/ SetTimeout \/ Adapt

PathSpec == PathInit /\ [][PathNext]_allvars

=============================================================================
