--------------------------- MODULE MCClientTunnel ---------------------------
(* ClientTunnel for TLC.                                                   *)
EXTENDS ClientTunnel

MCRandomIds == {0, 2}
MCFragments == {5, 6}

=============================================================================
