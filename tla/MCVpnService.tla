---------------------------- MODULE MCVpnService ----------------------------
(* VpnService for TLC: two connections, which may overlap, or only one.     *)
EXTENDS VpnService

CONSTANTS w1, w2

MCWorkers == {w1, w2}

MCOneWorker == {w1}

=============================================================================
