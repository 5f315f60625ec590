---------------------------- MODULE MCSendWindow ----------------------------
(* A ring of 4 slots, 6 sequence ids, packets of one to three pieces.      *)
EXTENDS SendWindow

CONSTANTS a, b

MCData == {a, b}

MCPackets == {<<a>>, <<a, b>>, <<b, a, a>>}

=============================================================================
