-------------------------- MODULE MCWindowTransfer --------------------------
EXTENDS WindowTransfer

MCData == 0 .. MaxFrags - 1

MCPackets == {Pieces(k, n) : k \in MCData, n \in 1 .. MaxChunk}
                 \cap Seq(MCData)

=============================================================================
