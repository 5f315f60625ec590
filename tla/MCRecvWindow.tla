---------------------------- MODULE MCRecvWindow ----------------------------
EXTENDS RecvWindow

MCData == 0 .. MaxFrags - 1

=============================================================================
