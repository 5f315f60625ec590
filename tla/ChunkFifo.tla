------------------------------ MODULE ChunkFifo ------------------------------
(***************************************************************************)
(* What one direction of the tunnel promises to the two tun devices: the    *)
(* packets ("chunks") accepted at one end come out at the other end whole,  *)
(* once each and in the order in which they were accepted.                  *)
(***************************************************************************)
EXTENDS Naturals, Sequences

CONSTANT Chunk  \* the packets

VARIABLES
    offered,    \* every chunk accepted so far, in order
    delivered   \* every chunk written to the far tun device so far

vars == <<offered, delivered>>

Init == offered = << >> /\ delivered = << >>

(* The sending end accepts one more packet.                                *)
Accept ==
    /\ \E c \in Chunk : offered' = Append(offered, c)
    /\ UNCHANGED delivered

(* The receiving end hands out the next one.                               *)
Deliver ==
    /\ Len(delivered) < Len(offered)
    /\ delivered' = Append(delivered, offered[Len(delivered) + 1])
    /\ UNCHANGED offered

Next == Accept \/ Deliver

Spec == Init /\ [][Next]_vars

=============================================================================
