--------------------------- MODULE WindowTransfer ---------------------------
(***************************************************************************)
(* One direction of the tunnel, end to end: the sending buffer of one end,  *)
(* the receiving buffer of the other and the DNS path between them, which   *)
(* loses, duplicates and reorders both fragments and acknowledgements.      *)
(* Downstream, the receiver is the client (tunnel_dns) and the sender is    *)
(* iodined; upstream, the sender is the client (tunnel_tun, send_next_frag, *)
(* tunnel_dns for the acknowledgements). Both programs use window.c, so     *)
(* either direction is the composition of the same two ends.                *)
(*                                                                         *)
(* The fragments are numbered and carry their number, as in RecvWindow. In  *)
(* the code the acknowledgement of a fragment travels in the header of the  *)
(* next query or answer the other way; here it is a message of its own.     *)
(***************************************************************************)
EXTENDS SendWindow, RecvWindow

VARIABLES
    fragments,  \* fragments under way
    acks        \* acknowledgements under way, each with the fragment's number

network  == <<fragments, acks>>
stream   == <<offered, written>>
receiver == <<inbuf, tun, out>>
vars == <<outbuf, inbuf, tun, out, offered, written, got, fragments, acks>>

(* The pieces, n of them, of a packet that begins with fragment k.         *)
Pieces(k, n) == [j \in 1 .. n |-> k + j - 1]

(* The packets are those of the stream, and the path may let a fragment be  *)
(* overtaken by the others of its window at least: the sender sends those   *)
(* without waiting for it.                                                 *)
ASSUME TransferAssumption ==
    /\ \A k \in Data, n \in 1 .. MaxChunk :
           k + n <= MaxFrags => Pieces(k, n) \in Packets
    /\ SendWindowSize <= MaxAge + 1

Init ==
    /\ SendInit
    /\ RecvInit
    /\ fragments = {}
    /\ acks = {}

(* A packet of n pieces is read from the tun device and queued.            *)
ReadTun(n) ==
    /\ Queue(Pieces(written, n))
    /\ Offer(n)
    /\ UNCHANGED network

(* The network: what Transmit(k) overtakes by more than MaxAge is gone.     *)
Young(k) == {m \in fragments : k <= m.data + MaxAge}
YoungAcks(k) == {a \in acks : k <= a.data + MaxAge}

(* Fragment k is sent, for the first time or because its acknowledgement    *)
(* has timed out.                                                          *)
Transmit(k) ==
    \E i \in 0 .. SendWindowSize - 1 :
        LET f == InWindow(outbuf, i) IN
        /\ f.data = k
        /\ SendFrag(i)
        /\ fragments' = Young(k) \cup {[f EXCEPT !.retries = 0]}
        /\ acks' = YoungAcks(k)
        /\ UNCHANGED <<receiver, stream, got>>

(* Fragment k reaches the other end, which answers with its acknowledgement *)
(* whatever the buffer does with it. A duplicate may stay under way.        *)
ArriveFrag(k) ==
    \E m \in fragments :
        /\ m.data = k
        /\ TunnelDns(m)
        /\ got' = got \cup {k}
        /\ fragments' \in {fragments, fragments \ {m}}
        /\ acks' = acks \cup {[seqID |-> m.seqID, data |-> k]}
        /\ UNCHANGED <<outbuf, stream>>

(* The acknowledgement of fragment k reaches the sender.                   *)
ArriveAck(k) ==
    \E a \in acks :
        /\ a.data = k
        /\ TakeAck(a.seqID)
        /\ acks' \in {acks, acks \ {a}}
        /\ UNCHANGED <<receiver, stream, got, fragments>>

Lose ==
    /\ \/ \E m \in fragments : fragments' = fragments \ {m} /\ UNCHANGED acks
       \/ \E a \in acks : acks' = acks \ {a} /\ UNCHANGED fragments
    /\ UNCHANGED <<outbuf, receiver, stream, got>>

Next ==
    \/ \E n \in 1 .. MaxChunk : ReadTun(n)
    \/ \E k \in Data : Transmit(k)
    \/ \E k \in Data : ArriveFrag(k)
    \/ \E k \in Data : ArriveAck(k)
    \/ Lose

Spec == Init /\ [][Next]_vars

(* A fragment that waits is sent again and again: a resend stamps lastsent, *)
(* so the loop turns to the next one that has timed out. A message that is  *)
(* sent again and again gets through in the end.                           *)
Fairness ==
    /\ \A k \in Data : WF_vars(Transmit(k))
    /\ \A k \in Data : SF_vars(ArriveFrag(k))
    /\ \A k \in Data : SF_vars(ArriveAck(k))

FairSpec == Spec /\ Fairness

-----------------------------------------------------------------------------
(* Properties.                                                             *)

(* The number of the first fragment the sender still holds.                *)
Released == written - outbuf.numitems

(* The sender lets go of a fragment only when that very fragment has        *)
(* arrived: no acknowledgement, late or duplicated, is taken for one of     *)
(* another fragment that has its sequence id, or for one never sent.        *)
ReleasedArrived == 0 .. Released - 1 \subseteq got

(* No fragment is lost: each one accepted at the tun device has come out at *)
(* the other end or is stored in one of the two buffers.                   *)
NothingLost ==
    \A k \in 0 .. written - 1 :
        \/ k < out
        \/ k >= Released
        \/ \E s \in Slots : inbuf.frags[s].data = k

(* The receiving window begins between the sender's first fragment and the  *)
(* end of the sender's window: the two windows, each moved by its own end   *)
(* only, never come apart.                                                 *)
WindowsMeet ==
    \E r \in Released .. Released + SendWindowSize :
        inbuf.start_seq_id = r % MaxSeqId

(* The sender is the one the receiver relies on (RecvWindow, MayArrive), so *)
(* everything said there of the receiver holds here.                       *)
ImplementsReceiver == RecvSpec

(* What has been queued is sent and acknowledged in the end, whatever is    *)
(* lost on the way ("The windowing protocol manages data retransmits,       *)
(* timeouts etc.", client.c).                                              *)
SenderDrains == (outbuf.numitems > 0) ~> (outbuf.numitems = 0)

=============================================================================
