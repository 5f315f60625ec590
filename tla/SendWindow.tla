----------------------------- MODULE SendWindow -----------------------------
(***************************************************************************)
(* The sending end of one direction of the tunnel: the buffer this.outbuf   *)
(* of client.c and the three handlers that touch it, each one step of the   *)
(* single-threaded loop client_tunnel:                                      *)
(*   - tunnel_tun / tunnel_stdin queue the fragments of one packet;         *)
(*   - send_next_frag sends one fragment, again if its acknowledgement has  *)
(*     timed out, and moves the window;                                     *)
(*   - tunnel_dns applies the acknowledgement an answer carries and moves   *)
(*     the window.                                                          *)
(* Here the acknowledgements are any sequence ids at all, in any order: the *)
(* properties of this module are what the buffer keeps whatever the other   *)
(* end and the network do. WindowTransfer composes it with the receiver.    *)
(***************************************************************************)
EXTENDS FragBuffer

CONSTANT
    Packets     \* packets read from tun or stdin, cut into their pieces

ASSUME SendAssumption ==
    /\ SendWindowSize \in 1 .. Length
    /\ Packets \subseteq Seq(Data) \ {<< >>}

VARIABLE outbuf

sendvars == outbuf

SendInit == outbuf = window_buffer_init

(* tunnel_tun, tunnel_stdin. The loop does not select on the tun device     *)
(* unless two slots are free; a packet with more pieces than free slots is  *)
(* refused by window_add_outgoing_data and dropped.                         *)
MayRead == window_buffer_available(outbuf) > 1

(* Faulty: the pieces are added without looking whether they fit.          *)
QueueUnchecked(pieces) ==
    /\ MayRead
    /\ outbuf' = window_add_outgoing_data(outbuf, pieces)

Queue(pieces) ==
    /\ MayRead
    /\ Len(pieces) <= window_buffer_available(outbuf)
    /\ outbuf' = window_add_outgoing_data(outbuf, pieces)

(* send_next_frag, for the fragment i places into the window. (Its other    *)
(* branch, no fragment to send although window_sending counted one, cannot  *)
(* be taken: both read the same buffer in the same step.)                   *)
SendFrag(i) ==
    /\ i \in Sendable(outbuf, SendWindowSize)
    /\ outbuf' = window_tick_sending(MarkSent(outbuf, i), SendWindowSize)

(* tunnel_dns, the part that concerns the sending buffer.                  *)
(* Faulty: the window is not moved.                                        *)
TakeAckUnmoved(seqid) == outbuf' = window_ack(outbuf, SendWindowSize, seqid)

TakeAck(seqid) ==
    outbuf' = window_tick_sending(window_ack(outbuf, SendWindowSize, seqid),
                                  SendWindowSize)

SendNext ==
    \/ \E pieces \in Packets : Queue(pieces)
    \/ \E i \in 0 .. SendWindowSize - 1 : SendFrag(i)
    \/ \E seqid \in SeqIds : TakeAck(seqid)

SendSpec == SendInit /\ [][SendNext]_sendvars

-----------------------------------------------------------------------------
(* Properties.                                                             *)

(* The buffer is of its type, for window.h's struct frag_buffer.           *)
SendTypeOK == outbuf \in Buffer /\ outbuf.numitems <= Length

(* The used slots are the numitems slots from window_start on, with         *)
(* consecutive sequence ids from start_seq_id, the others are zeroed, and   *)
(* the next fragment will be appended right after with the next id: the     *)
(* four cursors that window_append_fragment, window_tick and window_ack     *)
(* each keep for themselves (last_write, cur_seq_id, window_start,          *)
(* start_seq_id) and the count numitems never drift apart, whatever is      *)
(* acknowledged.                                                           *)
ContiguousBuffer(w) ==
    /\ \A i \in 0 .. Length - 1 :
           IF i < w.numitems
           THEN /\ Used(InWindow(w, i))
                /\ InWindow(w, i).seqID = (w.start_seq_id + i) % MaxSeqId
           ELSE InWindow(w, i) = Empty
    /\ w.last_write = Wrap(w.window_start + w.numitems)
    /\ w.cur_seq_id = (w.start_seq_id + w.numitems) % MaxSeqId

Contiguous == ContiguousBuffer(outbuf)

(* Two fragments of the buffer never share a sequence id, so that           *)
(* window_ack, which stops at the first match, acknowledges the one meant.  *)
UniqueSeqIds ==
    \A s, t \in Slots :
        /\ Used(outbuf.frags[s]) /\ Used(outbuf.frags[t])
        /\ outbuf.frags[s].seqID = outbuf.frags[t].seqID
        => s = t

(* Flow control: what has been sent or acknowledged and is still stored     *)
(* lies in the window, so at most windowsize fragments are in flight        *)
(* (window.h: "Max number of fragments in flight").                        *)
InFlightBuffer(w) ==
    \A i \in 0 .. Length - 1 :
        InWindow(w, i).retries = 1 \/ InWindow(w, i).acks = 1 => i < SendWindowSize

InFlightBounded == InFlightBuffer(outbuf)

(* After every handler the window stands on a fragment that still waits for *)
(* its acknowledgement, or the buffer is empty: no handler forgets the tick *)
(* that makes room.                                                         *)
WindowSettled ==
    outbuf.numitems > 0 => InWindow(outbuf, 0).acks = 0

(* The three together: between any two handlers, cursors, count, ids and    *)
(* window of the sending buffer tell the same story.                        *)
SendCoherent == Contiguous /\ UniqueSeqIds /\ WindowSettled

(* The packets' pieces, in order, that are still in the buffer.            *)
Pending(w) == [ i \in 1 .. w.numitems |-> InWindow(w, i - 1).data ]

(* The buffer is a queue: a step appends the pieces of a packet behind what *)
(* is there, or releases a front part, and changes nothing in between --    *)
(* nothing is overwritten, reordered or dropped from the middle when the    *)
(* ring wraps.                                                              *)
QueueStep ==
    \/ \E pieces \in Packets : Pending(outbuf)' = Pending(outbuf) \o pieces
    \/ \E k \in 0 .. outbuf.numitems :
           Pending(outbuf)' = SubSeq(Pending(outbuf), k + 1, outbuf.numitems)

QueueDiscipline == [][QueueStep]_sendvars

(* One answer's acknowledgement releases at most one fragment that had not  *)
(* been acknowledged before; everything else it releases waited behind it.  *)
(* The fragments that leave the window are those it moves past.             *)
ReleaseStep ==
    \A i, j \in 0 .. SendWindowSize - 1 :
        LET released == outbuf.numitems - outbuf'.numitems
            fresh(k) == k < released /\ InWindow(outbuf, k).acks = 0
        IN  fresh(i) /\ fresh(j) => i = j

ReleaseOnlyAcked == [][ReleaseStep]_sendvars

=============================================================================
