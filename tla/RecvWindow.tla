----------------------------- MODULE RecvWindow -----------------------------
(***************************************************************************)
(* The receiving end of one direction of the tunnel: the buffer this.inbuf  *)
(* of client.c and the handler tunnel_dns for an answer that carries a      *)
(* fragment, against any network that loses, duplicates and reorders.       *)
(*                                                                         *)
(* The stream of fragments the other end produces is numbered 0, 1, 2, ...; *)
(* fragment k travels with the sequence id k % MaxSeqId and, as its data,   *)
(* its number. What is known of the arrivals is what a sender that keeps to *)
(* its window guarantees (WindowTransfer shows that ours does): never a     *)
(* fragment SendWindowSize or more beyond the first one not yet received,   *)
(* and, from the network, none that was overtaken by more than MaxAge       *)
(* others. The second is an assumption on the DNS path, not a guarantee of  *)
(* the code: sequence ids repeat after MaxSeqId fragments.                  *)
(***************************************************************************)
EXTENDS FragBuffer, FiniteSets

CONSTANTS
    RecvWindowSize, \* w->windowsize of this.inbuf
    MaxChunk,       \* the longest packet, in fragments
    MaxAge,         \* how many later fragments may overtake one
    MaxFrags        \* bound of the model: the stream ends here

ASSUME RecvAssumption ==
    /\ SendWindowSize \in 1 .. Length
    /\ RecvWindowSize \in 1 .. Length
    /\ MaxChunk \in 1 .. Length
    /\ MaxAge \in Nat /\ MaxFrags \in Nat
    /\ Data = 0 .. MaxFrags - 1

(* What the ring needs to do its work, which the code leaves to the user:   *)
(* the two ends have the same window (or the receiver's is the larger); a   *)
(* packet and a window fit the ring together, and so do two windows, but    *)
(* one (server.h:53, "must be at least windowsize * 2"); and a fragment      *)
(* that comes late is so near that its id is not that of one in the ring.   *)
(* With 256 ids, 64 slots and windows of 8 these are packets of up to 56    *)
(* fragments, and late ones overtaken by up to 190 others.                 *)
ASSUME RecvFits ==
    /\ SendWindowSize <= RecvWindowSize
    /\ MaxChunk + SendWindowSize <= Length
    /\ 2 * SendWindowSize <= Length + 1
    /\ MaxAge + 1 + Length < MaxSeqId

VARIABLES
    inbuf,      \* the receiving buffer
    tun,        \* the chunks written to the tun device, in order
    out,        \* how many fragments they hold
    offered,    \* the chunks of the stream so far, as their fragments
    written,    \* how many fragments they are
    got         \* those of them that have arrived at least once

recvvars == <<inbuf, tun, out, offered, written, got>>

RecvInit ==
    /\ inbuf = window_buffer_init
    /\ tun = << >>
    /\ out = 0
    /\ offered = << >>
    /\ written = 0
    /\ got = {}

Ends == {offered[i][Len(offered[i])] : i \in DOMAIN offered}

(* Fragment k as it travels.                                               *)
Frag(k) == [ data |-> k, seqID |-> k % MaxSeqId,
             start |-> k = 0 \/ k - 1 \in Ends, end |-> k \in Ends,
             acks |-> 0, retries |-> 0 ]

(* The other end cuts one more packet into n fragments.                    *)
Offer(n) ==
    /\ written + n <= MaxFrags
    /\ written' = written + n
    /\ offered' = Append(offered, [j \in 1 .. n |-> written + j - 1])
    /\ UNCHANGED <<inbuf, tun, out, got>>

(* A sender moves its window past k only when k has arrived, and the        *)
(* network overtakes a fragment by MaxAge others at most.                  *)
MayArrive(k) ==
    /\ k >= SendWindowSize => 0 .. k - SendWindowSize \subseteq got
    /\ \A j \in got : j <= k + MaxAge

(* Faulty: a chunk is taken out before the fragment is in its place.       *)
TunnelDnsLate(f) ==
    LET chunk  == Reassembled(inbuf)
        rest   == window_reassemble_data(inbuf, RecvWindowSize)
        placed == window_process_incoming_fragment(rest, RecvWindowSize, f)
    IN  /\ inbuf' = window_tick_recving(placed, RecvWindowSize)
        /\ tun' = IF chunk = << >> THEN tun ELSE Append(tun, chunk)
        /\ out' = out + Len(chunk)

(* tunnel_dns from the point where the fragment is known to carry data: it  *)
(* is put in its place, one chunk at most is taken out and written to the   *)
(* tun device, and the window moves.                                        *)
TunnelDns(f) ==
    LET placed == window_process_incoming_fragment(inbuf, RecvWindowSize, f)
        chunk  == Reassembled(placed)
        rest   == window_reassemble_data(placed, RecvWindowSize)
    IN  /\ inbuf' = window_tick_recving(rest, RecvWindowSize)
        /\ tun' = IF chunk = << >> THEN tun ELSE Append(tun, chunk)
        /\ out' = out + Len(chunk)

Arrive(k) ==
    /\ MayArrive(k)
    /\ TunnelDns(Frag(k))
    /\ got' = got \cup {k}
    /\ UNCHANGED <<offered, written>>

RecvNext ==
    \/ \E n \in 1 .. MaxChunk : Offer(n)
    \/ \E k \in 0 .. written - 1 : Arrive(k)

RecvSpec == RecvInit /\ [][RecvNext]_recvvars

-----------------------------------------------------------------------------
(* Properties.                                                             *)

(* inbuf is of its type, and the history of the stream and its delivery is  *)
(* of its type.                                                             *)
RecvTypeOK ==
    /\ inbuf \in Buffer
    /\ tun \in Seq(Seq(Data))
    /\ out \in 0 .. MaxFrags
    /\ written \in 0 .. MaxFrags
    /\ offered \in Seq(Seq(Data))
    /\ got \subseteq 0 .. written - 1

(* A fragment that has arrived -- and therefore was acknowledged, which the *)
(* client does for every fragment that arrives, stored or not -- has come   *)
(* out or is in the buffer: the sender will never send it again (window.c,  *)
(* window_process_incoming_fragment: "Save "new" fragments to avoid causing *)
(* other end to advance when this fragment is ACK'd despite being dropped").*)
AckedIsKept ==
    \A k \in got : k < out \/ \E s \in Slots : inbuf.frags[s].data = k

(* numitems is the number of used slots, which is what the free space and   *)
(* the length of the reassembly walk are computed from.                    *)
ItemsCounted ==
    inbuf.numitems = Cardinality({s \in Slots : Used(inbuf.frags[s])})

(* The window never moves past a fragment that has not arrived, which would *)
(* be taken for an old one and dropped: start_seq_id is a number between    *)
(* what has come out and the first one missing.                             *)
WindowBehindGap ==
    \E r \in out .. written :
        /\ inbuf.start_seq_id = r % MaxSeqId
        /\ 0 .. r - 1 \subseteq got

(* The chunk cursor stands where the next chunk to come out begins, and     *)
(* every stored fragment is in the slot its distance from there says, so a  *)
(* chunk is never put together from parts of two.                           *)
InPlace ==
    /\ inbuf.chunk_start = Wrap(out)
    /\ \A s \in Slots : Used(inbuf.frags[s]) =>
           /\ inbuf.frags[s].data \in out .. out + Length - 1
           /\ Wrap(inbuf.frags[s].data) = s

(* The three together: count, window and chunk cursor, which different      *)
(* functions move, fit what is stored and what has arrived.                 *)
RecvCoherent == ItemsCounted /\ WindowBehindGap /\ InPlace

(* One packet at most comes out for each fragment that arrives (client.c,   *)
(* one call of window_reassemble_data), so packets that have arrived        *)
(* completely can stay behind, and stay until more fragments come. While    *)
(* one does, the buffer holds fewer fragments than a window: they cannot    *)
(* pile up until the ring has no room for the next window.                 *)
NextIsWhole ==
    /\ Len(tun) < Len(offered)
    /\ \A j \in DOMAIN offered[Len(tun) + 1] : offered[Len(tun) + 1][j] \in got

FewLeftBehind ==
    NextIsWhole => Cardinality({k \in got : k >= out}) < SendWindowSize

(* The receiver implements the abstract queue: every chunk written to the   *)
(* tun device is the next one of the stream, whole.                         *)
Fifo == INSTANCE ChunkFifo WITH
            Chunk <- {[j \in 1 .. n |-> k + j - 1] :
                         k \in 0 .. MaxFrags - 1, n \in 1 .. MaxChunk},
            delivered <- tun

ImplementsFifo == Fifo!Spec

=============================================================================
