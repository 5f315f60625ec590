----------------------------- MODULE FragBuffer -----------------------------
(***************************************************************************)
(* The fragment buffer of window.c / window.h: a ring of Length slots that  *)
(* both ends of the tunnel use, the sending end to hold the fragments it    *)
(* has cut a packet into until they are acknowledged, the receiving end to  *)
(* hold fragments until a whole packet (a "chunk") can be put together.     *)
(*                                                                         *)
(* The operators here are the functions of window.c as functions on the     *)
(* buffer's value: a handler of client.c calls several of them in a row in  *)
(* one step, and the modules that own a buffer compose them the same way.   *)
(*                                                                         *)
(* What is abstracted: the bytes of a fragment are one value of Data (a     *)
(* fragment is in use, len > 0, iff its data is not NoData); acks and       *)
(* retries are only ever compared with 0 and 1, so they saturate at 1; the  *)
(* counters kept for the statistics report (resends, oos, the duplicate     *)
(* count in retries of a receiving buffer), the compression flag and        *)
(* window_end, which only debug output reads, are left out.                 *)
(***************************************************************************)
EXTENDS Integers, Sequences

CONSTANTS
    MaxSeqId,   \* MAX_SEQ_ID: sequence ids are 0 .. MaxSeqId - 1 (256)
    Length,     \* w->length: number of slots of the ring (64)
    SendWindowSize, \* w->windowsize of a sending buffer (8)
    Data,       \* what a fragment can carry
    NoData      \* the content of an unused slot (len = 0)

ASSUME BufferAssumption ==
    /\ Length \in Nat \ {0}
    /\ MaxSeqId \in Nat
    /\ Length < MaxSeqId
    /\ NoData \notin Data

Slots  == 0 .. Length - 1
SeqIds == 0 .. MaxSeqId - 1

Minimum(a, b) == IF a <= b THEN a ELSE b

(* The arithmetic macros of window.h.                                      *)
Wrap(x) == x % Length

SeqOffset(start, a) == IF a >= start THEN a - start ELSE MaxSeqId - start + a

InWindowSeq(start, end, a) ==
    IF start < end THEN a >= start /\ a <= end
                   ELSE (a >= start /\ a <= MaxSeqId - 1) \/ a <= end

(* How many WRAP(x + 1) steps lead from slot a to slot b: the slots that a  *)
(* loop from a visits are those at distance 0, 1, 2, ...                    *)
Distance(a, b) == IF b >= a THEN b - a ELSE b - a + Length

-----------------------------------------------------------------------------
(* Fragments and buffers.                                                  *)

Fragment == [ data : Data \cup {NoData}, seqID : SeqIds, start : BOOLEAN,
              end : BOOLEAN, acks : {0, 1}, retries : {0, 1} ]

Empty == [ data |-> NoData, seqID |-> 0, start |-> FALSE, end |-> FALSE,
           acks |-> 0, retries |-> 0 ]

Used(f) == f.data # NoData

Buffer == [ frags : [Slots -> Fragment], numitems : Nat,
            window_start : Slots, last_write : Slots, chunk_start : Slots,
            cur_seq_id : SeqIds, start_seq_id : SeqIds ]

window_buffer_init ==
    [ frags |-> [s \in Slots |-> Empty], numitems |-> 0, window_start |-> 0,
      last_write |-> 0, chunk_start |-> 0, cur_seq_id |-> 0,
      start_seq_id |-> 0 ]

window_buffer_available(w) == Length - w.numitems

(* The fragment i places after the start of the window.                    *)
InWindow(w, i) == w.frags[Wrap(w.window_start + i)]

-----------------------------------------------------------------------------
(* window_tick: move the window past the acknowledged fragments at its      *)
(* start, at most `steps' of them (windowsize per call). A sending buffer   *)
(* clears what it moves past; a receiving one does not, so calling it n     *)
(* times in a row is one call with n times the steps.                       *)

Leading(w, steps) ==
    CHOOSE k \in 0 .. steps :
        /\ \A i \in 0 .. k - 1 : InWindow(w, i).acks >= 1
        /\ k < steps => InWindow(w, k).acks < 1

MoveWindow(w, k) ==
    [ w EXCEPT !.window_start = Wrap(@ + k),
               !.start_seq_id = (@ + k) % MaxSeqId ]

(* Faulty variants, each with a plausible slip: the checks that a property  *)
(* can fail use them.                                                      *)
tick_sending_miscounts(w, steps) ==
    LET k == Leading(w, steps) IN
    [ MoveWindow(w, k) EXCEPT
        !.frags = [ s \in Slots |-> IF Distance(w.window_start, s) < k
                                    THEN Empty ELSE w.frags[s] ] ]

tick_recving_unacked(w, steps) == MoveWindow(w, Minimum(steps, 1))

window_tick_sending(w, steps) ==
    LET k == Leading(w, steps) IN
    [ MoveWindow(w, k) EXCEPT
        !.numitems = @ - k,
        !.frags = [ s \in Slots |-> IF Distance(w.window_start, s) < k
                                    THEN Empty ELSE w.frags[s] ] ]

window_tick_recving(w, steps) == MoveWindow(w, Leading(w, steps))

-----------------------------------------------------------------------------
(* The sending side.                                                       *)

(* window_add_outgoing_data with its calls of window_append_fragment: the   *)
(* pieces of one packet go into the slots from last_write on. Callers check *)
(* that there is a piece and that the pieces fit; the code returns -1.      *)
window_add_outgoing_data(w, pieces) ==
    LET n == Len(pieces)
        New(i) == [ data |-> pieces[i + 1],
                    seqID |-> (w.cur_seq_id + i) % MaxSeqId,
                    start |-> i = 0, end |-> i = n - 1,
                    acks |-> 0, retries |-> 0 ]
    IN  [ w EXCEPT
            !.frags = [ s \in Slots |-> IF Distance(w.last_write, s) < n
                                        THEN New(Distance(w.last_write, s))
                                        ELSE w.frags[s] ],
            !.numitems = @ + n,
            !.last_write = Wrap(@ + n),
            !.cur_seq_id = (@ + n) % MaxSeqId ]

(* The offsets in the window of fragments that still want an answer.       *)
Unacked(w, ws) ==
    {i \in 0 .. ws - 1 : Used(InWindow(w, i)) /\ InWindow(w, i).acks < 1}

(* The offsets window_get_next_sending_fragment may pick: the first         *)
(* unacknowledged fragment that was never sent, or an earlier one whose     *)
(* acknowledgement has timed out (any sent one may have, at any time).      *)
Sendable(w, ws) ==
    {i \in Unacked(w, ws) :
        \A j \in Unacked(w, ws) : j < i => InWindow(w, j).retries = 1}

MarkSent(w, i) == [ w EXCEPT !.frags[Wrap(w.window_start + i)].retries = 1 ]

(* window_ack: the first fragment of the window with this sequence id.     *)
Acked(w, ws, seqid) ==
    {i \in 0 .. ws - 1 : Used(InWindow(w, i)) /\ InWindow(w, i).seqID = seqid}

(* Faulty: the loop goes one too far; the fragment is released at once; the *)
(* acknowledgement counts for all before it; for the window's first one.    *)
ack_beyond_window(w, ws, seqid) ==
    LET hits == Acked(w, ws + 1, seqid) IN
    IF hits = {} THEN w
    ELSE [ w EXCEPT !.frags[Wrap(w.window_start + CHOOSE i \in hits : TRUE)].acks = 1 ]

ack_releasing(w, ws, seqid) ==
    LET hits == Acked(w, ws, seqid) IN
    IF hits = {} THEN w
    ELSE [ w EXCEPT !.frags[Wrap(w.window_start + CHOOSE i \in hits : TRUE)] = Empty,
                    !.numitems = @ - 1 ]

ack_cumulative(w, ws, seqid) ==
    [ w EXCEPT !.frags = [ s \in Slots |->
        IF \E i \in Acked(w, ws, seqid) : Distance(w.window_start, s) <= i
        THEN [w.frags[s] EXCEPT !.acks = 1] ELSE w.frags[s] ] ]

ack_first(w, ws, seqid) ==
    IF Used(InWindow(w, 0))
    THEN [ w EXCEPT !.frags[w.window_start].acks = 1 ] ELSE w

window_ack(w, ws, seqid) ==
    LET hits  == Acked(w, ws, seqid)
        first == CHOOSE i \in hits : \A j \in hits : i <= j
    IN  IF hits = {} THEN w
        ELSE [ w EXCEPT !.frags[Wrap(w.window_start + first)].acks = 1 ]

-----------------------------------------------------------------------------
(* The receiving side.                                                     *)

(* Faulty: all that is not next is dropped.                                *)
AncientNotNext(w, ws, seqid) == seqid # w.start_seq_id

(* window_process_incoming_fragment: drop what is neither in the window nor *)
(* a little ahead of it, and what is already there; store the rest, over    *)
(* whatever the slot held.                                                  *)
Ancient(w, ws, seqid) ==
    LET start  == w.start_seq_id IN
    /\ ~ InWindowSeq(start, (start + ws) % MaxSeqId, seqid)
    /\ SeqOffset(start, seqid) >
           Minimum(Length - w.numitems, MaxSeqId \div 2)

Destination(w, seqid) == Wrap(w.window_start + SeqOffset(w.start_seq_id, seqid))

window_process_incoming_fragment(w, ws, f) ==
    LET dest == Destination(w, f.seqID)
        old  == w.frags[dest]
    IN  IF \/ Ancient(w, ws, f.seqID)
           \/ Used(old) /\ old.seqID = f.seqID
        THEN w
        ELSE [ w EXCEPT !.frags[dest] = [ f EXCEPT !.acks = 1, !.retries = 0 ],
                        !.numitems = @ + 1 ]

(* window_reassemble_data walks at most numitems fragments from chunk_start *)
(* while each is there with the expected sequence id, up to one that ends   *)
(* the chunk.                                                               *)
InChunk(w, i) == w.frags[Wrap(w.chunk_start + i)]

Expected(w, i) ==
    /\ Used(InChunk(w, i))
    /\ InChunk(w, i).seqID = (InChunk(w, 0).seqID + i) % MaxSeqId

(* Faulty: the walk does not stop at the end of a chunk.                   *)
WalkedOn(w, i) == i < w.numitems /\ \A j \in 0 .. i : Expected(w, j)

(* Fragment i is reached and accepted by the walk.                         *)
Walked(w, i) ==
    /\ i < w.numitems
    /\ \A j \in 0 .. i : Expected(w, j)
    /\ \A j \in 0 .. i - 1 : ~ InChunk(w, j).end

WalkLength(w) ==
    CHOOSE k \in 0 .. w.numitems :
        /\ \A i \in 0 .. k - 1 : Walked(w, i)
        /\ ~ Walked(w, k)

(* The code gives up before the walk when the chunk's first slot does not   *)
(* hold a fragment that starts a chunk.                                     *)
MissingStart(w) == ~ InChunk(w, 0).start /\ w.numitems > 0

(* The chunk that is returned, << >> when there is none.                   *)
Reassembled(w) ==
    LET k == WalkLength(w) IN
    IF MissingStart(w) \/ k = 0 \/ ~ InChunk(w, k - 1).end
    THEN << >>
    ELSE [i \in 1 .. k |-> InChunk(w, i - 1).data]

(* Faulty: the fragment that ends a chunk is counted twice.                *)
reassemble_miscounts(w, ws) ==
    LET k == Len(Reassembled(w)) IN
    IF k = 0 THEN w
    ELSE [ window_tick_recving(w, k * ws) EXCEPT
             !.frags = [ s \in Slots |-> IF Distance(w.chunk_start, s) < k
                                         THEN Empty ELSE w.frags[s] ],
             !.chunk_start = Wrap(@ + k),
             !.numitems = @ - (k + 1) ]

(* Its effect on the buffer: one window_tick for each fragment walked, then *)
(* the slots from chunk_start to WRAP(chunk_start + k) are cleared -- none  *)
(* when those two are the same slot (ITER_FORWARD).                         *)
window_reassemble_data(w, ws) ==
    LET k == WalkLength(w)
        ticked == window_tick_recving(w, k * ws)
    IN  IF MissingStart(w) THEN w
        ELSE IF Reassembled(w) = << >> THEN ticked
        ELSE [ ticked EXCEPT
                 !.frags = [ s \in Slots |->
                               IF Distance(w.chunk_start, s) < Wrap(k)
                               THEN Empty ELSE w.frags[s] ],
                 !.chunk_start = Wrap(@ + k),
                 !.numitems = @ - k ]

=============================================================================
