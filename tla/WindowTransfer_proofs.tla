------------------------ MODULE WindowTransfer_proofs ------------------------
(***************************************************************************)
(* Two proofs about the windows at work.                                   *)
(*                                                                         *)
(* Part 1, the receiving end alone (RecvWindow): it delivers the packets of *)
(* the stream whole, once and in order, against every network that          *)
(* overtakes a fragment by at most MaxAge others, and keeps what it         *)
(* acknowledges: for every ring, range of ids, window and length of packets *)
(* that fit one another (RecvFits). What SendWindow_proofs says of the      *)
(* operators on the ring is used here too.                                 *)
(*                                                                         *)
(* Part 2, both ends of one direction (WindowTransfer): the sender keeps to *)
(* what the receiver relies on, so everything proved of the receiver alone  *)
(* holds of the tunnel -- packets come out whole, once and in order -- and  *)
(* no acknowledgement is ever taken for one of another fragment, for every  *)
(* size of ring, windows, ids and packets that fit one another and every    *)
(* path that loses, repeats and reorders, as long as a message is overtaken *)
(* by at most MaxAge fragments.                                            *)
(***************************************************************************)
EXTENDS WindowTransfer, SendWindow_proofs, FiniteSetTheorems, FunctionTheorems

-----------------------------------------------------------------------------
(* Part 1: the receiving end.                                              *)

-----------------------------------------------------------------------------
(* The invariant.                                                          *)

FirstOf(i) == offered[i][1]
LastOf(i)  == offered[i][Len(offered[i])]

(* The stream is cut into packets that follow one another without a gap.   *)
StreamCut ==
    /\ \A i \in DOMAIN offered :
           /\ Len(offered[i]) \in 1 .. MaxChunk
           /\ \A j \in 1 .. Len(offered[i]) : offered[i][j] = FirstOf(i) + j - 1
           /\ FirstOf(i) = IF i = 1 THEN 0 ELSE LastOf(i - 1) + 1
           /\ LastOf(i) < written
           /\ \A j \in DOMAIN offered : i < j => LastOf(i) < FirstOf(j)
    /\ written = IF offered = << >> THEN 0 ELSE LastOf(Len(offered)) + 1

(* What has come out are the first packets of the stream.                  *)
OutAtCut ==
    /\ Len(tun) <= Len(offered)
    /\ out = IF Len(tun) = Len(offered) THEN written ELSE FirstOf(Len(tun) + 1)

(* A fragment as it is stored, and what a buffer holds of the fragments in  *)
(* G when the next one to come out is o: each in the slot it belongs in,    *)
(* and nothing else.                                                       *)
Placed(k) == [Frag(k) EXCEPT !.acks = 1]

Kept(w, o, G) ==
    \A k \in o .. o + Length - 1 :
        w.frags[Wrap(k)] = IF k \in G THEN Placed(k) ELSE Empty

Stored(G, o) == {k \in G : k >= o}

(* The next packet to come out has arrived completely, m being the first    *)
(* fragment missing: as one packet comes out for each arrival, such ones    *)
(* can pile up.                                                            *)
Complete(m) == Len(tun) < Len(offered) /\ LastOf(Len(tun) + 1) < m

(* With m the first fragment that has not arrived: the window begins there, *)
(* nothing from beyond the sender's window has arrived, and packets pile up *)
(* only when there are fewer fragments than a window in the buffer.        *)
InvAt(m) ==
    /\ m \in out .. written
    /\ 0 .. m - 1 \subseteq got /\ m \notin got
    /\ got \subseteq 0 .. m + SendWindowSize - 1
    /\ inbuf.window_start = Wrap(m)
    /\ inbuf.start_seq_id = m % MaxSeqId
    /\ inbuf.chunk_start = Wrap(out)
    /\ Kept(inbuf, out, got)
    /\ inbuf.numitems = Cardinality(Stored(got, out))
    /\ Complete(m) => inbuf.numitems <= SendWindowSize - 1

RecvIInv == RecvTypeOK /\ StreamCut /\ OutAtCut /\ \E m \in 0 .. MaxFrags : InvAt(m)

-----------------------------------------------------------------------------
(* Stored fragments.                                                       *)

LEMMA PlacedFacts ==
    ASSUME NEW k \in Data
    PROVE  /\ Placed(k) \in Fragment
           /\ Placed(k).data = k /\ Placed(k).seqID = k % MaxSeqId
           /\ Placed(k).acks = 1 /\ Used(Placed(k))
           /\ Placed(k).start = (k = 0 \/ k - 1 \in Ends)
           /\ Placed(k).end = (k \in Ends)
<1>1. k \in Nat /\ k % MaxSeqId \in SeqIds
  BY SeqType, RecvAssumption
<1>2. Placed(k) = [ data |-> k, seqID |-> k % MaxSeqId,
                    start |-> k = 0 \/ k - 1 \in Ends, end |-> k \in Ends,
                    acks |-> 1, retries |-> 0 ]
  BY DEF Placed, Frag
<1>3. (k = 0 \/ k - 1 \in Ends) \in BOOLEAN /\ (k \in Ends) \in BOOLEAN
  OBVIOUS
<1>4. k # NoData
  BY BufferAssumption
<1> QED BY <1>1, <1>2, <1>3, <1>4 DEF Fragment, Used

LEMMA EmptyFacts ==
    /\ Empty \in Fragment /\ ~ Used(Empty) /\ Empty.acks = 0
    /\ Empty.start = FALSE /\ Empty.data = NoData
BY BufferAssumption DEF Empty, Fragment, Used, SeqIds

(* Every slot is that of one fragment of the stretch the ring can hold.    *)
LEMMA SlotHolds ==
    ASSUME NEW w, NEW o \in Nat, NEW G, Kept(w, o, G), NEW s \in Slots
    PROVE  \E k \in o .. o + Length - 1 :
               /\ Wrap(k) = s /\ k = o + Distance(Wrap(o), s)
               /\ w.frags[s] = IF k \in G THEN Placed(k) ELSE Empty
<1>1. PICK k \in o .. o + Length - 1 : Wrap(k) = s /\ k = o + Distance(Wrap(o), s)
  BY WrapOnto
<1>2. w.frags[Wrap(k)] = IF k \in G THEN Placed(k) ELSE Empty
  BY DEF Kept
<1> QED BY <1>1, <1>2

(* Counting.                                                               *)
LEMMA StoredFinite ==
    ASSUME NEW G \in SUBSET Data, NEW o \in Nat
    PROVE  IsFiniteSet(Stored(G, o)) /\ Cardinality(Stored(G, o)) \in Nat
<1>1. IsFiniteSet(Data)
  BY FS_Interval, RecvAssumption
<1>2. IsFiniteSet(Stored(G, o))
  <2>1. Stored(G, o) \in SUBSET Data
    BY DEF Stored
  <2> QED BY <1>1, <2>1, FS_Subset
<1> QED BY <1>2, FS_CardinalityType

(* Of the fragments stored, n follow o without a gap: the rest are those    *)
(* from o + n on.                                                          *)
LEMMA StoredSplit ==
    ASSUME NEW G \in SUBSET Data, NEW o \in Nat, NEW n \in Nat, o .. o + n - 1 \subseteq G
    PROVE  Cardinality(Stored(G, o)) = n + Cardinality(Stored(G, o + n))
<1> DEFINE A == o .. o + n - 1
           B == Stored(G, o + n)
<1>1. G \subseteq Nat
  BY RecvAssumption
<1>2. Stored(G, o) = A \cup B /\ A \cap B = {}
  <2>1. ASSUME NEW x \in Stored(G, o) PROVE x \in A \cup B
    <3>1. x \in Nat /\ x \in G /\ x >= o
      BY <1>1 DEF Stored
    <3>2. x >= o + n => x \in B
      BY <3>1 DEF Stored
    <3>3. ~ (x >= o + n) => x \in A
      BY <3>1
    <3> QED BY <3>2, <3>3
  <2>2. ASSUME NEW x \in A PROVE x \in Stored(G, o)
    <3>1. x \in Nat /\ x >= o
      OBVIOUS
    <3> QED BY <3>1 DEF Stored
  <2>3. ASSUME NEW x \in B PROVE x \in Stored(G, o) /\ x \notin A
    <3>1. x \in Nat /\ x \in G /\ x >= o + n
      BY <1>1 DEF Stored
    <3> QED BY <3>1 DEF Stored
  <2> QED BY <2>1, <2>2, <2>3
<1>3. IsFiniteSet(A) /\ Cardinality(A) = n
  <2>1. o \in Int /\ o + n - 1 \in Int
    OBVIOUS
  <2>2. IsFiniteSet(A) /\ Cardinality(A) = IF o > o + n - 1 THEN 0 ELSE (o + n - 1) - o + 1
    BY <2>1, FS_Interval
  <2> HIDE DEF A
  <2> QED BY <2>2
<1>4. IsFiniteSet(B) /\ Cardinality(B) \in Nat
  <2>1. o + n \in Nat
    OBVIOUS
  <2> QED BY <2>1, StoredFinite
<1> HIDE DEF A, B
<1>5. Cardinality(A \cup B) = Cardinality(A) + Cardinality(B) - Cardinality({})
  BY <1>2, <1>3, <1>4, FS_Union
<1> QED BY <1>2, <1>3, <1>4, <1>5, FS_EmptySet DEF B

LEMMA StoredMore ==
    ASSUME NEW G \in SUBSET Data, NEW o \in Nat, NEW k \in Data, k \notin G, k >= o
    PROVE  Cardinality(Stored(G \cup {k}, o)) = Cardinality(Stored(G, o)) + 1
<1>1. Stored(G \cup {k}, o) = Stored(G, o) \cup {k} /\ k \notin Stored(G, o)
  BY DEF Stored
<1> QED BY <1>1, StoredFinite, FS_AddElement

LEMMA StoredFew ==
    ASSUME NEW G \in SUBSET Data, NEW o \in Nat, NEW n \in Nat, \A k \in G : k < o + n
    PROVE  Cardinality(Stored(G, o)) <= n
<1> DEFINE A == o .. o + n - 1
<1>1. ASSUME NEW k \in Stored(G, o) PROVE k \in A
  <2>1. k \in Nat /\ k >= o /\ k < o + n
    BY RecvAssumption DEF Stored
  <2> QED BY <2>1
<1>2. IsFiniteSet(A) /\ Cardinality(A) = n
  <2>1. o \in Int /\ o + n - 1 \in Int
    OBVIOUS
  <2>2. IsFiniteSet(A) /\ Cardinality(A) = IF o > o + n - 1 THEN 0 ELSE (o + n - 1) - o + 1
    BY <2>1, FS_Interval
  <2> HIDE DEF A
  <2> QED BY <2>2
<1> HIDE DEF A
<1>3. Stored(G, o) \in SUBSET A
  BY <1>1
<1> QED BY <1>2, <1>3, FS_Subset

-----------------------------------------------------------------------------
(* The walk of window_reassemble_data over a buffer that holds, of the      *)
(* fragments in G, those from o on; m is the first one missing.            *)

Walkable(w, o, G, m) ==
    /\ w \in Buffer /\ G \in SUBSET Data /\ o \in Nat
    /\ w.chunk_start = Wrap(o)
    /\ w.numitems = Cardinality(Stored(G, o))
    /\ Kept(w, o, G)
    /\ m \in o .. o + Length - 1
    /\ o .. m - 1 \subseteq G /\ m \notin G

LEMMA InChunkIs ==
    ASSUME NEW w, NEW o \in Nat, NEW G, Kept(w, o, G), w.chunk_start = Wrap(o),
           NEW i \in 0 .. Length - 1
    PROVE  InChunk(w, i) = IF o + i \in G THEN Placed(o + i) ELSE Empty
<1>1. i \in 0 .. Length /\ o + i \in o .. o + Length - 1
  BY BufferAssumption
<1>2. Wrap(Wrap(o) + i) = Wrap(o + i)
  BY <1>1, WrapAdd
<1>3. w.frags[Wrap(o + i)] = IF o + i \in G THEN Placed(o + i) ELSE Empty
  BY <1>1 DEF Kept
<1> QED BY <1>2, <1>3 DEF InChunk

LEMMA ItemsCover ==
    ASSUME NEW w, NEW o, NEW G, NEW m, Walkable(w, o, G, m)
    PROVE  w.numitems \in Nat /\ m - o \in 0 .. Length - 1 /\ m - o <= w.numitems
<1>1. o \in Nat /\ m \in Nat /\ m - o \in 0 .. Length - 1 /\ G \in SUBSET Data
  BY BufferAssumption DEF Walkable
<1> DEFINE n == m - o
<1>2. n \in Nat /\ o .. o + n - 1 \subseteq G /\ o + n \in Nat
  BY <1>1 DEF Walkable
<1> HIDE DEF n
<1>3. Cardinality(Stored(G, o)) = n + Cardinality(Stored(G, o + n))
  BY <1>1, <1>2, StoredSplit
<1>4. Cardinality(Stored(G, o + n)) \in Nat /\ Cardinality(Stored(G, o)) \in Nat
  BY <1>1, <1>2, StoredFinite
<1>5. w.numitems = Cardinality(Stored(G, o))
  BY DEF Walkable
<1> QED BY <1>1, <1>2, <1>3, <1>4, <1>5 DEF n

(* The fragments up to the first one missing are as expected, and that one  *)
(* is not.                                                                 *)
LEMMA ExpectedHere ==
    ASSUME NEW w, NEW o, NEW G, NEW m, Walkable(w, o, G, m)
    PROVE  /\ \A i \in 0 .. m - o - 1 : Expected(w, i) /\ InChunk(w, i) = Placed(o + i)
           /\ ~ Expected(w, m - o)
<1>1. /\ o \in Nat /\ m \in Nat /\ m - o \in 0 .. Length - 1 /\ G \in SUBSET Data
      /\ Kept(w, o, G) /\ w.chunk_start = Wrap(o)
      /\ Length \in Nat \ {0} /\ MaxSeqId \in Nat \ {0} /\ Length < MaxSeqId
  BY BufferAssumption DEF Walkable
<1>2. ASSUME NEW i \in 0 .. m - o - 1
      PROVE  /\ InChunk(w, i) = Placed(o + i) /\ InChunk(w, 0) = Placed(o)
             /\ o + i \in Data /\ o \in Data /\ i \in 0 .. MaxSeqId
  <2>1. i \in 0 .. Length - 1 /\ 0 \in 0 .. Length - 1 /\ o + i \in o .. m - 1
        /\ o \in o .. m - 1 /\ i \in 0 .. MaxSeqId
    BY <1>1
  <2>2. o + i \in G /\ o \in G /\ o + 0 = o
    BY <1>1, <2>1 DEF Walkable
  <2>3. InChunk(w, i) = Placed(o + i)
    BY <1>1, <2>1, <2>2, InChunkIs
  <2>4. InChunk(w, 0) = IF o + 0 \in G THEN Placed(o + 0) ELSE Empty
    BY <1>1, <2>1, InChunkIs
  <2> QED BY <1>1, <2>1, <2>2, <2>3, <2>4
<1>3. ASSUME NEW i \in 0 .. m - o - 1
      PROVE  Expected(w, i) /\ InChunk(w, i) = Placed(o + i)
  <2>1. /\ Used(InChunk(w, i)) /\ InChunk(w, i).seqID = (o + i) % MaxSeqId
        /\ InChunk(w, 0).seqID = o % MaxSeqId
    BY <1>2, PlacedFacts
  <2>2. ((o % MaxSeqId) + i) % MaxSeqId = (o + i) % MaxSeqId
    BY <1>1, <1>2, ModTwice
  <2> QED BY <1>2, <2>1, <2>2 DEF Expected
<1>4. ~ Expected(w, m - o)
  <2>1. o + (m - o) = m /\ m \notin G
    BY <1>1 DEF Walkable
  <2> DEFINE n == m - o
  <2>2. n \in 0 .. Length - 1 /\ o + n \notin G
    BY <1>1, <2>1
  <2> HIDE DEF n
  <2>3. InChunk(w, n) = Empty
    BY <1>1, <2>2, InChunkIs
  <2>4. ~ Expected(w, n)
    BY <2>3, EmptyFacts DEF Expected
  <2> QED BY <2>4 DEF n
<1> QED BY <1>3, <1>4

(* The packet that begins at o and ends with e has arrived.                *)
LEMMA WalkComplete ==
    ASSUME NEW w, NEW o, NEW G, NEW m, Walkable(w, o, G, m),
           NEW e \in o .. m - 1, e \in Ends, \A x \in o .. e - 1 : x \notin Ends
    PROVE  WalkLength(w) = e - o + 1 /\ InChunk(w, e - o).end
<1> DEFINE c == e - o
<1>1. /\ o \in Nat /\ m \in Nat /\ w.numitems \in Nat /\ m - o <= w.numitems
      /\ G \in SUBSET Data
  BY ItemsCover DEF Walkable
<1>2. c \in 0 .. m - o - 1 /\ c + 1 \in 0 .. w.numitems /\ e = o + c /\ c \in Nat
  BY <1>1
<1>3. \A i \in 0 .. m - o - 1 : /\ Expected(w, i)
                                /\ InChunk(w, i) = Placed(o + i)
                                /\ InChunk(w, i).end = (o + i \in Ends)
  <2>1. ASSUME NEW i \in 0 .. m - o - 1 PROVE o + i \in Data
    <3>1. o + i \in o .. m - 1
      BY <1>1
    <3> QED BY <3>1 DEF Walkable
  <2> QED BY <2>1, ExpectedHere, PlacedFacts
<1> HIDE DEF c
<1>4. ASSUME NEW i \in 0 .. c PROVE Walked(w, i)
  <2>1. i < w.numitems /\ \A j \in 0 .. i : j \in 0 .. m - o - 1
    BY <1>1, <1>2
  <2>2. ASSUME NEW j \in 0 .. i - 1 PROVE ~ InChunk(w, j).end
    <3>1. j \in 0 .. m - o - 1 /\ o + j \in o .. e - 1
      BY <1>1, <1>2
    <3> QED BY <1>3, <3>1
  <2> QED BY <1>3, <2>1, <2>2 DEF Walked
<1>5. InChunk(w, c).end
  BY <1>2, <1>3
<1>6. ~ Walked(w, c + 1)
  <2>1. c \in 0 .. (c + 1) - 1
    BY <1>2
  <2> QED BY <1>5, <2>1 DEF Walked
<1>7. WalkLength(w) = c + 1
  <2> DEFINE d == c + 1
  <2>1. d \in 0 .. w.numitems /\ \A i \in 0 .. d - 1 : i \in 0 .. c
    BY <1>2
  <2>2. \A i \in 0 .. d - 1 : Walked(w, i)
    BY <1>4, <2>1
  <2>3. ~ Walked(w, d)
    BY <1>6
  <2> HIDE DEF d
  <2>4. WalkLength(w) = d
    BY <1>1, <2>1, <2>2, <2>3, WalkIs
  <2> QED BY <2>4 DEF d
<1> QED BY <1>5, <1>7 DEF c

(* ... or has not, as far as it is there.                                  *)
LEMMA WalkPartial ==
    ASSUME NEW w, NEW o, NEW G, NEW m, Walkable(w, o, G, m),
           \A x \in o .. m - 1 : x \notin Ends
    PROVE  /\ WalkLength(w) = m - o
           /\ m > o => ~ InChunk(w, WalkLength(w) - 1).end
<1> DEFINE c == m - o
<1>1. /\ o \in Nat /\ m \in Nat /\ w.numitems \in Nat /\ c <= w.numitems /\ c \in Nat
      /\ G \in SUBSET Data
  BY ItemsCover DEF Walkable
<1>3. ASSUME NEW i \in 0 .. c - 1
      PROVE  Expected(w, i) /\ ~ InChunk(w, i).end
  <2>1. o + i \in Data /\ o + i \notin Ends
    <3>1. o + i \in o .. m - 1
      BY <1>1
    <3> QED BY <3>1 DEF Walkable
  <2>2. Expected(w, i) /\ InChunk(w, i) = Placed(o + i)
    BY ExpectedHere
  <2>3. Placed(o + i).end = (o + i \in Ends)
    BY <2>1, PlacedFacts
  <2> QED BY <2>1, <2>2, <2>3, Zenon
<1>4. ~ Expected(w, c)
  BY ExpectedHere
<1> HIDE DEF c
<1>5. ASSUME NEW i \in 0 .. c - 1 PROVE Walked(w, i)
  <2>1. i < w.numitems /\ \A j \in 0 .. i : j \in 0 .. c - 1
    BY <1>1
  <2>2. \A j \in 0 .. i - 1 : j \in 0 .. c - 1
    BY <1>1
  <2> QED BY <1>3, <2>1, <2>2 DEF Walked
<1>6. ~ Walked(w, c)
  <2>1. c \in 0 .. c
    BY <1>1
  <2> QED BY <1>4, <2>1 DEF Walked
<1>7. WalkLength(w) = c
  BY <1>1, <1>5, <1>6, WalkIs
<1>8. c > 0 => ~ InChunk(w, c - 1).end
  <2>1. c > 0 => c - 1 \in 0 .. c - 1
    BY <1>1
  <2> QED BY <1>3, <2>1
<1>9. m > o => c > 0
  BY <1>1 DEF c
<1>10. m > o => ~ InChunk(w, WalkLength(w) - 1).end
  BY <1>7, <1>8, <1>9, Zenon
<1> QED BY <1>7, <1>10 DEF c

-----------------------------------------------------------------------------
(* What tunnel_dns leaves of the buffer.                                   *)

(* The window of w begins at fragment m.                                   *)
WindowAt(w, m) == w.window_start = Wrap(m) /\ w.start_seq_id = m % MaxSeqId

(* With steps enough window_tick takes the window from m to the first       *)
(* fragment missing, n, and changes nothing else.                          *)
LEMMA TickTo ==
    ASSUME NEW w \in Buffer, NEW o \in Nat, NEW G \in SUBSET Data, Kept(w, o, G),
           NEW n \in o .. o + Length - 1, o .. n - 1 \subseteq G, n \notin G,
           NEW m \in o .. n, WindowAt(w, m), NEW steps \in Nat, n - m <= steps
    PROVE  LET u == window_tick_recving(w, steps)
           IN  /\ u \in Buffer /\ WindowAt(u, n)
               /\ u.frags = w.frags /\ u.numitems = w.numitems
               /\ u.chunk_start = w.chunk_start
<1> DEFINE d == n - m
           u == window_tick_recving(w, steps)
<1>1. /\ m \in Nat /\ n \in Nat /\ d \in 0 .. Length - 1 /\ d <= steps /\ m + d = n
      /\ Length \in Nat \ {0}
  BY BufferAssumption
<1> HIDE DEF d
<1>2. ASSUME NEW i \in 0 .. d - 1 PROVE w.frags[Wrap(m + i)].acks = 1
  <2>1. m + i \in o .. n - 1 /\ m + i \in o .. o + Length - 1
    BY <1>1
  <2>2. w.frags[Wrap(m + i)] = Placed(m + i) /\ m + i \in Data
    BY <2>1 DEF Kept
  <2> QED BY <2>2, PlacedFacts
<1>3. w.frags[Wrap(m + d)].acks = 0
  BY <1>1, EmptyFacts DEF Kept
<1>4. w.window_start = Wrap(m) /\ w.start_seq_id = m % MaxSeqId
  BY DEF WindowAt
<1>5. /\ u \in Buffer
      /\ u.window_start = Wrap(m + d) /\ u.start_seq_id = (m + d) % MaxSeqId
      /\ u.frags = w.frags /\ u.numitems = w.numitems
      /\ u.chunk_start = w.chunk_start
  <2>1. AckedRun(w, m, d)
    BY <1>2, <1>3, <1>4 DEF AckedRun
  <2> QED BY <1>1, <2>1, TickRecving
<1> HIDE DEF u
<1>6. WindowAt(u, n)
  BY <1>1, <1>5 DEF WindowAt
<1> QED BY <1>5, <1>6 DEF u

LEMMA StepsEnough ==
    ASSUME NEW c \in Nat \ {0}, NEW ws \in Nat \ {0}
    PROVE  c * ws \in Nat /\ ws <= c * ws
OBVIOUS

(* The fragment that begins a packet says so.                              *)
LEMMA StartHere ==
    ASSUME NEW w, NEW o, NEW G, NEW m, Walkable(w, o, G, m), o < m,
           o = 0 \/ o - 1 \in Ends
    PROVE  ~ MissingStart(w)
<1>1. o \in Nat /\ m \in Nat /\ o \in o .. m - 1 /\ o + 0 = o /\ 0 \in 0 .. m - o - 1
  BY DEF Walkable
<1>2. InChunk(w, 0) = Placed(o) /\ o \in Data
  <2>1. InChunk(w, 0) = Placed(o + 0)
    BY <1>1, ExpectedHere
  <2> QED BY <1>1, <2>1 DEF Walkable
<1>3. Placed(o).start = (o = 0 \/ o - 1 \in Ends)
  BY <1>2, PlacedFacts
<1>4. InChunk(w, 0).start
  BY <1>2, <1>3, Zenon
<1> QED BY <1>4 DEF MissingStart

(* A packet has arrived: it is taken out, and the window moves up to the    *)
(* first fragment missing.                                                 *)
LEMMA TakenOut ==
    ASSUME NEW w, NEW o, NEW G, NEW n, Walkable(w, o, G, n),
           NEW m \in o .. n, WindowAt(w, m), n - m <= RecvWindowSize,
           \A k \in G : k < o + Length,
           o = 0 \/ o - 1 \in Ends,
           NEW e \in o .. n - 1, e \in Ends, \A x \in o .. e - 1 : x \notin Ends
    PROVE  LET c == e - o + 1
               u == window_tick_recving(window_reassemble_data(w, RecvWindowSize), RecvWindowSize)
           IN  /\ Reassembled(w) = [i \in 1 .. c |-> o + i - 1]
               /\ u \in Buffer /\ WindowAt(u, n)
               /\ u.chunk_start = Wrap(o + c)
               /\ u.numitems = w.numitems - c
               /\ Kept(u, o + c, G)
<1> DEFINE c == e - o + 1
           t == window_tick_recving(w, c * RecvWindowSize)
           r == window_reassemble_data(w, RecvWindowSize)
           u == window_tick_recving(r, RecvWindowSize)
<1>1. /\ o \in Nat /\ n \in Nat /\ m \in Nat /\ G \in SUBSET Data /\ w \in Buffer
      /\ n \in o .. o + Length - 1 /\ o < n /\ o .. n - 1 \subseteq G /\ n \notin G
      /\ Kept(w, o, G) /\ w.chunk_start = Wrap(o)
      /\ Length \in Nat \ {0} /\ RecvWindowSize \in Nat \ {0}
  BY BufferAssumption, RecvAssumption DEF Walkable
<1>2. /\ c \in 1 .. Length - 1 /\ c \in Nat \ {0} /\ c \in 0 .. Length /\ o + c = e + 1
      /\ c - 1 = e - o /\ o + c <= n /\ c <= n - o
  BY <1>1
<1>3. WalkLength(w) = c /\ InChunk(w, c - 1).end
  BY <1>2, WalkComplete
<1>4. ~ MissingStart(w)
  BY <1>1, StartHere
<1>5. Reassembled(w) = [i \in 1 .. c |-> o + i - 1]
  <2>1. ASSUME NEW i \in 1 .. c PROVE InChunk(w, i - 1).data = o + i - 1
    <3>1. i - 1 \in 0 .. n - o - 1 /\ o + (i - 1) = o + i - 1 /\ o + i - 1 \in o .. n - 1
      BY <1>1, <1>2
    <3>2. InChunk(w, i - 1) = Placed(o + (i - 1))
      BY <3>1, ExpectedHere
    <3> QED BY <1>1, <3>1, <3>2, PlacedFacts
  <2> HIDE DEF c
  <2>2. Reassembled(w) = [i \in 1 .. c |-> InChunk(w, i - 1).data]
    BY <1>2, <1>3, <1>4 DEF Reassembled
  <2> QED BY <2>1, <2>2
<1> HIDE DEF c
<1>6. Reassembled(w) # << >>
  BY <1>2, <1>5
<1>7. /\ t \in Buffer /\ WindowAt(t, n)
      /\ t.frags = w.frags /\ t.numitems = w.numitems /\ t.chunk_start = w.chunk_start
  <2>1. c * RecvWindowSize \in Nat /\ RecvWindowSize <= c * RecvWindowSize
    BY <1>1, <1>2, StepsEnough
  <2> DEFINE steps == c * RecvWindowSize
  <2>2. n - m \in Nat /\ steps \in Nat /\ n - m <= steps
    <3> HIDE DEF steps
    <3>1. RecvWindowSize <= steps /\ steps \in Nat
      BY <2>1 DEF steps
    <3> QED BY <1>1, <3>1
  <2> HIDE DEF steps
  <2>3. LET v == window_tick_recving(w, steps)
        IN  /\ v \in Buffer /\ WindowAt(v, n)
            /\ v.frags = w.frags /\ v.numitems = w.numitems /\ v.chunk_start = w.chunk_start
    BY <1>1, <2>2, TickTo
  <2> QED BY <2>3 DEF steps
<1> DEFINE f == [s \in Slots |-> IF Distance(w.chunk_start, s) < c THEN Empty ELSE w.frags[s]]
           cs == Wrap(o + c)
           k2 == w.numitems - c
<1>8. r = [t EXCEPT !.frags = f, !.chunk_start = cs, !.numitems = k2]
  <2>1. Wrap(c) = c
    BY <1>1, <1>2, WrapValue
  <2>2. Wrap(Wrap(o) + c) = Wrap(o + c)
    BY <1>1, <1>2, WrapAdd
  <2>3. r = [t EXCEPT !.frags = [s \in Slots |-> IF Distance(w.chunk_start, s) < Wrap(c)
                                                 THEN Empty ELSE w.frags[s]],
                      !.chunk_start = Wrap(@ + c),
                      !.numitems = @ - c]
    <3> HIDE DEF t
    <3>1. t = window_tick_recving(w, c * RecvWindowSize)
      BY DEF t
    <3> QED BY <1>3, <1>4, <1>6, <3>1 DEF window_reassemble_data
  <2>4. Wrap(t.chunk_start + c) = cs /\ t.numitems - c = k2
    BY <1>1, <1>7, <2>2
  <2> HIDE DEF t, r, cs, k2
  <2> QED BY <2>1, <2>3, <2>4
<1>9. k2 \in Nat /\ cs \in Slots
  <2>1. w.numitems \in Nat /\ n - o <= w.numitems
    BY ItemsCover
  <2> QED BY <1>1, <1>2, <2>1, WrapType
<1>10. f \in [Slots -> Fragment]
  <2>1. w.frags \in [Slots -> Fragment]
    BY <1>1 DEF Buffer
  <2> QED BY <2>1, EmptyFacts
<1> HIDE DEF f, cs, k2, t, r
<1>11. /\ r \in Buffer /\ r.frags = f /\ r.chunk_start = cs /\ r.numitems = k2
       /\ r.window_start = t.window_start /\ r.start_seq_id = t.start_seq_id
  BY <1>7, <1>8, <1>9, <1>10 DEF Buffer
<1>12. Kept(r, o + c, G)
  <2> SUFFICES ASSUME NEW k \in o + c .. o + c + Length - 1
               PROVE  r.frags[Wrap(k)] = IF k \in G THEN Placed(k) ELSE Empty
    BY DEF Kept
  <2>1. k \in Nat /\ Wrap(k) \in Slots
    BY <1>1, <1>2, WrapType
  <2>2. r.frags[Wrap(k)] = IF Distance(Wrap(o), Wrap(k)) < c THEN Empty ELSE w.frags[Wrap(k)]
    BY <1>1, <1>11, <2>1 DEF f
  <2>3. CASE k < o + Length
    <3> DEFINE i == k - o
    <3>1. i \in 0 .. Length - 1 /\ o + i = k /\ ~ (i < c) /\ k \in o .. o + Length - 1
      BY <1>1, <1>2, <2>3
    <3> HIDE DEF i
    <3>2. Distance(Wrap(o), Wrap(o + i)) = i
      BY <1>1, <3>1, DistanceOn
    <3>3. r.frags[Wrap(k)] = w.frags[Wrap(k)]
      BY <2>2, <3>1, <3>2
    <3> QED BY <1>1, <3>1, <3>3 DEF Kept
  <2>4. CASE ~ (k < o + Length)
    <3> DEFINE i == k - Length - o
    <3>1. i \in 0 .. Length - 1 /\ o + i \in Nat /\ (o + i) + Length = k /\ i < c
      BY <1>1, <1>2, <2>1, <2>4
    <3> HIDE DEF i
    <3>2. Distance(Wrap(o), Wrap(o + i)) = i
      BY <1>1, <3>1, DistanceOn
    <3>3. Wrap(k) = Wrap(o + i)
      BY <1>1, <3>1, WrapRound
    <3>4. k \notin G
      BY <1>1, <2>4
    <3> QED BY <2>2, <3>1, <3>2, <3>3, <3>4
  <2> QED BY <2>3, <2>4
<1>13. /\ u \in Buffer /\ WindowAt(u, n)
       /\ u.frags = r.frags /\ u.numitems = r.numitems /\ u.chunk_start = r.chunk_start
  <2>1. WindowAt(r, n)
    BY <1>7, <1>11 DEF WindowAt
  <2>2. /\ o + c \in Nat /\ n \in o + c .. o + c + Length - 1 /\ o + c .. n - 1 \subseteq G
        /\ n \in o + c .. n /\ RecvWindowSize \in Nat /\ n - n <= RecvWindowSize
    BY <1>1, <1>2
  <2> QED BY <1>1, <1>11, <1>12, <2>1, <2>2, TickTo
<1>14. Kept(u, o + c, G)
  BY <1>12, <1>13 DEF Kept
<1> HIDE DEF u
<1>15. /\ u.chunk_start = Wrap(o + c) /\ u.numitems = w.numitems - c
  BY <1>11, <1>13 DEF cs, k2
<1> QED BY <1>5, <1>13, <1>14, <1>15 DEF c, u, r

(* No packet has arrived: nothing is taken out, and the window moves all    *)
(* the same.                                                               *)
LEMMA NotTaken ==
    ASSUME NEW w, NEW o, NEW G, NEW n, Walkable(w, o, G, n),
           NEW m \in o .. n, WindowAt(w, m), n - m <= RecvWindowSize,
           o = 0 \/ o - 1 \in Ends,
           \A x \in o .. n - 1 : x \notin Ends
    PROVE  LET u == window_tick_recving(window_reassemble_data(w, RecvWindowSize), RecvWindowSize)
           IN  /\ Reassembled(w) = << >>
               /\ u \in Buffer /\ WindowAt(u, n)
               /\ u.chunk_start = Wrap(o)
               /\ u.numitems = w.numitems
               /\ Kept(u, o, G)
<1> DEFINE c == n - o
           steps == c * RecvWindowSize
           t == window_tick_recving(w, steps)
           r == window_reassemble_data(w, RecvWindowSize)
           u == window_tick_recving(r, RecvWindowSize)
<1>1. /\ o \in Nat /\ n \in Nat /\ m \in Nat /\ G \in SUBSET Data /\ w \in Buffer
      /\ n \in o .. o + Length - 1 /\ o .. n - 1 \subseteq G /\ n \notin G
      /\ Kept(w, o, G) /\ w.chunk_start = Wrap(o)
      /\ Length \in Nat \ {0} /\ RecvWindowSize \in Nat \ {0}
      /\ c \in Nat /\ n - m \in Nat
  BY BufferAssumption, RecvAssumption DEF Walkable
<1>2. WalkLength(w) = c /\ (n > o => ~ InChunk(w, WalkLength(w) - 1).end)
  BY WalkPartial
<1>3. Reassembled(w) = << >>
  <2>1. n > o \/ c = 0
    BY <1>1
  <2> HIDE DEF c
  <2> QED BY <1>2, <2>1 DEF Reassembled
<1>4. steps \in Nat /\ n - m <= steps
  <2>1. CASE c = 0
    <3>1. n - m = 0
      BY <1>1, <2>1
    <3>2. steps = 0
      <4> HIDE DEF c
      <4> QED BY <1>1, <2>1
    <3> QED BY <3>1, <3>2
  <2>2. CASE c # 0
    <3>1. steps \in Nat /\ RecvWindowSize <= steps
      <4> HIDE DEF c
      <4> QED BY <1>1, <2>2, StepsEnough
    <3> HIDE DEF steps
    <3> QED BY <1>1, <3>1
  <2> QED BY <2>1, <2>2
<1>5. /\ t \in Buffer /\ WindowAt(t, n)
      /\ t.frags = w.frags /\ t.numitems = w.numitems /\ t.chunk_start = w.chunk_start
  <2> HIDE DEF steps
  <2>1. LET v == window_tick_recving(w, steps)
        IN  /\ v \in Buffer /\ WindowAt(v, n)
            /\ v.frags = w.frags /\ v.numitems = w.numitems /\ v.chunk_start = w.chunk_start
    BY <1>1, <1>4, TickTo
  <2> QED BY <2>1
<1>6. r = IF MissingStart(w) THEN w ELSE t
  <2> HIDE DEF c
  <2> QED BY <1>2, <1>3 DEF window_reassemble_data
<1> HIDE DEF r, t, c, steps
<1>7. /\ r \in Buffer /\ WindowAt(r, n)
      /\ r.frags = w.frags /\ r.numitems = w.numitems /\ r.chunk_start = w.chunk_start
  <2>1. CASE MissingStart(w)
    <3>1. m = n
      BY <1>1, <2>1, StartHere
    <3> QED BY <1>1, <1>6, <2>1, <3>1
  <2>2. CASE ~ MissingStart(w)
    BY <1>5, <1>6, <2>2
  <2> QED BY <2>1, <2>2
<1>8. Kept(r, o, G)
  BY <1>1, <1>7 DEF Kept
<1>9. /\ u \in Buffer /\ WindowAt(u, n)
      /\ u.frags = r.frags /\ u.numitems = r.numitems /\ u.chunk_start = r.chunk_start
  <2>1. n \in o .. n /\ RecvWindowSize \in Nat /\ n - n <= RecvWindowSize
    BY <1>1
  <2> QED BY <1>1, <1>7, <1>8, <2>1, TickTo
<1>10. Kept(u, o, G)
  BY <1>8, <1>9 DEF Kept
<1> HIDE DEF u
<1> QED BY <1>1, <1>3, <1>7, <1>9, <1>10 DEF u, r

-----------------------------------------------------------------------------
(* What window_process_incoming_fragment makes of fragment k.              *)

(* The buffer w holds, of the fragments in G, those from o on, and its      *)
(* window begins at m, the first one missing.                              *)
Holding(w, o, G, m) ==
    /\ w \in Buffer /\ G \in SUBSET Data /\ o \in Nat /\ m \in Nat /\ o <= m
    /\ w.chunk_start = Wrap(o)
    /\ w.numitems = Cardinality(Stored(G, o))
    /\ Kept(w, o, G)
    /\ WindowAt(w, m)
    /\ 0 .. m - 1 \subseteq G /\ m \notin G
    /\ \A k \in G : k < o + Length

(* A fragment from the sender's window that has not arrived is new ...      *)
LEMMA AheadIsNew ==
    ASSUME NEW w, NEW o, NEW G, NEW m, Holding(w, o, G, m),
           NEW k \in m .. m + SendWindowSize - 1
    PROVE  ~ Ancient(w, RecvWindowSize, k % MaxSeqId) /\ Destination(w, k % MaxSeqId) = Wrap(k)
<1> DEFINE i == k - m
<1>1. /\ m \in Nat /\ k \in Nat /\ i \in 0 .. MaxSeqId - 1 /\ i \in 0 .. Length /\ k = m + i
      /\ RecvWindowSize \in 0 .. MaxSeqId - 1 /\ i <= RecvWindowSize
  BY BufferAssumption, RecvAssumption, RecvFits DEF Holding
<1>2. w.window_start = Wrap(m) /\ w.start_seq_id = m % MaxSeqId
  BY DEF Holding, WindowAt
<1> HIDE DEF i
<1>3. /\ SeqOffset(m % MaxSeqId, k % MaxSeqId) = i
      /\ InWindowSeq(m % MaxSeqId, ((m % MaxSeqId) + RecvWindowSize) % MaxSeqId, k % MaxSeqId)
  BY <1>1, SeqAhead
<1>4. Wrap(Wrap(m) + i) = Wrap(k)
  BY <1>1, WrapAdd
<1> QED BY <1>2, <1>3, <1>4 DEF Ancient, Destination

(* ... and one that is late, but not too late, is old.                      *)
LEMMA BehindIsOld ==
    ASSUME NEW w, NEW o, NEW G, NEW m, Holding(w, o, G, m),
           NEW k \in 0 .. m - 1, m - k <= MaxAge + 1
    PROVE  Ancient(w, RecvWindowSize, k % MaxSeqId)
<1> DEFINE d == m - k
<1>1. /\ m \in Nat /\ k \in Nat /\ d \in 1 .. MaxSeqId - 1 /\ m = k + d
      /\ RecvWindowSize \in 1 .. MaxSeqId - 1 /\ MaxSeqId - d > Length
      /\ RecvWindowSize <= Length /\ Length \in Nat /\ MaxSeqId \in Nat /\ d \in Nat
  BY BufferAssumption, RecvAssumption, RecvFits DEF Holding
<1>2. w.start_seq_id = m % MaxSeqId
  BY DEF Holding, WindowAt
<1> HIDE DEF d
<1>3. MaxSeqId - d > RecvWindowSize
  BY <1>1
<1>4. /\ SeqOffset(m % MaxSeqId, k % MaxSeqId) = MaxSeqId - d
      /\ ~ InWindowSeq(m % MaxSeqId, ((m % MaxSeqId) + RecvWindowSize) % MaxSeqId, k % MaxSeqId)
  BY <1>1, <1>3, SeqBehind
<1>5. MaxSeqId - d > Minimum(Length - w.numitems, MaxSeqId \div 2)
  <2>1. w.numitems \in Nat
    BY DEF Holding, Buffer
  <2>2. MaxSeqId \div 2 \in Int
    BY <1>1
  <2> QED BY <1>1, <2>1, <2>2 DEF Minimum
<1> QED BY <1>2, <1>4, <1>5 DEF Ancient

(* A fragment that has arrived before leaves the buffer as it is.          *)
LEMMA PlacedAgain ==
    ASSUME NEW w, NEW o, NEW G, NEW m, Holding(w, o, G, m), NEW k \in G,
           \A j \in G : j <= k + MaxAge, k <= m + SendWindowSize - 1
    PROVE  window_process_incoming_fragment(w, RecvWindowSize, Frag(k)) = w
<1>1. k \in Nat /\ k \in Data /\ m \in Nat /\ o \in Nat /\ k # m /\ Length \in Nat
      /\ MaxAge \in Nat
  BY BufferAssumption, RecvAssumption DEF Holding
<1>2. Frag(k).seqID = k % MaxSeqId
  BY DEF Frag
<1>3. CASE k < m
  <2>1. m - 1 \in G
    BY <1>1, <1>3 DEF Holding
  <2>2. m - k <= MaxAge + 1 /\ k \in 0 .. m - 1
    BY <1>1, <1>3, <2>1
  <2>3. Ancient(w, RecvWindowSize, k % MaxSeqId)
    BY <2>2, BehindIsOld
  <2> QED BY <1>2, <2>3 DEF window_process_incoming_fragment
<1>4. CASE k > m
  <2>1. k \in m .. m + SendWindowSize - 1 /\ k \in o .. o + Length - 1
    BY <1>1, <1>4, RecvAssumption DEF Holding
  <2>2. Destination(w, k % MaxSeqId) = Wrap(k)
    BY <2>1, AheadIsNew
  <2>3. w.frags[Wrap(k)] = Placed(k)
    BY <2>1 DEF Holding, Kept
  <2>4. Used(Placed(k)) /\ Placed(k).seqID = k % MaxSeqId
    BY <1>1, PlacedFacts
  <2> QED BY <1>2, <2>2, <2>3, <2>4 DEF window_process_incoming_fragment
<1> QED BY <1>1, <1>3, <1>4

(* A new one is put into its slot.                                         *)
LEMMA PlacedNew ==
    ASSUME NEW w, NEW o, NEW G, NEW m, Holding(w, o, G, m), NEW k \in Data, k \notin G,
           k \in m .. m + SendWindowSize - 1, k < o + Length
    PROVE  LET p == window_process_incoming_fragment(w, RecvWindowSize, Frag(k))
           IN  /\ p \in Buffer /\ p.chunk_start = Wrap(o) /\ WindowAt(p, m)
               /\ p.numitems = Cardinality(Stored(G \cup {k}, o))
               /\ Kept(p, o, G \cup {k})
<1> DEFINE p == window_process_incoming_fragment(w, RecvWindowSize, Frag(k))
           n1 == w.numitems + 1
           ws == Wrap(k)
<1>1. /\ k \in Nat /\ m \in Nat /\ o \in Nat /\ k \in o .. o + Length - 1 /\ k >= o
      /\ w \in Buffer /\ G \in SUBSET Data /\ Kept(w, o, G)
  BY BufferAssumption, RecvAssumption DEF Holding
<1>2. /\ ~ Ancient(w, RecvWindowSize, k % MaxSeqId) /\ Destination(w, k % MaxSeqId) = ws
      /\ Frag(k).seqID = k % MaxSeqId /\ ws \in Slots
  BY <1>1, AheadIsNew, WrapType DEF Frag
<1>3. w.frags[ws] = Empty
  BY <1>1 DEF Kept
<1>4. [Frag(k) EXCEPT !.acks = 1, !.retries = 0] = Placed(k) /\ Placed(k) \in Fragment
  <2>1. Placed(k) \in Fragment
    BY PlacedFacts
  <2>2. Frag(k).retries = 0
    BY DEF Frag
  <2>3. Frag(k) \in Fragment
    <3>1. k % MaxSeqId \in SeqIds
      BY <1>1, SeqType
    <3> QED BY <3>1 DEF Frag, Fragment
  <2>4. [Frag(k) EXCEPT !.acks = 1, !.retries = 0] = [Frag(k) EXCEPT !.acks = 1]
    <3> DEFINE f == Frag(k)
    <3> HIDE DEF f
    <3>1. f \in Fragment /\ f.retries = 0
      BY <2>2, <2>3 DEF f
    <3>2. [f EXCEPT !.acks = 1, !.retries = 0] = [f EXCEPT !.acks = 1]
      BY <3>1 DEF Fragment
    <3> QED BY <3>2 DEF f
  <2> QED BY <2>1, <2>4 DEF Placed
<1>5. p = [w EXCEPT !.frags[ws] = Placed(k), !.numitems = n1]
  <2>1. ~ Used(w.frags[ws])
    BY <1>3, EmptyFacts
  <2>2. p = [w EXCEPT !.frags[Destination(w, Frag(k).seqID)] =
                            [Frag(k) EXCEPT !.acks = 1, !.retries = 0],
                      !.numitems = @ + 1]
    BY <1>2, <2>1 DEF window_process_incoming_fragment
  <2> HIDE DEF p, ws
  <2> QED BY <1>2, <1>4, <2>2
<1>6. n1 \in Nat /\ n1 = Cardinality(Stored(G \cup {k}, o))
  <2>1. w.numitems = Cardinality(Stored(G, o)) /\ w.numitems \in Nat
    BY DEF Holding, Buffer
  <2> QED BY <1>1, <2>1, StoredMore
<1> HIDE DEF p, n1, ws
<1>7. /\ p \in Buffer /\ p.chunk_start = w.chunk_start /\ p.numitems = n1
      /\ p.window_start = w.window_start /\ p.start_seq_id = w.start_seq_id
      /\ p.frags = [w.frags EXCEPT ![ws] = Placed(k)]
  BY <1>1, <1>2, <1>4, <1>5, <1>6 DEF Buffer
<1>8. Kept(p, o, G \cup {k})
  <2> SUFFICES ASSUME NEW j \in o .. o + Length - 1
               PROVE  p.frags[Wrap(j)] = IF j \in G \cup {k} THEN Placed(j) ELSE Empty
    BY DEF Kept
  <2>1. j \in Nat /\ Wrap(j) \in Slots /\ w.frags \in [Slots -> Fragment]
    BY <1>1, WrapType DEF Buffer
  <2>2. CASE j = k
    BY <1>2, <1>7, <2>1, <2>2 DEF ws
  <2>3. CASE j # k
    <3>1. Wrap(j) # ws
      BY <1>1, <2>3, WrapInjective DEF ws
    <3>2. p.frags[Wrap(j)] = w.frags[Wrap(j)]
      BY <1>7, <2>1, <3>1
    <3> QED BY <1>1, <2>3, <3>2 DEF Kept
  <2> QED BY <2>2, <2>3
<1>9. WindowAt(p, m) /\ p.chunk_start = Wrap(o)
  BY <1>7 DEF Holding, WindowAt
<1> QED BY <1>6, <1>7, <1>8, <1>9 DEF p

-----------------------------------------------------------------------------
(* Where the packets of the stream begin and end.                          *)

Cut == RecvTypeOK /\ StreamCut /\ OutAtCut

(* The packet that comes out next.                                         *)
NextEnd == LastOf(Len(tun) + 1)

LEMMA PacketFacts ==
    ASSUME Cut, NEW i \in 1 .. Len(offered)
    PROVE  /\ Len(offered[i]) \in 1 .. MaxChunk /\ Len(offered[i]) \in Nat
           /\ FirstOf(i) \in Nat /\ LastOf(i) \in Nat
           /\ LastOf(i) = FirstOf(i) + Len(offered[i]) - 1
           /\ offered[i] = [j \in 1 .. Len(offered[i]) |-> FirstOf(i) + j - 1]
           /\ LastOf(i) < written
           /\ LastOf(i) \in Ends
<1>1. DOMAIN offered = 1 .. Len(offered) /\ offered[i] \in Seq(Data) /\ MaxChunk \in Nat
  BY RecvAssumption DEF Cut, RecvTypeOK
<1>2. /\ Len(offered[i]) \in 1 .. MaxChunk
      /\ \A j \in 1 .. Len(offered[i]) : offered[i][j] = FirstOf(i) + j - 1
      /\ LastOf(i) < written
  BY <1>1 DEF Cut, StreamCut
<1>3. 1 \in 1 .. Len(offered[i]) /\ Len(offered[i]) \in 1 .. Len(offered[i])
  BY <1>1, <1>2
<1>4. FirstOf(i) \in Nat /\ LastOf(i) \in Nat
  BY <1>1, <1>3, RecvAssumption DEF FirstOf, LastOf
<1>5. offered[i] = [j \in 1 .. Len(offered[i]) |-> FirstOf(i) + j - 1]
  BY <1>1, <1>2
<1>6. LastOf(i) \in Ends
  BY <1>1 DEF Ends, LastOf
<1>7. LastOf(i) = FirstOf(i) + Len(offered[i]) - 1
  BY <1>2, <1>3 DEF LastOf
<1> QED BY <1>1, <1>2, <1>4, <1>5, <1>6, <1>7

LEMMA EndIsLast ==
    ASSUME Cut, NEW x \in Ends
    PROVE  \E i \in 1 .. Len(offered) : x = LastOf(i)
<1>1. DOMAIN offered = 1 .. Len(offered)
  BY DEF Cut, RecvTypeOK
<1> QED BY <1>1 DEF Ends, LastOf

(* What comes out next begins a packet, and ends with the first fragment    *)
(* from there that ends one.                                               *)
LEMMA OutStarts ==
    ASSUME Cut
    PROVE  /\ Len(tun) \in Nat /\ Len(offered) \in Nat
           /\ out = 0 \/ out - 1 \in Ends
           /\ Len(tun) >= Len(offered) => out = written
<1>1. /\ DOMAIN offered = 1 .. Len(offered) /\ Len(tun) \in Nat /\ Len(offered) \in Nat
      /\ Len(tun) <= Len(offered) /\ written \in Nat
      /\ offered = << >> <=> Len(offered) = 0
  BY RecvAssumption DEF Cut, RecvTypeOK, OutAtCut
<1>2. CASE Len(tun) = Len(offered)
  <2>1. out = written
    BY <1>2 DEF Cut, OutAtCut
  <2>2. CASE Len(offered) = 0
    BY <1>1, <1>2, <2>1, <2>2 DEF Cut, StreamCut
  <2>3. CASE Len(offered) # 0
    <3>1. Len(offered) \in 1 .. Len(offered) /\ written = LastOf(Len(offered)) + 1
      BY <1>1, <2>3 DEF Cut, StreamCut
    <3>2. LastOf(Len(offered)) \in Ends /\ LastOf(Len(offered)) \in Nat
      BY <3>1, PacketFacts
    <3>3. out - 1 = LastOf(Len(offered))
      BY <2>1, <3>1, <3>2
    <3> QED BY <1>1, <2>1, <3>2, <3>3
  <2> QED BY <2>2, <2>3
<1>3. CASE Len(tun) < Len(offered)
  <2> DEFINE i == Len(tun) + 1
  <2>1. i \in DOMAIN offered /\ i \in 1 .. Len(offered) /\ out = FirstOf(i) /\ i - 1 = Len(tun)
    BY <1>1, <1>3 DEF Cut, OutAtCut
  <2> HIDE DEF i
  <2>2. FirstOf(i) = IF i = 1 THEN 0 ELSE LastOf(i - 1) + 1
    BY <2>1 DEF Cut, StreamCut
  <2>3. i # 1 => i - 1 \in 1 .. Len(offered)
    BY <1>1, <2>1
  <2>4. i # 1 => LastOf(i - 1) \in Ends /\ LastOf(i - 1) \in Nat
    BY <2>3, PacketFacts
  <2>5. i # 1 => out - 1 = LastOf(i - 1)
    BY <2>1, <2>2, <2>4
  <2>6. out = 0 \/ out - 1 \in Ends
    BY <2>1, <2>2, <2>4, <2>5
  <2> QED BY <1>1, <1>3, <2>6
<1> QED BY <1>1, <1>2, <1>3

LEMMA NextPacket ==
    ASSUME Cut, Len(tun) < Len(offered)
    PROVE  /\ NextEnd \in Ends /\ NextEnd \in out .. written - 1
           /\ NextEnd - out + 1 <= MaxChunk
           /\ offered[Len(tun) + 1] = [i \in 1 .. NextEnd - out + 1 |-> out + i - 1]
           /\ \A x \in out .. NextEnd - 1 : x \notin Ends
<1> DEFINE i == Len(tun) + 1
<1>1. /\ DOMAIN offered = 1 .. Len(offered) /\ i \in 1 .. Len(offered) /\ out = FirstOf(i)
      /\ Len(offered) \in Nat /\ out \in Nat /\ written \in Nat /\ MaxChunk \in Nat
  BY RecvAssumption DEF Cut, OutAtCut, RecvTypeOK
<1>2. NextEnd = LastOf(i)
  BY DEF NextEnd
<1> HIDE DEF i
<1>3. /\ Len(offered[i]) \in 1 .. MaxChunk /\ Len(offered[i]) \in Nat
      /\ LastOf(i) \in Nat /\ LastOf(i) = out + Len(offered[i]) - 1
      /\ offered[i] = [j \in 1 .. Len(offered[i]) |-> out + j - 1]
      /\ LastOf(i) < written
      /\ LastOf(i) \in Ends
  BY <1>1, PacketFacts
<1>4. NextEnd - out + 1 = Len(offered[i])
  BY <1>1, <1>2, <1>3
<1>5. ASSUME NEW x \in out .. NextEnd - 1, x \in Ends PROVE FALSE
  <2>1. PICK j \in 1 .. Len(offered) : x = LastOf(j)
    BY <1>5, EndIsLast
  <2>2. CASE j < i
    <3>1. LastOf(j) < FirstOf(i)
      BY <1>1, <2>2 DEF Cut, StreamCut
    <3> QED BY <1>1, <1>3, <2>1, <3>1
  <2>3. CASE j > i
    <3>1. LastOf(i) < FirstOf(j)
      BY <1>1, <2>3 DEF Cut, StreamCut
    <3>2. LastOf(j) = FirstOf(j) + Len(offered[j]) - 1 /\ Len(offered[j]) \in 1 .. MaxChunk
          /\ FirstOf(j) \in Nat
      BY PacketFacts
    <3>3. LastOf(j) >= FirstOf(j)
      <4>1. Len(offered[j]) >= 1 /\ Len(offered[j]) \in Nat
        BY <1>1, <3>2
      <4> QED BY <3>2, <4>1
    <3>4. x < LastOf(i)
      BY <1>1, <1>2, <1>3
    <3>5. LastOf(j) \in Nat
      BY PacketFacts
    <3> QED BY <1>3, <2>1, <3>1, <3>2, <3>3, <3>4, <3>5
  <2>4. CASE j = i
    BY <1>1, <1>2, <1>3, <2>1, <2>4
  <2> QED BY <1>1, <2>2, <2>3, <2>4
<1>6. NextEnd \in out .. written - 1
  BY <1>1, <1>2, <1>3
<1> QED BY <1>2, <1>3, <1>4, <1>5, <1>6 DEF i

(* A fragment of a packet that has not come out whole ends none.           *)
LEMMA NoEndBefore ==
    ASSUME Cut, NEW n \in out .. written, ~ Complete(n)
    PROVE  \A x \in out .. n - 1 : x \notin Ends
<1>1. out \in Nat /\ written \in Nat /\ Len(tun) \in Nat /\ Len(offered) \in Nat
  BY RecvAssumption DEF Cut, RecvTypeOK
<1>2. CASE Len(tun) >= Len(offered)
  BY <1>1, <1>2, OutStarts
<1>3. CASE Len(tun) < Len(offered)
  <2>1. ~ (NextEnd < n)
    BY <1>3 DEF Complete, NextEnd
  <2>2. NextEnd \in out .. written - 1 /\ \A x \in out .. NextEnd - 1 : x \notin Ends
    BY <1>3, NextPacket
  <2> QED BY <1>1, <2>1, <2>2
<1> QED BY <1>1, <1>2, <1>3

-----------------------------------------------------------------------------
(* The arrival of a fragment.                                              *)

LEMMA FirstMissing ==
    ASSUME NEW b \in Nat, NEW G, G \subseteq 0 .. b - 1,
           NEW m \in Nat, 0 .. m - 1 \subseteq G, m <= b
    PROVE  \E n \in m .. b : 0 .. n - 1 \subseteq G /\ n \notin G
<1> DEFINE T == {x \in Nat : x \notin G}
<1>1. T \subseteq Nat /\ b \in T
  OBVIOUS
<1>2. PICK n \in T : \A y \in T : n <= y
  <2> HIDE DEF T
  <2> QED BY <1>1, LeastElement
<1>3. n \in Nat /\ n \notin G /\ n <= b
  BY <1>1, <1>2
<1>4. ~ (n < m)
  BY <1>3
<1>5. ASSUME NEW x \in 0 .. n - 1 PROVE x \in G
  <2>1. x \in Nat /\ ~ (n <= x)
    BY <1>3
  <2> QED BY <1>2, <2>1
<1> QED BY <1>3, <1>4, <1>5

(* The ring has room for all that can arrive: while the next packet is not  *)
(* complete, for the rest of it and a window; and when it is, for the few   *)
(* fragments there are and a window.                                       *)
LEMMA PartFits ==
    ASSUME Cut, NEW m, InvAt(m), ~ Complete(m)
    PROVE  m <= out + MaxChunk - 1
<1>1. /\ out \in Nat /\ written \in Nat /\ m \in Nat /\ m \in out .. written
      /\ MaxChunk \in Nat /\ MaxChunk >= 1
      /\ Len(tun) \in Nat /\ Len(offered) \in Nat
  BY BufferAssumption, RecvAssumption DEF Cut, RecvTypeOK, InvAt
<1>2. CASE Len(tun) >= Len(offered)
  <2>1. out = written
    BY <1>2, OutStarts
  <2> QED BY <1>1, <2>1
<1>3. CASE Len(tun) < Len(offered)
  <2>1. ~ (NextEnd < m)
    BY <1>3 DEF Complete, NextEnd
  <2>2. NextEnd \in out .. written - 1 /\ NextEnd - out + 1 <= MaxChunk
    BY <1>3, NextPacket
  <2> QED BY <1>1, <2>1, <2>2
<1> QED BY <1>1, <1>2, <1>3

LEMMA InRing ==
    ASSUME Cut, NEW m, InvAt(m), NEW j \in Nat, j <= m + SendWindowSize - 1
    PROVE  j < out + Length
<1>1. /\ out \in Nat /\ written \in Nat /\ m \in Nat /\ m \in out .. written
      /\ SendWindowSize \in Nat /\ SendWindowSize >= 1 /\ MaxChunk \in Nat /\ MaxChunk >= 1
      /\ Length \in Nat
      /\ MaxChunk + SendWindowSize <= Length /\ 2 * SendWindowSize <= Length + 1
  BY BufferAssumption, RecvAssumption, RecvFits DEF Cut, RecvTypeOK, InvAt
<1>2. got \in SUBSET Data
  BY <1>1, RecvAssumption DEF Cut, RecvTypeOK
<1>3. CASE Complete(m)
  <2>1. inbuf.numitems = Cardinality(Stored(got, out)) /\ inbuf.numitems <= SendWindowSize - 1
    BY <1>3 DEF InvAt
  <2> DEFINE n == m - out
  <2>2. n \in Nat /\ out + n = m /\ out .. out + n - 1 \subseteq got
    BY <1>1 DEF InvAt
  <2> HIDE DEF n
  <2>3. Cardinality(Stored(got, out)) = n + Cardinality(Stored(got, out + n))
    BY <1>1, <1>2, <2>2, StoredSplit
  <2>4. Cardinality(Stored(got, out + n)) \in Nat
    BY <1>1, <1>2, <2>2, StoredFinite
  <2>5. m <= out + SendWindowSize - 1
    BY <1>1, <2>1, <2>2, <2>3, <2>4
  <2> QED BY <1>1, <2>5
<1>4. CASE ~ Complete(m)
  <2>1. m <= out + MaxChunk - 1
    BY <1>4, PartFits
  <2> QED BY <1>1, <2>1
<1> QED BY <1>3, <1>4

LEMMA Room ==
    ASSUME Cut, NEW m, InvAt(m), NEW k \in 0 .. written - 1, MayArrive(k)
    PROVE  /\ \A j \in got \cup {k} : j < out + Length /\ j <= m + SendWindowSize - 1
           /\ Holding(inbuf, out, got, m)
<1>1. /\ out \in Nat /\ written \in Nat /\ m \in Nat /\ m \in out .. written
      /\ SendWindowSize \in Nat /\ SendWindowSize >= 1 /\ k \in Nat
  BY RecvAssumption DEF Cut, RecvTypeOK, InvAt
<1>2. got \in SUBSET Data /\ got \subseteq Nat
  BY <1>1, RecvAssumption DEF Cut, RecvTypeOK
<1>3. k <= m + SendWindowSize - 1
  <2>1. CASE k < SendWindowSize
    BY <1>1, <2>1
  <2>2. CASE k >= SendWindowSize
    <3>1. 0 .. k - SendWindowSize \subseteq got /\ m \notin got
      BY <2>2 DEF MayArrive, InvAt
    <3>2. m \notin 0 .. k - SendWindowSize
      BY <3>1
    <3> QED BY <1>1, <2>2, <3>2
  <2> QED BY <1>1, <2>1, <2>2
<1>4. ASSUME NEW j \in got \cup {k} PROVE j < out + Length /\ j <= m + SendWindowSize - 1
  <2>1. j \in Nat /\ j <= m + SendWindowSize - 1
    <3>1. j \in got => j \in 0 .. m + SendWindowSize - 1
      BY DEF InvAt
    <3> QED BY <1>1, <1>3, <3>1
  <2> QED BY <2>1, InRing
<1>5. Holding(inbuf, out, got, m)
  <2>1. inbuf \in Buffer
    BY DEF Cut, RecvTypeOK
  <2> QED BY <1>1, <1>2, <1>4, <2>1 DEF Holding, InvAt, WindowAt
<1> QED BY <1>4, <1>5

(* The buffer once fragment k is in its place.                             *)
InPlaceNow(k) == window_process_incoming_fragment(inbuf, RecvWindowSize, Frag(k))

LEMMA AfterPlacing ==
    ASSUME Cut, NEW m, InvAt(m), NEW k \in 0 .. written - 1, MayArrive(k)
    PROVE  \E n \in m .. written :
               /\ Walkable(InPlaceNow(k), out, got \cup {k}, n)
               /\ WindowAt(InPlaceNow(k), m) /\ n - m <= RecvWindowSize
               /\ 0 .. n - 1 \subseteq got \cup {k}
               /\ n = m \/ k = m
               /\ InPlaceNow(k).numitems <= inbuf.numitems + 1
<1> DEFINE p == InPlaceNow(k)
           G == got \cup {k}
<1>1. /\ out \in Nat /\ written \in Nat /\ m \in Nat /\ out <= m /\ m <= written
      /\ SendWindowSize \in Nat /\ SendWindowSize >= 1 /\ MaxChunk \in Nat /\ MaxChunk >= 1
      /\ Length \in Nat /\ k \in Nat /\ RecvWindowSize \in Nat
      /\ SendWindowSize <= RecvWindowSize
      /\ MaxChunk + SendWindowSize <= Length
      /\ got \subseteq 0 .. written - 1 /\ k \in Data /\ got \in SUBSET Data
      /\ 0 .. m - 1 \subseteq got /\ m \notin got
  BY BufferAssumption, RecvAssumption, RecvFits DEF Cut, RecvTypeOK, InvAt
<1>2. Holding(inbuf, out, got, m) /\ \A j \in G : j < out + Length /\ j <= m + SendWindowSize - 1
  BY Room
<1>3. G \subseteq 0 .. written - 1 /\ 0 .. m - 1 \subseteq G /\ G \in SUBSET Data
  BY <1>1
<1>4. /\ p \in Buffer /\ p.chunk_start = Wrap(out) /\ WindowAt(p, m)
      /\ p.numitems = Cardinality(Stored(G, out)) /\ Kept(p, out, G)
      /\ p.numitems <= inbuf.numitems + 1
  <2>1. inbuf.numitems = Cardinality(Stored(got, out)) /\ inbuf.numitems \in Nat
    BY <1>2 DEF Holding, Buffer
  <2>2. CASE k \in got
    <3>1. G = got
      BY <2>2
    <3>2. \A j \in got : j <= k + MaxAge
      BY DEF MayArrive
    <3>3. p = inbuf
      BY <1>2, <2>2, <3>2, PlacedAgain DEF InPlaceNow
    <3> HIDE DEF p, G
    <3> QED BY <1>2, <2>1, <3>1, <3>3 DEF Holding
  <2>3. CASE k \notin got
    <3>1. k \in m .. m + SendWindowSize - 1 /\ k < out + Length /\ k >= out
      <4>1. ~ (k < m)
        BY <1>1, <2>3
      <4> QED BY <1>1, <1>2, <4>1
    <3>2. /\ p \in Buffer /\ p.chunk_start = Wrap(out) /\ WindowAt(p, m)
          /\ p.numitems = Cardinality(Stored(G, out)) /\ Kept(p, out, G)
      BY <1>1, <1>2, <2>3, <3>1, PlacedNew DEF InPlaceNow
    <3>3. Cardinality(Stored(G, out)) = Cardinality(Stored(got, out)) + 1
      BY <1>1, <2>3, <3>1, StoredMore
    <3> HIDE DEF p, G
    <3> QED BY <2>1, <3>2, <3>3
  <2> QED BY <2>2, <2>3
<1> HIDE DEF p
<1>5. PICK n \in m .. written : 0 .. n - 1 \subseteq G /\ n \notin G
  <2> HIDE DEF G
  <2> QED BY <1>1, <1>3, FirstMissing
<1>6. n \in Nat /\ m <= n /\ n <= m + SendWindowSize
  <2>1. n > m => n - 1 \in G
    BY <1>1, <1>5
  <2>2. n > m => n - 1 <= m + SendWindowSize - 1
    BY <1>2, <2>1
  <2> HIDE DEF G
  <2> QED BY <1>1, <2>2
<1>7. n = m \/ k = m
  BY <1>1, <1>5, <1>6
<1>8. n <= out + Length - 1
  <2>1. CASE Complete(m)
    <3> DEFINE d == n - out
    <3>1. d \in Nat /\ out + d = n /\ out .. out + d - 1 \subseteq G
      BY <1>1, <1>5, <1>6
    <3> HIDE DEF d, G
    <3>0. G \in SUBSET Data /\ out \in Nat /\ out + d \in Nat
      BY <1>1, <1>3, <3>1
    <3>2. Cardinality(Stored(G, out)) = d + Cardinality(Stored(G, out + d))
      BY <3>0, <3>1, StoredSplit
    <3>3. Cardinality(Stored(G, out + d)) \in Nat
      BY <3>0, StoredFinite
    <3>4. inbuf.numitems <= SendWindowSize - 1 /\ inbuf.numitems \in Nat
      BY <1>2, <2>1 DEF InvAt, Holding, Buffer
    <3>5. d <= SendWindowSize
      BY <1>1, <1>4, <3>1, <3>2, <3>3, <3>4
    <3> QED BY <1>1, <1>6, <3>1, <3>5
  <2>2. CASE ~ Complete(m)
    <3>1. m <= out + MaxChunk - 1
      BY <2>2, PartFits
    <3> QED BY <1>1, <1>6, <3>1
  <2> QED BY <2>1, <2>2
<1>9. Walkable(p, out, G, n)
  <2>1. n \in out .. out + Length - 1 /\ out .. n - 1 \subseteq 0 .. n - 1
    BY <1>1, <1>6, <1>8
  <2> HIDE DEF G
  <2> QED BY <1>1, <1>3, <1>4, <1>5, <2>1 DEF Walkable
<1>10. n - m <= RecvWindowSize
  BY <1>1, <1>6
<1> HIDE DEF G
<1>11. WITNESS n \in m .. written
<1> QED BY <1>4, <1>5, <1>7, <1>9, <1>10 DEF p, G

(* One packet comes out of the ring: the next of the stream, whole.        *)
OneOut ==
    /\ Len(tun) < Len(offered)
    /\ tun' = Append(tun, offered[Len(tun) + 1])
    /\ UNCHANGED offered

LEMMA SameStream ==
    ASSUME UNCHANGED <<offered, written>>, StreamCut
    PROVE  /\ StreamCut' /\ Ends' = Ends
           /\ \A i : FirstOf(i)' = FirstOf(i) /\ LastOf(i)' = LastOf(i)
           /\ \A x : Placed(x)' = Placed(x)
<1>1. Ends' = Ends
  BY DEF Ends
<1>2. \A i : FirstOf(i)' = FirstOf(i) /\ LastOf(i)' = LastOf(i)
  BY DEF FirstOf, LastOf
<1>3. StreamCut'
  BY <1>2 DEF StreamCut
<1>4. \A x : Placed(x)' = Placed(x)
  BY <1>1 DEF Placed, Frag
<1> QED BY <1>1, <1>2, <1>3, <1>4

(* The step when the next packet is complete with fragment k ...            *)
LEMMA ArriveTakes ==
    ASSUME Cut, NEW m, InvAt(m), NEW k \in 0 .. written - 1, Arrive(k),
           NEW n \in m .. written,
           Walkable(InPlaceNow(k), out, got \cup {k}, n),
           WindowAt(InPlaceNow(k), m), n - m <= RecvWindowSize,
           0 .. n - 1 \subseteq got \cup {k}, n = m \/ k = m,
           InPlaceNow(k).numitems <= inbuf.numitems + 1, Complete(n)
    PROVE  Cut' /\ InvAt(n)' /\ OneOut
<1> DEFINE p == InPlaceNow(k)
           G == got \cup {k}
           e == NextEnd
           c == e - out + 1
           u == window_tick_recving(window_reassemble_data(p, RecvWindowSize), RecvWindowSize)
<1>1. /\ out \in Nat /\ written \in Nat /\ m \in Nat /\ n \in Nat /\ out <= m /\ m <= n /\ n <= written
      /\ MaxFrags \in Nat /\ written <= MaxFrags
      /\ Len(tun) \in Nat /\ Len(offered) \in Nat /\ k \in Nat /\ k \in Data
      /\ SendWindowSize \in Nat /\ SendWindowSize >= 1 /\ Length \in Nat
      /\ got \subseteq 0 .. written - 1
      /\ tun \in Seq(Seq(Data)) /\ offered \in Seq(Seq(Data))
      /\ inbuf.numitems \in Nat
  BY BufferAssumption, RecvAssumption DEF Cut, RecvTypeOK, InvAt, Buffer
<1>2. Len(tun) < Len(offered) /\ e < n
  BY DEF Complete, NextEnd
<1>3. /\ e \in Ends /\ e \in out .. written - 1
      /\ offered[Len(tun) + 1] = [i \in 1 .. c |-> out + i - 1]
      /\ \A x \in out .. e - 1 : x \notin Ends
  BY <1>2, NextPacket
<1> HIDE DEF e
<1>4. e \in out .. n - 1 /\ c \in Nat /\ c >= 1 /\ out + c = e + 1 /\ c \in Nat \ {0}
  BY <1>1, <1>2, <1>3
<1>5. \A j \in G : j < out + Length /\ j <= m + SendWindowSize - 1
  BY Room DEF Arrive
<1>6. out = 0 \/ out - 1 \in Ends
  BY OutStarts
<1>7. /\ Reassembled(p) = [i \in 1 .. c |-> out + i - 1]
      /\ u \in Buffer /\ WindowAt(u, n)
      /\ u.chunk_start = Wrap(out + c)
      /\ u.numitems = p.numitems - c
      /\ Kept(u, out + c, G)
  <2> HIDE DEF p, G
  <2>1. Walkable(p, out, G, n) /\ WindowAt(p, m) /\ m \in out .. n
    BY <1>1 DEF p, G
  <2> QED BY <1>3, <1>4, <1>5, <1>6, <2>1, TakenOut
<1>8. Len(Reassembled(p)) = c /\ Reassembled(p) # << >> /\ Reassembled(p) = offered[Len(tun) + 1]
  <2> HIDE DEF c, p
  <2> QED BY <1>3, <1>4, <1>7
<1>9. /\ inbuf' = u /\ tun' = Append(tun, offered[Len(tun) + 1]) /\ out' = out + c
      /\ got' = G /\ offered' = offered /\ written' = written
  <2>1. /\ inbuf' = u
        /\ tun' = IF Reassembled(p) = << >> THEN tun ELSE Append(tun, Reassembled(p))
        /\ out' = out + Len(Reassembled(p))
        /\ got' = G /\ offered' = offered /\ written' = written
    BY DEF Arrive, TunnelDns, InPlaceNow
  <2> HIDE DEF p, u, G, c
  <2> QED BY <1>8, <2>1
<1> HIDE DEF u
<1>10. OneOut
  BY <1>2, <1>9 DEF OneOut
<1>11. StreamCut' /\ \A i : FirstOf(i)' = FirstOf(i) /\ LastOf(i)' = LastOf(i)
  BY <1>9, SameStream DEF Cut
<1>12. \A x : Placed(x)' = Placed(x)
  BY <1>9, SameStream DEF Cut
<1>13. RecvTypeOK'
  <2>1. offered[Len(tun) + 1] \in Seq(Data)
    BY <1>1, <1>2
  <2>2. tun' \in Seq(Seq(Data))
    BY <1>1, <1>9, <2>1
  <2>3. out' \in 0 .. MaxFrags
    BY <1>1, <1>4, <1>9
  <2>4. got' \subseteq 0 .. written' - 1
    BY <1>1, <1>9
  <2>5. inbuf' \in Buffer
    BY <1>7, <1>9
  <2> QED BY <1>9, <2>2, <2>3, <2>4, <2>5 DEF Cut, RecvTypeOK
<1>14. Len(tun') = Len(tun) + 1 /\ out' = e + 1
  BY <1>1, <1>4, <1>9
<1>15. OutAtCut'
  <2> DEFINE l == Len(tun) + 1
  <2>1. l \in 1 .. Len(offered) /\ l \in DOMAIN offered /\ e = LastOf(l)
    BY <1>1, <1>2 DEF e, NextEnd
  <2>2. CASE l = Len(offered)
    <3>1. written = LastOf(Len(offered)) + 1
      BY <1>1, <2>1 DEF Cut, StreamCut
    <3> QED BY <1>9, <1>14, <2>1, <2>2, <3>1 DEF OutAtCut
  <2>3. CASE l < Len(offered)
    <3>1. l + 1 \in DOMAIN offered /\ l + 1 # 1 /\ (l + 1) - 1 = l
      BY <1>1, <2>1, <2>3
    <3>2. FirstOf(l + 1) = LastOf(l) + 1
      BY <3>1 DEF Cut, StreamCut
    <3>3. Len(tun') = l
      BY <1>14
    <3> HIDE DEF l
    <3>4. FirstOf(Len(tun) + 1)' = FirstOf(l + 1)
      BY <1>9, <3>3 DEF FirstOf
    <3>5. Len(tun') <= Len(offered') /\ Len(tun') # Len(offered')
      BY <1>1, <1>9, <2>1, <2>3, <3>3
    <3>6. out' = FirstOf(Len(tun) + 1)'
      BY <1>14, <2>1, <3>2, <3>4
    <3> QED BY <3>5, <3>6 DEF OutAtCut
  <2> QED BY <1>1, <2>1, <2>2, <2>3
<1>16. InvAt(n)'
  <2>1. Kept(inbuf, out, got)'
    <3>1. ASSUME NEW j \in out' .. out' + Length - 1
          PROVE  inbuf'.frags[Wrap(j)] = IF j \in got' THEN Placed(j)' ELSE Empty
      BY <1>7, <1>9, <1>12, <3>1 DEF Kept
    <3> QED BY <3>1 DEF Kept
  <2>2. inbuf'.numitems = Cardinality(Stored(got', out'))
    <3>1. out .. out + c - 1 \subseteq G
      BY <1>1, <1>4
    <3>2. G \in SUBSET Data
      BY <1>1, RecvAssumption
    <3> HIDE DEF c, G
    <3>3. Cardinality(Stored(G, out)) = c + Cardinality(Stored(G, out + c))
      BY <1>1, <1>4, <3>1, <3>2, StoredSplit
    <3>4. p.numitems = Cardinality(Stored(G, out))
      BY DEF Walkable, G
    <3>5. Cardinality(Stored(G, out + c)) \in Nat
      <4>1. out + c \in Nat
        BY <1>1, <1>4
      <4> QED BY <3>2, <4>1, StoredFinite
    <3> QED BY <1>4, <1>7, <1>9, <3>3, <3>4, <3>5
  <2>3. inbuf'.numitems <= SendWindowSize - 1
    <3>1. CASE Complete(m)
      <4>1. inbuf.numitems <= SendWindowSize - 1
        BY <3>1 DEF InvAt
      <4>2. p.numitems \in Nat /\ u.numitems = p.numitems - c
        BY <1>7, ItemsCover
      <4> HIDE DEF p, c
      <4>3. p.numitems <= inbuf.numitems + 1
        BY DEF p
      <4> QED BY <1>1, <1>4, <1>9, <4>1, <4>2, <4>3
    <3>2. CASE ~ Complete(m)
      <4>1. ~ (e < m)
        BY <1>2, <3>2 DEF Complete, e, NextEnd
      <4> DEFINE o2 == e + 1
                 b == SendWindowSize - 1
      <4>2. o2 \in Nat /\ b \in Nat /\ \A j \in G : j < o2 + b
        BY <1>1, <1>4, <1>5, <4>1
      <4>3. G \in SUBSET Data
        BY <1>1, RecvAssumption
      <4> HIDE DEF o2, b, G
      <4>4. Cardinality(Stored(G, o2)) <= b
        BY <4>2, <4>3, StoredFew
      <4>5. got' = G /\ out' = o2
        BY <1>9, <1>14 DEF o2
      <4> QED BY <2>2, <4>4, <4>5 DEF b
    <3> QED BY <3>1, <3>2
  <2>4. n \in out' .. written'
    BY <1>1, <1>4, <1>9
  <2>5. 0 .. n - 1 \subseteq got' /\ n \notin got'
    BY <1>9 DEF Walkable
  <2>6. got' \subseteq 0 .. n + SendWindowSize - 1
    <3>1. ASSUME NEW j \in G PROVE j \in 0 .. n + SendWindowSize - 1
      <4>1. j \in Nat /\ j <= m + SendWindowSize - 1
        BY <1>1, <1>5
      <4> QED BY <1>1, <4>1
    <3> QED BY <1>9, <3>1
  <2>7. inbuf'.window_start = Wrap(n) /\ inbuf'.start_seq_id = n % MaxSeqId
    BY <1>7, <1>9 DEF WindowAt
  <2>8. inbuf'.chunk_start = Wrap(out')
    BY <1>7, <1>9
  <2> QED BY <2>1, <2>2, <2>3, <2>4, <2>5, <2>6, <2>7, <2>8 DEF InvAt
<1> QED BY <1>10, <1>11, <1>13, <1>15, <1>16 DEF Cut

(* ... and when it is not.                                                 *)
LEMMA ArriveWaits ==
    ASSUME Cut, NEW m, InvAt(m), NEW k \in 0 .. written - 1, Arrive(k),
           NEW n \in m .. written,
           Walkable(InPlaceNow(k), out, got \cup {k}, n),
           WindowAt(InPlaceNow(k), m), n - m <= RecvWindowSize,
           0 .. n - 1 \subseteq got \cup {k}, ~ Complete(n)
    PROVE  Cut' /\ InvAt(n)' /\ UNCHANGED <<offered, tun>>
<1> DEFINE p == InPlaceNow(k)
           G == got \cup {k}
           u == window_tick_recving(window_reassemble_data(p, RecvWindowSize), RecvWindowSize)
<1>1. /\ out \in Nat /\ written \in Nat /\ m \in Nat /\ n \in Nat /\ out <= m /\ m <= n /\ n <= written
      /\ SendWindowSize \in Nat /\ SendWindowSize >= 1 /\ k \in Nat
      /\ got \subseteq 0 .. written - 1
  BY RecvAssumption DEF Cut, RecvTypeOK, InvAt
<1>2. \A x \in out .. n - 1 : x \notin Ends
  <2>1. n \in out .. written
    BY <1>1
  <2> QED BY <2>1, NoEndBefore
<1>3. \A j \in G : j < out + Length /\ j <= m + SendWindowSize - 1
  BY Room DEF Arrive
<1>4. out = 0 \/ out - 1 \in Ends
  BY OutStarts
<1>5. /\ Reassembled(p) = << >>
      /\ u \in Buffer /\ WindowAt(u, n)
      /\ u.chunk_start = Wrap(out)
      /\ u.numitems = p.numitems
      /\ Kept(u, out, G)
  <2> HIDE DEF p, G
  <2>1. Walkable(p, out, G, n) /\ WindowAt(p, m) /\ m \in out .. n
    BY <1>1 DEF p, G
  <2> QED BY <1>2, <1>4, <2>1, NotTaken
<1>6. /\ inbuf' = u /\ tun' = tun /\ out' = out
      /\ got' = G /\ offered' = offered /\ written' = written
  <2>1. /\ inbuf' = u
        /\ tun' = IF Reassembled(p) = << >> THEN tun ELSE Append(tun, Reassembled(p))
        /\ out' = out + Len(Reassembled(p))
        /\ got' = G /\ offered' = offered /\ written' = written
    BY DEF Arrive, TunnelDns, InPlaceNow
  <2> HIDE DEF p, u, G
  <2>2. Len(Reassembled(p)) = 0
    BY <1>5
  <2> QED BY <1>1, <1>5, <2>1, <2>2
<1> HIDE DEF u
<1>7. /\ StreamCut' /\ \A i : FirstOf(i)' = FirstOf(i) /\ LastOf(i)' = LastOf(i)
      /\ \A x : Placed(x)' = Placed(x)
  BY <1>6, SameStream DEF Cut
<1>8. RecvTypeOK'
  <2>1. got' \subseteq 0 .. written' - 1
    BY <1>1, <1>6
  <2>2. inbuf' \in Buffer
    BY <1>5, <1>6
  <2> QED BY <1>6, <2>1, <2>2 DEF Cut, RecvTypeOK
<1>9. OutAtCut'
  BY <1>6 DEF Cut, OutAtCut, FirstOf
<1>10. InvAt(n)'
  <2>1. Kept(inbuf, out, got)'
    <3>1. ASSUME NEW j \in out' .. out' + Length - 1
          PROVE  inbuf'.frags[Wrap(j)] = IF j \in got' THEN Placed(j)' ELSE Empty
      BY <1>5, <1>6, <1>7, <3>1 DEF Kept
    <3> QED BY <3>1 DEF Kept
  <2>2. inbuf'.numitems = Cardinality(Stored(got', out'))
    BY <1>5, <1>6 DEF Walkable
  <2>3. ~ Complete(n)'
    BY <1>6 DEF Complete, LastOf
  <2>4. n \in out' .. written' /\ 0 .. n - 1 \subseteq got' /\ n \notin got'
    BY <1>1, <1>6 DEF Walkable
  <2>5. got' \subseteq 0 .. n + SendWindowSize - 1
    <3>1. ASSUME NEW j \in G PROVE j \in 0 .. n + SendWindowSize - 1
      <4>1. j \in Nat /\ j <= m + SendWindowSize - 1
        BY <1>1, <1>3
      <4> QED BY <1>1, <4>1
    <3> QED BY <1>6, <3>1
  <2>6. /\ inbuf'.window_start = Wrap(n) /\ inbuf'.start_seq_id = n % MaxSeqId
        /\ inbuf'.chunk_start = Wrap(out')
    BY <1>5, <1>6 DEF WindowAt
  <2> QED BY <2>1, <2>2, <2>3, <2>4, <2>5, <2>6 DEF InvAt
<1> QED BY <1>6, <1>7, <1>8, <1>9, <1>10 DEF Cut

LEMMA ArriveStep ==
    ASSUME RecvIInv, NEW k \in 0 .. written - 1, Arrive(k)
    PROVE  RecvIInv' /\ (OneOut \/ UNCHANGED <<offered, tun>>)
<1>1. PICK m \in 0 .. MaxFrags : InvAt(m)
  BY DEF RecvIInv
<1>2. Cut
  BY DEF RecvIInv, Cut
<1>3. MayArrive(k)
  BY DEF Arrive
<1>4. PICK n \in m .. written :
         /\ Walkable(InPlaceNow(k), out, got \cup {k}, n)
         /\ WindowAt(InPlaceNow(k), m) /\ n - m <= RecvWindowSize
         /\ 0 .. n - 1 \subseteq got \cup {k}
         /\ n = m \/ k = m
         /\ InPlaceNow(k).numitems <= inbuf.numitems + 1
  BY <1>1, <1>2, <1>3, AfterPlacing
<1>5. Cut' /\ InvAt(n)' /\ (OneOut \/ UNCHANGED <<offered, tun>>)
  <2>1. CASE Complete(n)
    BY <1>1, <1>2, <1>4, <2>1, ArriveTakes
  <2>2. CASE ~ Complete(n)
    BY <1>1, <1>2, <1>4, <2>2, ArriveWaits
  <2> QED BY <2>1, <2>2
<1>6. n \in 0 .. MaxFrags
  BY <1>2, RecvAssumption DEF Cut, RecvTypeOK
<1> QED BY <1>5, <1>6 DEF RecvIInv, Cut

-----------------------------------------------------------------------------
(* The other end cuts one more packet.                                     *)

LEMMA OfferStep ==
    ASSUME RecvIInv, NEW n \in 1 .. MaxChunk, Offer(n)
    PROVE  RecvIInv'
<1>a. Len(offered) \in Nat /\ Len(tun) \in Nat
  BY DEF RecvIInv, RecvTypeOK
<1>b. PICK l \in Nat : l = Len(offered)
  BY <1>a
<1>c. PICK b \in Nat : b = Len(tun) + 1
  BY <1>a
<1> DEFINE q == [j \in 1 .. n |-> written + j - 1]
<1>1. /\ Cut /\ n \in Nat /\ n >= 1 /\ n <= MaxChunk /\ written \in Nat /\ written + n <= MaxFrags
      /\ MaxFrags \in Nat /\ l \in Nat /\ l = Len(offered) /\ offered \in Seq(Seq(Data))
      /\ offered' = Append(offered, q) /\ written' = written + n
      /\ inbuf' = inbuf /\ tun' = tun /\ out' = out /\ got' = got
      /\ Len(tun) \in Nat /\ b = Len(tun) + 1 /\ out \in Nat /\ got \subseteq 0 .. written - 1
      /\ MaxChunk \in Nat
  BY <1>a, <1>b, <1>c, RecvAssumption DEF RecvIInv, Cut, RecvTypeOK, Offer
<1>2. q \in Seq(Data) /\ Len(q) = n /\ q[1] = written /\ q[n] = written + n - 1
  <2>1. \A j \in 1 .. n : written + j - 1 \in Data
    BY <1>1, RecvAssumption
  <2> QED BY <1>1, <2>1
<1>3. /\ offered' \in Seq(Seq(Data)) /\ Len(offered') = l + 1 /\ DOMAIN offered' = 1 .. l + 1
      /\ offered'[l + 1] = q /\ \A i \in 1 .. l : offered'[i] = offered[i]
      /\ DOMAIN offered = 1 .. l
  <2> HIDE DEF q
  <2> QED BY <1>1, <1>2
<1>d. DOMAIN offered' = 1 .. l + 1 /\ DOMAIN offered = 1 .. l /\ offered' # << >>
  <2>1. offered' = << >> => Len(offered') = 0
    OBVIOUS
  <2> QED BY <1>3, <2>1
<1>4. /\ FirstOf(l + 1)' = written /\ LastOf(l + 1)' = written + n - 1
      /\ \A i \in 1 .. l : FirstOf(i)' = FirstOf(i) /\ LastOf(i)' = LastOf(i)
  <2>1. FirstOf(l + 1)' = q[1] /\ LastOf(l + 1)' = q[Len(q)]
    <3> HIDE DEF q
    <3> QED BY <1>1, <1>3 DEF FirstOf, LastOf
  <2>2. \A i \in 1 .. l : FirstOf(i)' = FirstOf(i) /\ LastOf(i)' = LastOf(i)
    <3> HIDE DEF q
    <3> QED BY <1>3 DEF FirstOf, LastOf
  <2> QED BY <1>2, <2>1, <2>2
<1> HIDE DEF q
<1>5. \A i \in 1 .. l : FirstOf(i) \in Nat /\ LastOf(i) \in Nat /\ LastOf(i) < written
  BY <1>1, PacketFacts
<1>6. written = IF l = 0 THEN 0 ELSE LastOf(l) + 1
  <2>1. offered = << >> <=> l = 0
    BY <1>1
  <2> QED BY <1>1, <2>1 DEF Cut, StreamCut
<1>7. RecvTypeOK'
  <2>1. written' \in 0 .. MaxFrags /\ got' \subseteq 0 .. written' - 1
    BY <1>1
  <2> QED BY <1>1, <1>3, <2>1 DEF Cut, RecvTypeOK
<1>8. StreamCut'
  <2>1. ASSUME NEW i \in DOMAIN offered'
        PROVE  /\ Len(offered'[i]) \in 1 .. MaxChunk
               /\ \A j \in 1 .. Len(offered'[i]) : offered'[i][j] = FirstOf(i)' + j - 1
               /\ FirstOf(i)' = IF i = 1 THEN 0 ELSE LastOf(i - 1)' + 1
               /\ LastOf(i)' < written'
               /\ \A j \in DOMAIN offered' : i < j => LastOf(i)' < FirstOf(j)'
    <3>1. CASE i = l + 1
      <4>1. offered'[i] = q
        BY <1>3, <3>1
      <4>2. FirstOf(i)' = written /\ LastOf(i)' = written + n - 1
        BY <1>4, <3>1
      <4>3. FirstOf(i)' = IF i = 1 THEN 0 ELSE LastOf(i - 1)' + 1
        <5>1. i # 1 => l \in 1 .. l /\ i - 1 = l
          BY <1>1, <3>1
        <5>2. i # 1 => LastOf(i - 1)' = LastOf(l)
          BY <1>4, <5>1
        <5> QED BY <1>1, <1>6, <3>1, <4>2, <5>2
      <4>4. \A j \in DOMAIN offered' : ~ (i < j)
        BY <1>1, <1>3, <3>1
      <4>5. /\ Len(offered'[i]) \in 1 .. MaxChunk
            /\ \A j \in 1 .. Len(offered'[i]) : offered'[i][j] = FirstOf(i)' + j - 1
        <5>1. \A j \in 1 .. n : q[j] = written + j - 1
          BY DEF q
        <5> QED BY <1>1, <1>2, <4>1, <4>2, <5>1
      <4>6. LastOf(i)' < written'
        BY <1>1, <4>2
      <4> QED BY <4>3, <4>4, <4>5, <4>6
    <3>2. CASE i # l + 1
      <4>1. i \in 1 .. l /\ i \in DOMAIN offered
        BY <1>1, <1>3, <3>2
      <4>2. offered'[i] = offered[i] /\ FirstOf(i)' = FirstOf(i) /\ LastOf(i)' = LastOf(i)
        BY <1>3, <1>4, <4>1
      <4>3. /\ Len(offered[i]) \in 1 .. MaxChunk
            /\ \A j \in 1 .. Len(offered[i]) : offered[i][j] = FirstOf(i) + j - 1
            /\ FirstOf(i) = IF i = 1 THEN 0 ELSE LastOf(i - 1) + 1
            /\ LastOf(i) < written
            /\ \A j \in DOMAIN offered : i < j => LastOf(i) < FirstOf(j)
        BY <1>1, <4>1 DEF Cut, StreamCut
      <4>4. FirstOf(i)' = IF i = 1 THEN 0 ELSE LastOf(i - 1)' + 1
        <5>1. i # 1 => i - 1 \in 1 .. l
          BY <1>1, <4>1
        <5>2. i # 1 => LastOf(i - 1)' = LastOf(i - 1)
          BY <1>4, <5>1
        <5> QED BY <4>2, <4>3, <5>2
      <4>5. ASSUME NEW j \in DOMAIN offered', i < j PROVE LastOf(i)' < FirstOf(j)'
        <5>1. CASE j = l + 1
          BY <1>4, <4>2, <4>3, <5>1
        <5>2. CASE j # l + 1
          <6>1. j \in 1 .. l /\ j \in DOMAIN offered
            BY <1>d, <5>2
          <6> QED BY <1>4, <4>2, <4>3, <4>5, <6>1
        <5> QED BY <5>1, <5>2
      <4>6. LastOf(i)' < written'
        BY <1>1, <1>5, <4>1, <4>2
      <4> QED BY <4>2, <4>3, <4>4, <4>5, <4>6
    <3> QED BY <3>1, <3>2
  <2>2. offered' # << >> /\ written' = LastOf(l + 1)' + 1
    <3>1. LastOf(l + 1)' = written + n - 1
      BY <1>4
    <3>2. offered' # << >>
      BY <1>d
    <3> QED BY <1>1, <3>1, <3>2
  <2>3. LastOf(Len(offered))' = LastOf(l + 1)'
    BY <1>3 DEF LastOf
  <2>4. written' = IF offered' = << >> THEN 0 ELSE LastOf(Len(offered))' + 1
    BY <2>2, <2>3
  <2> QED BY <2>1, <2>4 DEF StreamCut
<1>9. OutAtCut'
  <2>1. Len(tun) <= l /\ out = IF Len(tun) = l THEN written ELSE FirstOf(Len(tun) + 1)
    BY <1>1 DEF Cut, OutAtCut
  <2>2. out = FirstOf(b)'
    <3>1. CASE Len(tun) = l
      <4>1. b = l + 1
        BY <1>c, <3>1
      <4>2. FirstOf(b)' = written
        BY <1>4, <4>1
      <4> QED BY <2>1, <3>1, <4>2
    <3>2. CASE Len(tun) # l
      <4>1. b \in 1 .. l
        BY <1>a, <1>c, <2>1, <3>2
      <4>2. out = FirstOf(b)
        BY <1>c, <2>1, <3>2
      <4>3. FirstOf(b)' = FirstOf(b)
        BY <1>4, <4>1
      <4> QED BY <4>2, <4>3
    <3> QED BY <3>1, <3>2
  <2>3. Len(tun') <= Len(offered') /\ Len(tun') # Len(offered')
    BY <1>1, <1>3, <2>1
  <2>4. FirstOf(Len(tun) + 1)' = FirstOf(b)'
    BY <1>1 DEF FirstOf
  <2> QED BY <1>1, <2>2, <2>3, <2>4 DEF OutAtCut
<1>10. Ends' = Ends \cup {written + n - 1}
  <2>1. Ends' = {LastOf(i)' : i \in DOMAIN offered'}
    BY DEF Ends, LastOf
  <2>2. Ends = {LastOf(i) : i \in DOMAIN offered}
    BY DEF Ends, LastOf
  <2>3. DOMAIN offered' = DOMAIN offered \cup {l + 1}
    BY <1>1, <1>3
  <2> QED BY <1>3, <1>4, <2>1, <2>2, <2>3
<1>11. ASSUME NEW x \in got PROVE Placed(x)' = Placed(x)
  <2>1. x \in Nat /\ x < written
    BY <1>1
  <2>2. (x \in Ends') = (x \in Ends) /\ (x - 1 \in Ends') = (x - 1 \in Ends)
    BY <1>1, <1>10, <2>1
  <2> QED BY <2>2 DEF Placed, Frag
<1>12. ASSUME NEW m \in 0 .. MaxFrags, InvAt(m) PROVE InvAt(m)'
  <2>1. Kept(inbuf, out, got)'
    <3>1. ASSUME NEW j \in out' .. out' + Length - 1
          PROVE  inbuf'.frags[Wrap(j)] = IF j \in got' THEN Placed(j)' ELSE Empty
      BY <1>1, <1>11, <1>12, <3>1 DEF Kept, InvAt
    <3> QED BY <3>1 DEF Kept
  <2>2. Complete(m)' => Complete(m)
    <3> SUFFICES ASSUME Complete(m)' PROVE Complete(m)
      OBVIOUS
    <3>1. Len(tun) <= l /\ m <= written /\ m \in Nat
      BY <1>1, <1>12 DEF Cut, OutAtCut, InvAt
    <3>2. LastOf(b)' < m
      <4>1. LastOf(Len(tun) + 1)' = LastOf(b)'
        BY <1>1 DEF LastOf
      <4> QED BY <4>1 DEF Complete, LastOf
    <3>3. b # l + 1
      BY <1>1, <1>4, <3>1, <3>2
    <3>4. b \in 1 .. l
      BY <1>1, <3>1, <3>3
    <3>5. LastOf(b)' = LastOf(b)
      BY <1>4, <3>4
    <3> QED BY <1>1, <3>2, <3>4, <3>5 DEF Complete
  <2>3. Stored(got, out)' = Stored(got, out)
    BY <1>1 DEF Stored
  <2>4. m \in out' .. written'
    BY <1>1, <1>12 DEF InvAt
  <2> QED BY <1>1, <1>12, <2>1, <2>2, <2>3, <2>4 DEF InvAt
<1>13. \E m \in 0 .. MaxFrags : InvAt(m)'
  BY <1>12 DEF RecvIInv
<1> QED BY <1>7, <1>8, <1>9, <1>13 DEF RecvIInv

-----------------------------------------------------------------------------
(* Every reachable state.                                                  *)

LEMMA RecvInitIInv == RecvInit => RecvIInv
<1> SUFFICES ASSUME RecvInit PROVE RecvIInv
  OBVIOUS
<1>1. /\ Length \in Nat \ {0} /\ MaxSeqId \in Nat \ {0} /\ MaxFrags \in Nat
      /\ SendWindowSize \in Nat /\ SendWindowSize >= 1
  BY BufferAssumption, RecvAssumption
<1>2. /\ inbuf.frags = [s \in Slots |-> Empty] /\ inbuf.numitems = 0
      /\ inbuf.window_start = 0 /\ inbuf.start_seq_id = 0 /\ inbuf.chunk_start = 0
  BY DEF RecvInit, window_buffer_init
<1>3. inbuf \in Buffer
  BY <1>1, EmptyFacts DEF RecvInit, window_buffer_init, Buffer, Slots, SeqIds
<1>4. /\ tun = << >> /\ out = 0 /\ offered = << >> /\ written = 0 /\ got = {}
      /\ Len(tun) = 0 /\ Len(offered) = 0 /\ DOMAIN offered = {}
  BY DEF RecvInit
<1>5. RecvTypeOK
  BY <1>1, <1>3, <1>4 DEF RecvTypeOK
<1>6. StreamCut
  BY <1>4 DEF StreamCut
<1>7. OutAtCut
  BY <1>4 DEF OutAtCut
<1>8. Wrap(0) = 0 /\ 0 % MaxSeqId = 0
  BY <1>1 DEF Wrap
<1>9. Kept(inbuf, out, got)
  <2> SUFFICES ASSUME NEW k \in out .. out + Length - 1
               PROVE  inbuf.frags[Wrap(k)] = Empty
    BY <1>4 DEF Kept
  <2>1. Wrap(k) \in Slots
    BY <1>1, <1>4, WrapType
  <2> QED BY <1>2, <2>1
<1>10. inbuf.numitems = Cardinality(Stored(got, out))
  <2>1. Stored(got, out) = {}
    BY <1>4 DEF Stored
  <2> QED BY <1>2, <2>1, FS_EmptySet
<1>11. InvAt(0)
  BY <1>1, <1>2, <1>4, <1>8, <1>9, <1>10 DEF InvAt, Complete
<1>12. 0 \in 0 .. MaxFrags
  BY <1>1
<1> QED BY <1>5, <1>6, <1>7, <1>11, <1>12 DEF RecvIInv

LEMMA RecvNextIInv == RecvIInv /\ [RecvNext]_recvvars => RecvIInv'
<1> SUFFICES ASSUME RecvIInv, [RecvNext]_recvvars PROVE RecvIInv'
  OBVIOUS
<1>1. ASSUME NEW n \in 1 .. MaxChunk, Offer(n) PROVE RecvIInv'
  BY <1>1, OfferStep
<1>2. ASSUME NEW k \in 0 .. written - 1, Arrive(k) PROVE RecvIInv'
  BY <1>2, ArriveStep
<1>3. CASE UNCHANGED recvvars
  <2>1. Cut /\ StreamCut
    BY DEF RecvIInv, Cut
  <2>2. /\ inbuf' = inbuf /\ tun' = tun /\ out' = out /\ offered' = offered
        /\ written' = written /\ got' = got
    BY <1>3 DEF recvvars
  <2>3. StreamCut' /\ \A x : Placed(x)' = Placed(x)
    BY <2>1, <2>2, SameStream
  <2>4. RecvTypeOK' /\ OutAtCut'
    BY <2>2 DEF RecvIInv, RecvTypeOK, OutAtCut, FirstOf
  <2>5. ASSUME NEW m \in 0 .. MaxFrags, InvAt(m) PROVE InvAt(m)'
    <3>1. Kept(inbuf, out, got)'
      BY <2>2, <2>3, <2>5 DEF Kept, InvAt
    <3>2. Complete(m)' => Complete(m)
      BY <2>2 DEF Complete, LastOf
    <3>3. Stored(got, out)' = Stored(got, out)
      BY <2>2 DEF Stored
    <3> QED BY <2>2, <2>5, <3>1, <3>2, <3>3 DEF InvAt
  <2> QED BY <2>3, <2>4, <2>5 DEF RecvIInv
<1> QED BY <1>1, <1>2, <1>3 DEF RecvNext

LEMMA RecvSpecIInv == RecvSpec => []RecvIInv
BY RecvInitIInv, RecvNextIInv, PTL DEF RecvSpec

-----------------------------------------------------------------------------
(* The theorems.                                                           *)

(* inbuf and the history of the stream keep their types.                   *)
THEOREM RecvTyping == RecvSpec => []RecvTypeOK
<1>1. RecvIInv => RecvTypeOK
  BY DEF RecvIInv
<1> QED BY <1>1, RecvSpecIInv, PTL

(* Whatever is lost, repeated or reordered, a fragment that was             *)
(* acknowledged has come out or is in the buffer.                          *)
THEOREM AckedAlwaysKept == RecvSpec => []AckedIsKept
<1>1. RecvIInv => AckedIsKept
  <2> SUFFICES ASSUME RecvIInv, NEW k \in got, ~ (k < out)
               PROVE  \E s \in Slots : inbuf.frags[s].data = k
    BY DEF AckedIsKept
  <2>1. PICK m \in 0 .. MaxFrags : InvAt(m)
    BY DEF RecvIInv
  <2>2. k \in Data /\ k \in Nat /\ out \in Nat /\ k < written
    BY RecvAssumption DEF RecvIInv, RecvTypeOK
  <2>3. k \in out .. out + Length - 1
    <3>1. k <= m + SendWindowSize - 1 /\ Cut
      BY <2>1, <2>2, RecvAssumption DEF RecvIInv, Cut, InvAt
    <3>2. k < out + Length
      BY <2>1, <2>2, <3>1, InRing
    <3> QED BY <2>2, <3>2, BufferAssumption
  <2>4. inbuf.frags[Wrap(k)] = Placed(k) /\ Wrap(k) \in Slots
    BY <2>1, <2>2, <2>3, WrapType DEF InvAt, Kept
  <2> QED BY <2>2, <2>4, PlacedFacts
<1> QED BY <1>1, RecvSpecIInv, PTL

(* numitems is the number of used slots.                                   *)
LEMMA Counted == RecvIInv => ItemsCounted
<1> SUFFICES ASSUME RecvIInv PROVE ItemsCounted
  OBVIOUS
<1>1. PICK m \in 0 .. MaxFrags : InvAt(m)
  BY DEF RecvIInv
<1> DEFINE A == Stored(got, out)
           B == {s \in Slots : Used(inbuf.frags[s])}
           f == [k \in A |-> Wrap(k)]
<1>2. Cut /\ out \in Nat /\ got \in SUBSET Data /\ Length \in Nat /\ Data \subseteq Nat
  BY BufferAssumption, RecvAssumption DEF RecvIInv, Cut, RecvTypeOK
<1>3. ASSUME NEW k \in A
      PROVE  k \in out .. out + Length - 1 /\ k \in got /\ Wrap(k) \in B
  <2>1. k \in Nat /\ k \in got /\ k >= out /\ k <= m + SendWindowSize - 1
    BY <1>1, <1>2, RecvAssumption DEF Stored, InvAt
  <2>2. k \in out .. out + Length - 1
    BY <1>1, <1>2, <2>1, InRing
  <2>3. inbuf.frags[Wrap(k)] = Placed(k)
    BY <1>1, <2>1, <2>2 DEF InvAt, Kept
  <2> QED BY <1>2, <2>1, <2>2, <2>3, WrapType, PlacedFacts
<1>4. ASSUME NEW s \in B PROVE \E k \in A : Wrap(k) = s
  <2>1. Kept(inbuf, out, got)
    BY <1>1 DEF InvAt
  <2>2. PICK k \in out .. out + Length - 1 :
               Wrap(k) = s /\ inbuf.frags[s] = IF k \in got THEN Placed(k) ELSE Empty
    BY <1>2, <2>1, SlotHolds
  <2>3. k \in got /\ k >= out
    BY <1>2, <2>2, EmptyFacts
  <2> QED BY <2>2, <2>3 DEF Stored
<1>5. IsFiniteSet(A)
  BY <1>2, StoredFinite
<1> HIDE DEF A, B
<1>6. \A j, k \in A : Wrap(j) = Wrap(k) => j = k
  BY <1>2, <1>3, WrapInjective
<1>7. f \in Bijection(A, B)
  <2>1. f \in [A -> B]
    BY <1>3
  <2>2. \A j, k \in A : f[j] = f[k] => j = k
    BY <1>6
  <2>3. \A s \in B : \E k \in A : f[k] = s
    BY <1>4
  <2> HIDE DEF f
  <2> QED BY <2>1, <2>2, <2>3, Fun_IsBij
<1>8. Cardinality(B) = Cardinality(A)
  <2>1. ExistsBijection(A, B)
    BY <1>7 DEF ExistsBijection
  <2> QED BY <1>5, <2>1, FS_Bijection
<1> QED BY <1>1, <1>8 DEF ItemsCounted, InvAt, A, B

(* The count, the window and the chunk cursor fit what is stored and what   *)
(* has arrived, in every reachable state.                                  *)
THEOREM RecvCoherentAlways == RecvSpec => []RecvCoherent
<1>1. RecvIInv => RecvCoherent
  <2> SUFFICES ASSUME RecvIInv PROVE RecvCoherent
    OBVIOUS
  <2>1. PICK m \in 0 .. MaxFrags : InvAt(m)
    BY DEF RecvIInv
  <2>2. out \in Nat /\ got \in SUBSET Data
    BY RecvAssumption DEF RecvIInv, RecvTypeOK
  <2>3. WindowBehindGap
    BY <2>1 DEF WindowBehindGap, InvAt
  <2>4. ASSUME NEW s \in Slots, Used(inbuf.frags[s])
        PROVE  /\ inbuf.frags[s].data \in out .. out + Length - 1
               /\ Wrap(inbuf.frags[s].data) = s
    <3>1. Kept(inbuf, out, got)
      BY <2>1 DEF InvAt
    <3>2. PICK k \in out .. out + Length - 1 :
                 Wrap(k) = s /\ inbuf.frags[s] = IF k \in got THEN Placed(k) ELSE Empty
      BY <2>2, <3>1, SlotHolds
    <3>3. k \in got /\ k \in Data
      BY <2>2, <2>4, <3>2, EmptyFacts
    <3>4. inbuf.frags[s].data = k
      BY <3>2, <3>3, PlacedFacts
    <3> QED BY <3>2, <3>4
  <2>5. InPlace
    BY <2>1, <2>4 DEF InPlace, InvAt
  <2> QED BY <2>3, <2>5, Counted DEF RecvCoherent
<1> QED BY <1>1, RecvSpecIInv, PTL

(* Packets that have arrived and stay behind never fill the ring: while the *)
(* next one is whole, fewer fragments than a window are stored. The         *)
(* invariant bounds them where the next packet ends before the first        *)
(* fragment missing, and a packet all of which has arrived does.           *)
THEOREM FewAlwaysLeft == RecvSpec => []FewLeftBehind
<1>1. RecvIInv => FewLeftBehind
  <2> SUFFICES ASSUME RecvIInv, NextIsWhole
               PROVE  Cardinality({k \in got : k >= out}) < SendWindowSize
    BY DEF FewLeftBehind
  <2>1. PICK m \in 0 .. MaxFrags : InvAt(m)
    BY DEF RecvIInv
  <2>2. m \in Nat /\ out \in Nat /\ m >= out /\ m \notin got /\ Cut
    BY <2>1, RecvAssumption DEF RecvIInv, RecvTypeOK, Cut, InvAt
  <2>3. /\ Len(tun) < Len(offered) /\ NextEnd \in out .. written - 1 /\ NextEnd \in Nat
        /\ offered[Len(tun) + 1] = [i \in 1 .. NextEnd - out + 1 |-> out + i - 1]
    BY <2>2, NextPacket, RecvAssumption DEF NextIsWhole, RecvIInv, RecvTypeOK
  <2>4. NextEnd < m
    <3>1. SUFFICES ASSUME ~ (NextEnd < m) PROVE FALSE
      OBVIOUS
    <3> DEFINE j == m - out + 1
    <3>2. j \in 1 .. NextEnd - out + 1 /\ out + j - 1 = m
      BY <2>2, <2>3, <3>1
    <3> HIDE DEF j
    <3>3. j \in DOMAIN offered[Len(tun) + 1] /\ offered[Len(tun) + 1][j] = m
      BY <2>3, <3>2
    <3>4. m \in got
      BY <3>3 DEF NextIsWhole
    <3> QED BY <2>2, <3>4
  <2>5. inbuf.numitems <= SendWindowSize - 1 /\ inbuf.numitems = Cardinality(Stored(got, out))
    BY <2>1, <2>3, <2>4 DEF InvAt, Complete, NextEnd
  <2>6. Cardinality(Stored(got, out)) \in Nat
    <3>1. got \in SUBSET Data
      BY RecvAssumption DEF RecvIInv, RecvTypeOK
    <3> QED BY <2>2, <3>1, StoredFinite
  <2>7. Stored(got, out) = {k \in got : k >= out}
    BY DEF Stored
  <2> QED BY <2>5, <2>6, <2>7, SendAssumption, BufferAssumption
<1> QED BY <1>1, RecvSpecIInv, PTL

(* The receiver implements the abstract queue: the packets written to the   *)
(* tun device are those of the stream, whole, once each and in order.       *)
THEOREM InOrderOnce == RecvSpec => ImplementsFifo
<1>1. RecvInit => Fifo!Init
  BY DEF RecvInit, Fifo!Init
<1>2. RecvIInv /\ [RecvNext]_recvvars => [Fifo!Next]_(Fifo!vars)
  <2> SUFFICES ASSUME RecvIInv, [RecvNext]_recvvars PROVE Fifo!Next \/ UNCHANGED Fifo!vars
    OBVIOUS
  <2>1. ASSUME NEW n \in 1 .. MaxChunk, Offer(n) PROVE Fifo!Accept
    <3>1. written \in 0 .. MaxFrags - 1
      BY <2>1, RecvAssumption DEF RecvIInv, RecvTypeOK, Offer
    <3>2. /\ offered' = Append(offered, [j \in 1 .. n |-> written + j - 1])
          /\ tun' = tun
      BY <2>1 DEF Offer
    <3> DEFINE F(k, l) == [j \in 1 .. l |-> k + j - 1]
               PacketSeqs == {F(k, l) : k \in 0 .. MaxFrags - 1, l \in 1 .. MaxChunk}
    <3>3. Fifo!Accept <=> /\ \E c \in PacketSeqs : offered' = Append(offered, c)
                          /\ tun' = tun
      BY DEF Fifo!Accept
    <3>4. offered' = Append(offered, F(written, n)) /\ tun' = tun
      BY <3>2
    <3> HIDE DEF F
    <3>5. F(written, n) \in PacketSeqs
      BY <3>1
    <3> HIDE DEF PacketSeqs
    <3> QED BY <3>3, <3>4, <3>5
  <2>2. ASSUME NEW k \in 0 .. written - 1, Arrive(k)
        PROVE  Fifo!Deliver \/ UNCHANGED Fifo!vars
    <3>1. OneOut \/ UNCHANGED <<offered, tun>>
      BY <2>2, ArriveStep
    <3> QED BY <3>1 DEF OneOut, Fifo!Deliver, Fifo!vars
  <2>3. CASE UNCHANGED recvvars
    BY <2>3 DEF recvvars, Fifo!vars
  <2> QED BY <2>1, <2>2, <2>3 DEF RecvNext, Fifo!Next
<1> QED BY <1>1, <1>2, RecvSpecIInv, PTL DEF RecvSpec, ImplementsFifo, Fifo!Spec

-----------------------------------------------------------------------------
(* Part 2: both ends of one direction.                                     *)

-----------------------------------------------------------------------------
(* The invariant.                                                          *)

(* The number of the first fragment a sending buffer still holds, and       *)
(* fragment k of the stream in it.                                         *)
FirstHeld(w) == written - w.numitems
OutFrag(w, k) == InWindow(w, k - FirstHeld(w))

Unsent(f) == [f EXCEPT !.acks = 0, !.retries = 0]

(* The sending buffer holds the end of the stream, and only what has        *)
(* arrived is acknowledged in it.                                          *)
HoldsStream(w) ==
    /\ w.numitems <= written
    /\ w.cur_seq_id = written % MaxSeqId
    /\ \A k \in FirstHeld(w) .. written - 1 :
           /\ Unsent(OutFrag(w, k)) = Frag(k)
           /\ OutFrag(w, k).acks = 1 => OutFrag(w, k).retries = 1 /\ k \in got

(* The fragments that have been sent at least once.                        *)
Sent(w) == {k \in 0 .. written - 1 :
               k >= FirstHeld(w) => OutFrag(w, k).retries = 1}

(* What the sender has let go of has arrived, and nothing arrives that was  *)
(* not sent.                                                               *)
Between(w) == 0 .. FirstHeld(w) - 1 \subseteq got /\ got \subseteq Sent(w)

(* Fragment k has not been overtaken by more than MaxAge others.           *)
NotStale(k) == \A j \in Sent(outbuf) : j <= k + MaxAge

OnTheWay ==
    /\ \A m \in fragments :
           m.data \in Sent(outbuf) /\ m = Frag(m.data) /\ NotStale(m.data)
    /\ \A a \in acks :
           /\ a.data \in got /\ NotStale(a.data)
           /\ a.seqID = a.data % MaxSeqId

Link == HoldsStream(outbuf) /\ Between(outbuf) /\ OnTheWay

IInv == SendIInv /\ RecvIInv /\ Link

-----------------------------------------------------------------------------
(* The sending buffer and the stream.                                      *)

(* Two fragments less than MaxSeqId apart have different ids.              *)
LEMMA SameId ==
    ASSUME NEW j \in Nat, NEW k \in Nat, j < k + MaxSeqId, k < j + MaxSeqId,
           j % MaxSeqId = k % MaxSeqId
    PROVE  j = k
<1> DEFINE r == j % MaxSeqId
           p == j \div MaxSeqId
           q == k \div MaxSeqId
<1>1. MaxSeqId \in Nat \ {0}
  BY BufferAssumption
<1>2. /\ j = MaxSeqId * p + r /\ k = MaxSeqId * q + r
      /\ p \in Nat /\ q \in Nat /\ r \in 0 .. MaxSeqId - 1
  BY <1>1, DivMod
<1> HIDE DEF p, q, r
<1>3. MaxSeqId * (p - q) = j - k
  BY <1>1, <1>2
<1>4. MaxSeqId * (p - q) < MaxSeqId /\ MaxSeqId * (p - q) > -MaxSeqId /\ p - q \in Int
  BY <1>1, <1>2, <1>3
<1>5. p - q = 0
  BY <1>1, <1>4, Multiples
<1> QED BY <1>2, <1>5

(* The flags do not belong to the fragment as it was cut.                  *)
LEMMA FlagFacts ==
    ASSUME NEW f \in Fragment
    PROVE  /\ Unsent([f EXCEPT !.retries = 1]) = Unsent(f)
           /\ Unsent([f EXCEPT !.acks = 1]) = Unsent(f)
           /\ [f EXCEPT !.retries = 1].retries = 1
           /\ [f EXCEPT !.retries = 1].acks = f.acks
           /\ [f EXCEPT !.acks = 1].retries = f.retries
           /\ [f EXCEPT !.acks = 1].acks = 1
           /\ Unsent(f).data = f.data /\ Unsent(f).seqID = f.seqID
           /\ f.acks = 0 => [f EXCEPT !.retries = 0] = Unsent(f)
BY DEF Unsent, Fragment

LEMMA HeldFacts ==
    ASSUME NEW w, SoundBuffer(w), w.numitems <= written, written \in Nat
    PROVE  /\ w.numitems \in 0 .. Length
           /\ FirstHeld(w) \in 0 .. written
           /\ FirstHeld(w) + w.numitems = written
           /\ \A k \in FirstHeld(w) .. written - 1 :
                  /\ k - FirstHeld(w) \in 0 .. Length - 1
                  /\ k - FirstHeld(w) < w.numitems
                  /\ OutFrag(w, k) \in Fragment
<1>1. w.numitems \in 0 .. Length
  BY BufferAssumption DEF SoundBuffer, Buffer
<1>2. FirstHeld(w) \in 0 .. written /\ FirstHeld(w) + w.numitems = written
  BY <1>1, BufferAssumption DEF FirstHeld
<1>3. ASSUME NEW k \in FirstHeld(w) .. written - 1
      PROVE  /\ k - FirstHeld(w) \in 0 .. Length - 1
             /\ k - FirstHeld(w) < w.numitems
             /\ OutFrag(w, k) \in Fragment
  <2>1. k - FirstHeld(w) \in 0 .. Length - 1 /\ k - FirstHeld(w) < w.numitems
    BY <1>1, <1>2, BufferAssumption
  <2> QED BY <2>1, UsedInWindow DEF OutFrag
<1> QED BY <1>1, <1>2, <1>3

(* The window moves past fragments that are acknowledged only.             *)
LEMMA TickStream ==
    ASSUME NEW w, SoundBuffer(w), HoldsStream(w), Between(w), written \in Nat
    PROVE  LET t == window_tick_sending(w, SendWindowSize) IN
           HoldsStream(t) /\ Between(t) /\ Sent(t) = Sent(w)
<1> DEFINE t == window_tick_sending(w, SendWindowSize)
           d == Leading(w, SendWindowSize)
           a == FirstHeld(w)
           b == FirstHeld(t)
<1>1. /\ w \in Buffer /\ w.numitems \in 0 .. Length /\ w.numitems <= written
      /\ a \in 0 .. written /\ a + w.numitems = written
      /\ \A k \in a .. written - 1 : OutFrag(w, k) \in Fragment
  BY HeldFacts DEF HoldsStream, SoundBuffer
<1>2. /\ d \in 0 .. w.numitems
      /\ t.numitems = w.numitems - d /\ t.cur_seq_id = w.cur_seq_id
      /\ \A i \in 0 .. Length - 1 :
             InWindow(t, i) = IF d + i < Length THEN InWindow(w, d + i) ELSE Empty
  BY TickFields
<1>3. \A i \in 0 .. d - 1 : InWindow(w, i).acks >= 1
  BY <1>1, LeadingValue, SendAssumption, BufferAssumption
<1> HIDE DEF t, d
<1>4. b = a + d /\ b \in a .. written
  BY <1>1, <1>2, BufferAssumption DEF FirstHeld
<1>5. ASSUME NEW k \in b .. written - 1
      PROVE  OutFrag(t, k) = OutFrag(w, k) /\ k \in a .. written - 1
  <2> DEFINE i == k - b
  <2>1. i \in 0 .. Length - 1 /\ d + i < Length /\ d + i = k - a
    BY <1>1, <1>2, <1>4, BufferAssumption
  <2>2. InWindow(t, i) = InWindow(w, d + i)
    <3> HIDE DEF i
    <3> QED BY <1>2, <2>1
  <2>3. k \in a .. written - 1
    BY <1>1, <1>4
  <2> QED BY <2>1, <2>2, <2>3 DEF OutFrag
<1>6. ASSUME NEW k \in a .. b - 1
      PROVE  k \in a .. written - 1 /\ OutFrag(w, k).retries = 1 /\ k \in got
  <2>1. k - a \in 0 .. d - 1 /\ k \in a .. written - 1
    BY <1>1, <1>2, <1>4
  <2>2. OutFrag(w, k).acks >= 1
    BY <1>3, <2>1 DEF OutFrag
  <2>3. OutFrag(w, k).acks = 1
    BY <1>1, <2>1, <2>2 DEF Fragment
  <2> QED BY <2>1, <2>3 DEF HoldsStream
<1> HIDE DEF a, b
<1>7. HoldsStream(t)
  <2>1. t.numitems <= written /\ t.cur_seq_id = written % MaxSeqId
    BY <1>1, <1>2, BufferAssumption DEF HoldsStream
  <2>2. ASSUME NEW k \in b .. written - 1
        PROVE  /\ Unsent(OutFrag(t, k)) = Frag(k)
               /\ OutFrag(t, k).acks = 1 => OutFrag(t, k).retries = 1 /\ k \in got
    BY <1>5 DEF HoldsStream, a
  <2> QED BY <2>1, <2>2 DEF HoldsStream, b
<1>8. Sent(t) = Sent(w)
  <2>1. ASSUME NEW k \in 0 .. written - 1
        PROVE  (k >= b => OutFrag(t, k).retries = 1) <=> (k >= a => OutFrag(w, k).retries = 1)
    <3>1. CASE k >= b
      <4>1. k \in b .. written - 1 /\ k >= a
        BY <1>1, <1>4, <3>1
      <4> QED BY <1>5, <3>1, <4>1
    <3>2. CASE ~ (k >= b)
      <4>1. k >= a => k \in a .. b - 1
        BY <1>1, <1>4, <3>2
      <4> QED BY <1>6, <3>2, <4>1
    <3> QED BY <3>1, <3>2
  <2> QED BY <2>1 DEF Sent, a, b
<1>9. Between(t)
  <2>1. ASSUME NEW k \in 0 .. b - 1 PROVE k \in got
    <3>1. k \in 0 .. a - 1 \/ k \in a .. b - 1
      BY <1>1, <1>4
    <3> QED BY <1>6, <3>1 DEF Between, a
  <2> QED BY <1>8, <2>1 DEF Between, b
<1> QED BY <1>7, <1>8, <1>9 DEF t

(* A step changes the flags of one fragment, k.                            *)
LEMMA FlagStream ==
    ASSUME NEW w, SoundBuffer(w), HoldsStream(w), written \in Nat, NEW t,
           t.numitems = w.numitems, t.cur_seq_id = w.cur_seq_id,
           NEW k \in FirstHeld(w) .. written - 1, NEW f \in Fragment,
           Unsent(f) = Unsent(OutFrag(w, k)),
           f.acks = 1 => f.retries = 1 /\ k \in got,
           \A j \in 0 .. Length - 1 :
               InWindow(t, j) = IF j = k - FirstHeld(w) THEN f ELSE InWindow(w, j)
    PROVE  /\ HoldsStream(t) /\ FirstHeld(t) = FirstHeld(w)
           /\ \A j \in FirstHeld(w) .. written - 1 :
                  OutFrag(t, j) = IF j = k THEN f ELSE OutFrag(w, j)
<1>1. FirstHeld(t) = FirstHeld(w)
  BY DEF FirstHeld
<1>2. ASSUME NEW j \in FirstHeld(w) .. written - 1
      PROVE  OutFrag(t, j) = IF j = k THEN f ELSE OutFrag(w, j)
  <2> DEFINE i == j - FirstHeld(w)
  <2>1. i \in 0 .. Length - 1 /\ FirstHeld(w) \in Nat
    BY HeldFacts DEF HoldsStream
  <2>2. i = k - FirstHeld(w) <=> j = k
    BY <2>1
  <2>3. OutFrag(t, j) = InWindow(t, i) /\ OutFrag(w, j) = InWindow(w, i)
    BY <1>1 DEF OutFrag
  <2> HIDE DEF i
  <2> QED BY <2>1, <2>2, <2>3
<1>3. ASSUME NEW j \in FirstHeld(t) .. written - 1
      PROVE  /\ Unsent(OutFrag(t, j)) = Frag(j)
             /\ OutFrag(t, j).acks = 1 => OutFrag(t, j).retries = 1 /\ j \in got
  <2>1. /\ Unsent(OutFrag(w, j)) = Frag(j)
        /\ OutFrag(w, j).acks = 1 => OutFrag(w, j).retries = 1 /\ j \in got
    BY <1>1 DEF HoldsStream
  <2> QED BY <1>1, <1>2, <2>1
<1>4. HoldsStream(t)
  BY <1>3 DEF HoldsStream
<1> QED BY <1>1, <1>2, <1>4

(* What has been sent lies before the end of the window.                   *)
LEMMA SentInWindow ==
    ASSUME NEW w, SoundBuffer(w), InFlightBuffer(w), w.numitems <= written,
           written \in Nat, NEW k \in Sent(w)
    PROVE  k \in Nat /\ k < FirstHeld(w) + SendWindowSize
<1>1. FirstHeld(w) \in Nat /\ k \in 0 .. written - 1 /\ SendWindowSize \in Nat \ {0}
  BY HeldFacts, SendAssumption, BufferAssumption DEF Sent
<1>2. CASE k >= FirstHeld(w)
  <2>1. k \in FirstHeld(w) .. written - 1 /\ OutFrag(w, k).retries = 1
    BY <1>1, <1>2 DEF Sent
  <2>2. k - FirstHeld(w) \in 0 .. Length - 1
    BY <2>1, HeldFacts
  <2>3. k - FirstHeld(w) < SendWindowSize
    BY <2>1, <2>2 DEF OutFrag, InFlightBuffer
  <2> QED BY <1>1, <2>3
<1>3. CASE ~ (k >= FirstHeld(w))
  BY <1>1, <1>3
<1> QED BY <1>2, <1>3

(* send_next_frag marks one more fragment of the window as sent.           *)
LEMMA MarkStream ==
    ASSUME NEW w, SoundBuffer(w), InFlightBuffer(w), HoldsStream(w), Between(w),
           written \in Nat, NEW i \in Sendable(w, SendWindowSize),
           NEW k, k = FirstHeld(w) + i
    PROVE  LET t == MarkSent(w, i) IN
           /\ k \in FirstHeld(w) .. written - 1
           /\ OutFrag(w, k) = InWindow(w, i) /\ OutFrag(w, k).acks = 0
           /\ HoldsStream(t) /\ Between(t) /\ Sent(t) = Sent(w) \cup {k}
<1> DEFINE t == MarkSent(w, i)
           f == [InWindow(w, i) EXCEPT !.retries = 1]
<1>1. i \in 0 .. Length - 1 /\ i < w.numitems
  BY MarkInFlight
<1>2. /\ FirstHeld(w) \in 0 .. written /\ FirstHeld(w) + w.numitems = written
      /\ w.numitems \in Nat
  BY HeldFacts DEF HoldsStream
<1>3. k \in FirstHeld(w) .. written - 1 /\ k - FirstHeld(w) = i
  BY <1>1, <1>2, BufferAssumption
<1>4. OutFrag(w, k) = InWindow(w, i) /\ InWindow(w, i) \in Fragment
  BY <1>3, HeldFacts DEF OutFrag, HoldsStream
<1>5. OutFrag(w, k).acks = 0
  <2>1. InWindow(w, i).acks < 1
    BY DEF Sendable, Unacked
  <2> QED BY <1>4, <2>1 DEF Fragment
<1>6. f \in Fragment /\ Unsent(f) = Unsent(OutFrag(w, k)) /\ f.retries = 1 /\ f.acks = 0
  <2>1. f \in Fragment
    BY <1>4 DEF Fragment
  <2> QED BY <1>4, <1>5, <2>1, FlagFacts
<1>7. /\ t.numitems = w.numitems /\ t.cur_seq_id = w.cur_seq_id
      /\ \A j \in 0 .. Length - 1 : InWindow(t, j) = IF j = i THEN f ELSE InWindow(w, j)
  BY <1>1, MarkSound
<1> HIDE DEF f, t
<1>8. /\ HoldsStream(t) /\ FirstHeld(t) = FirstHeld(w)
      /\ \A j \in FirstHeld(w) .. written - 1 :
             OutFrag(t, j) = IF j = k THEN f ELSE OutFrag(w, j)
  BY <1>3, <1>6, <1>7, FlagStream
<1>9. Sent(t) = Sent(w) \cup {k}
  <2>1. ASSUME NEW j \in 0 .. written - 1
        PROVE  j \in Sent(t) <=> j \in Sent(w) \cup {k}
    <3>1. CASE j >= FirstHeld(w)
      <4>1. j \in FirstHeld(w) .. written - 1
        BY <1>2, <3>1
      <4> QED BY <1>6, <1>8, <3>1, <4>1 DEF Sent
    <3>2. CASE ~ (j >= FirstHeld(w))
      BY <1>3, <1>8, <3>2 DEF Sent
    <3> QED BY <3>1, <3>2
  <2>2. k \in 0 .. written - 1
    BY <1>2, <1>3
  <2> QED BY <2>1, <2>2 DEF Sent
<1>10. Between(t)
  BY <1>8, <1>9 DEF Between
<1> QED BY <1>3, <1>4, <1>5, <1>8, <1>9, <1>10 DEF t

(* An acknowledgement marks the fragment it was sent for, if that is still  *)
(* there: any other one with this id is too far away to be in the window.   *)
LEMMA AckStream ==
    ASSUME NEW w, SoundBuffer(w), InFlightBuffer(w), HoldsStream(w), Between(w),
           written \in Nat, NEW a \in got, \A j \in Sent(w) : j <= a + MaxAge
    PROVE  LET t == window_ack(w, SendWindowSize, a % MaxSeqId) IN
           HoldsStream(t) /\ Between(t) /\ Sent(t) = Sent(w)
<1> DEFINE t == window_ack(w, SendWindowSize, a % MaxSeqId)
           b == FirstHeld(w)
<1>1. a \in Sent(w) /\ a \in Nat /\ a < b + SendWindowSize
  <2>1. a \in Sent(w)
    BY DEF Between
  <2> QED BY <2>1, SentInWindow DEF HoldsStream
<1>2. a % MaxSeqId \in SeqIds
  BY <1>1, SeqType
<1>3. /\ t.numitems = w.numitems /\ t.cur_seq_id = w.cur_seq_id
      /\ \/ t = w
         \/ \E i \in 0 .. SendWindowSize - 1 :
                /\ i < w.numitems /\ InWindow(w, i).seqID = a % MaxSeqId
                /\ \A j \in 0 .. Length - 1 :
                       InWindow(t, j) =
                           IF j = i THEN [InWindow(w, i) EXCEPT !.acks = 1]
                                    ELSE InWindow(w, j)
  BY <1>2, AckSound
<1>4. b \in 0 .. written /\ b + w.numitems = written /\ w.numitems \in Nat
  BY HeldFacts DEF HoldsStream
<1> HIDE DEF t, b
<1>5. CASE t = w
  BY <1>5 DEF t
<1>6. ASSUME NEW i \in 0 .. SendWindowSize - 1, i < w.numitems,
             InWindow(w, i).seqID = a % MaxSeqId,
             \A j \in 0 .. Length - 1 :
                 InWindow(t, j) = IF j = i THEN [InWindow(w, i) EXCEPT !.acks = 1]
                                          ELSE InWindow(w, j)
      PROVE  HoldsStream(t) /\ Between(t) /\ Sent(t) = Sent(w)
  <2> DEFINE k == b + i
             f == [InWindow(w, i) EXCEPT !.acks = 1]
  <2>1. k \in b .. written - 1 /\ k - b = i /\ k \in Nat
    BY <1>4, <1>6, SendAssumption, BufferAssumption
  <2>2. OutFrag(w, k) = InWindow(w, i) /\ InWindow(w, i) \in Fragment
    BY <2>1, HeldFacts DEF OutFrag, HoldsStream, b
  <2> HIDE DEF k
  <2>3. InWindow(w, i).seqID = k % MaxSeqId
    <3>1. Unsent(OutFrag(w, k)) = Frag(k)
      BY <2>1 DEF HoldsStream, b
    <3>2. Frag(k).seqID = k % MaxSeqId
      BY DEF Frag
    <3> QED BY <2>2, <3>1, <3>2, FlagFacts
  <2>4. a = k
    <3>1. b <= a + MaxAge + 1
      <4>1. CASE b = 0
        BY <1>1, <4>1, RecvAssumption
      <4>2. CASE b # 0
        <5>1. b - 1 \in 0 .. b - 1 /\ 0 .. b - 1 \subseteq Sent(w)
          BY <1>4, <4>2 DEF Between, b
        <5> QED BY <1>1, <1>4, <5>1, RecvAssumption
      <4> QED BY <4>1, <4>2
    <3>2. k <= b + SendWindowSize - 1 /\ k >= b
      BY <1>4, <2>1, SendAssumption, BufferAssumption
    <3>3. a < k + MaxSeqId /\ k < a + MaxSeqId
      BY <1>1, <1>4, <2>1, <3>1, <3>2, SendAssumption, RecvFits, RecvAssumption, BufferAssumption
    <3> QED BY <1>1, <1>6, <2>1, <2>3, <3>3, SameId
  <2>5. OutFrag(w, k).retries = 1
    BY <1>1, <1>4, <2>1, <2>4 DEF Sent, b
  <2>6. f \in Fragment /\ Unsent(f) = Unsent(OutFrag(w, k)) /\ f.retries = 1
    <3>1. f \in Fragment
      BY <2>2 DEF Fragment
    <3> QED BY <2>2, <2>5, <3>1, FlagFacts
  <2> HIDE DEF f
  <2>7. \A j \in 0 .. Length - 1 :
            InWindow(t, j) = IF j = k - b THEN f ELSE InWindow(w, j)
    BY <1>6, <2>1 DEF f
  <2>8. /\ HoldsStream(t) /\ FirstHeld(t) = b
        /\ \A j \in b .. written - 1 :
               OutFrag(t, j) = IF j = k THEN f ELSE OutFrag(w, j)
    BY <1>3, <2>1, <2>4, <2>6, <2>7, FlagStream DEF b
  <2>9. Sent(t) = Sent(w)
    <3>1. ASSUME NEW j \in 0 .. written - 1
          PROVE  (j >= b => OutFrag(t, j).retries = 1) <=> (j >= b => OutFrag(w, j).retries = 1)
      <4>1. CASE j >= b
        <5>1. j \in b .. written - 1
          BY <1>4, <4>1
        <5> QED BY <2>5, <2>6, <2>8, <5>1
      <4> QED BY <4>1
    <3> QED BY <2>8, <3>1 DEF Sent, b
  <2> QED BY <2>8, <2>9 DEF Between, b
<1> QED BY <1>3, <1>5, <1>6 DEF t

-----------------------------------------------------------------------------
(* Reading a packet.                                                       *)

LEMMA EndsGrow ==
    ASSUME RecvTypeOK, StreamCut, NEW n \in 1 .. MaxChunk, Offer(n)
    PROVE  /\ written \in Nat /\ written' = written + n /\ n \in Nat \ {0}
           /\ Ends \subseteq 0 .. written - 1
           /\ written # 0 => written - 1 \in Ends
           /\ Ends' = Ends \cup {written + n - 1}
<1> DEFINE q == [j \in 1 .. n |-> written + j - 1]
<1>1. /\ n \in Nat \ {0} /\ written \in Nat /\ offered \in Seq(Seq(Data))
      /\ written' = written + n /\ offered' = Append(offered, q)
  BY RecvAssumption, BufferAssumption DEF RecvTypeOK, Offer
<1>2. Len(q) = n /\ q[Len(q)] = written + n - 1
  <2>1. Len(q) = n
    BY <1>1
  <2>2. n \in 1 .. n
    BY <1>1
  <2> QED BY <2>1, <2>2
<1>3. PICK l \in Nat : l = Len(offered)
  BY <1>1
<1> HIDE DEF q
<1>4. /\ DOMAIN offered = 1 .. l /\ DOMAIN offered' = 1 .. l + 1
      /\ offered'[l + 1] = q /\ \A i \in 1 .. l : offered'[i] = offered[i]
  BY <1>1, <1>3
<1>5. Ends' = Ends \cup {written + n - 1}
  <2>1. Ends' = {LastOf(i)' : i \in 1 .. l + 1} /\ Ends = {LastOf(i) : i \in 1 .. l}
    BY <1>4 DEF Ends, LastOf
  <2>2. LastOf(l + 1)' = written + n - 1 /\ \A i \in 1 .. l : LastOf(i)' = LastOf(i)
    BY <1>2, <1>4 DEF LastOf
  <2>3. 1 .. l + 1 = (1 .. l) \cup {l + 1}
    BY <1>3
  <2> QED BY <2>1, <2>2, <2>3
<1>6. ASSUME NEW i \in 1 .. l PROVE LastOf(i) \in 0 .. written - 1
  <2>1. LastOf(i) < written /\ i \in DOMAIN offered /\ Len(offered[i]) \in 1 .. MaxChunk
    BY <1>4 DEF StreamCut
  <2>2. offered[i] \in Seq(Data)
    BY <1>1, <2>1
  <2>3. LastOf(i) \in Data
    BY <2>1, <2>2, RecvAssumption, BufferAssumption DEF LastOf
  <2> QED BY <1>1, <2>1, <2>3, RecvAssumption
<1>7. Ends \subseteq 0 .. written - 1
  BY <1>4, <1>6 DEF Ends, LastOf
<1>8. ASSUME written # 0 PROVE written - 1 \in Ends
  <2>1. offered # << >> /\ written = LastOf(l) + 1
    BY <1>3, <1>8 DEF StreamCut
  <2>2. l \in 1 .. l
    BY <1>1, <1>3, <2>1
  <2>3. LastOf(l) \in Ends
    <3>1. l \in DOMAIN offered
      BY <1>4, <2>2
    <3> QED BY <3>1 DEF Ends, LastOf
  <2>4. LastOf(l) \in 0 .. written - 1
    BY <1>6, <2>2
  <2>5. LastOf(l) = written - 1
    BY <1>1, <2>1, <2>4
  <2> QED BY <2>3, <2>5
<1> QED BY <1>1, <1>5, <1>7, <1>8

(* The fragments there were keep their form, and those of the new packet    *)
(* are cut as window_add_outgoing_data cuts them.                          *)
LEMMA CutAlike ==
    ASSUME RecvTypeOK, StreamCut, NEW n \in 1 .. MaxChunk, Offer(n)
    PROVE  /\ \A k \in 0 .. written - 1 : Frag(k)' = Frag(k)
           /\ \A k \in written .. written + n - 1 :
                  Frag(k)' = [ data |-> k, seqID |-> k % MaxSeqId,
                               start |-> (k = written), end |-> (k = written + n - 1),
                               acks |-> 0, retries |-> 0 ]
<1>1. /\ written \in Nat /\ n \in Nat \ {0}
      /\ Ends \subseteq 0 .. written - 1
      /\ written # 0 => written - 1 \in Ends
      /\ Ends' = Ends \cup {written + n - 1}
  BY EndsGrow
<1>2. ASSUME NEW k \in 0 .. written - 1 PROVE Frag(k)' = Frag(k)
  <2>1. (k \in Ends') = (k \in Ends) /\ (k - 1 \in Ends') = (k - 1 \in Ends)
    BY <1>1
  <2> QED BY <2>1 DEF Frag
<1>3. ASSUME NEW k \in written .. written + n - 1
      PROVE  Frag(k)' = [ data |-> k, seqID |-> k % MaxSeqId,
                          start |-> (k = written), end |-> (k = written + n - 1),
                          acks |-> 0, retries |-> 0 ]
  <2>1. (k \in Ends') = (k = written + n - 1)
    BY <1>1
  <2>2. (k = 0 \/ k - 1 \in Ends') = (k = written)
    <3>1. CASE k = written
      BY <1>1, <3>1
    <3>2. CASE k # written
      BY <1>1, <3>2
    <3> QED BY <3>1, <3>2
  <2> QED BY <2>1, <2>2 DEF Frag
<1> QED BY <1>2, <1>3

(* The new packet goes behind the fragments that are there.                *)
LEMMA QueueStream ==
    ASSUME SoundBuffer(outbuf), HoldsStream(outbuf), RecvTypeOK, StreamCut,
           NEW n \in 1 .. MaxChunk, Queue(Pieces(written, n)), Offer(n)
    PROVE  /\ Pieces(written, n) \in Packets
           /\ HoldsStream(outbuf)' /\ Sent(outbuf)' = Sent(outbuf)
           /\ FirstHeld(outbuf)' = FirstHeld(outbuf)
<1> DEFINE q == Pieces(written, n)
           a == FirstHeld(outbuf)
           c == outbuf.numitems
<1>1. /\ written \in Nat /\ n \in Nat \ {0} /\ written' = written + n /\ got' = got
      /\ written + n <= MaxFrags
  BY EndsGrow DEF Offer
<1>2. Len(q) = n /\ \A j \in 1 .. n : q[j] = written + j - 1
  BY <1>1 DEF Pieces
<1>3. q \in Packets
  <2>1. written \in Data
    BY <1>1, RecvAssumption
  <2> QED BY <1>1, <2>1, TransferAssumption
<1> HIDE DEF q
<1>4. /\ Len(q) <= window_buffer_available(outbuf)
      /\ outbuf' = window_add_outgoing_data(outbuf, q)
  BY DEF Queue, q
<1>5. /\ outbuf'.numitems = c + n
      /\ outbuf'.cur_seq_id = (outbuf.cur_seq_id + n) % MaxSeqId
      /\ c + n <= Length
      /\ \A i \in 0 .. Length - 1 :
             IF i >= c /\ i < c + n
             THEN /\ InWindow(outbuf', i).data = q[i - c + 1]
                  /\ InWindow(outbuf', i).seqID = (outbuf.cur_seq_id + (i - c)) % MaxSeqId
                  /\ InWindow(outbuf', i).acks = 0
                  /\ InWindow(outbuf', i).retries = 0
                  /\ InWindow(outbuf', i).start = (i - c = 0)
                  /\ InWindow(outbuf', i).end = (i - c = n - 1)
             ELSE InWindow(outbuf', i) = InWindow(outbuf, i)
  BY <1>2, <1>3, <1>4, AddFields
<1>6. /\ c \in 0 .. Length /\ a \in 0 .. written /\ a + c = written
  BY <1>1, HeldFacts DEF HoldsStream
<1>7. FirstHeld(outbuf)' = a
  BY <1>1, <1>5, <1>6 DEF FirstHeld
<1>8. SoundBuffer(outbuf')
  BY <1>3, <1>4, AddSound
<1>9. /\ outbuf.cur_seq_id = written % MaxSeqId
      /\ n \in 0 .. MaxSeqId /\ MaxSeqId \in Nat \ {0}
  BY <1>1, RecvAssumption, BufferAssumption DEF HoldsStream
<1> HIDE DEF a, c
<1>10. ASSUME NEW k \in a .. written - 1
       PROVE  OutFrag(outbuf, k)' = OutFrag(outbuf, k) /\ Frag(k)' = Frag(k)
  <2> DEFINE i == k - a
  <2>1. i \in 0 .. Length - 1 /\ i < c /\ k \in 0 .. written - 1
    BY <1>1, <1>6, BufferAssumption
  <2>2. OutFrag(outbuf, k)' = InWindow(outbuf', i) /\ OutFrag(outbuf, k) = InWindow(outbuf, i)
    BY <1>7 DEF OutFrag, a
  <2> HIDE DEF i
  <2>3. InWindow(outbuf', i) = InWindow(outbuf, i)
    BY <1>5, <1>6, <2>1, BufferAssumption
  <2> QED BY <2>1, <2>2, <2>3, CutAlike
<1>11. ASSUME NEW k \in written .. written + n - 1
       PROVE  /\ Unsent(OutFrag(outbuf, k)') = Frag(k)' /\ OutFrag(outbuf, k)'.acks = 0
              /\ OutFrag(outbuf, k)'.retries = 0
  <2> DEFINE i == k - a
             f == OutFrag(outbuf, k)'
  <2>1. i \in 0 .. Length - 1 /\ i >= c /\ i < c + n /\ i - c = k - written
    BY <1>1, <1>5, <1>6, BufferAssumption
  <2>2. f = InWindow(outbuf', i)
    BY <1>7 DEF OutFrag
  <2> HIDE DEF i
  <2>3. /\ f.data = q[i - c + 1] /\ f.seqID = (outbuf.cur_seq_id + (i - c)) % MaxSeqId
        /\ f.acks = 0 /\ f.retries = 0
        /\ f.start = (i - c = 0) /\ f.end = (i - c = n - 1)
    BY <1>5, <2>1, <2>2
  <2>4. f \in Fragment
    BY <1>8, <2>1, <2>2, UsedInWindow
  <2> HIDE DEF f
  <2>5. f.data = k
    <3>1. i - c + 1 \in 1 .. n
      BY <1>1, <1>6, <2>1
    <3> QED BY <1>1, <1>2, <2>1, <2>3, <3>1
  <2>6. f.seqID = k % MaxSeqId
    <3> DEFINE x == i - c
    <3>1. x \in 0 .. MaxSeqId /\ written + x = k
      BY <1>1, <1>9, <2>1
    <3> HIDE DEF x
    <3>2. ((written % MaxSeqId) + x) % MaxSeqId = (written + x) % MaxSeqId
      BY <1>1, <1>9, <3>1, ModTwice
    <3> QED BY <1>9, <2>3, <3>1, <3>2 DEF x
  <2>7. f.start = (k = written) /\ f.end = (k = written + n - 1)
    <3>1. (i - c = 0) = (k = written)
      BY <1>1, <2>1
    <3>2. (i - c = n - 1) = (k = written + n - 1)
      BY <1>1, <2>1
    <3> QED BY <2>3, <3>1, <3>2
  <2>8. f = [ data |-> k, seqID |-> k % MaxSeqId, start |-> (k = written),
              end |-> (k = written + n - 1), acks |-> 0, retries |-> 0 ]
    BY <2>3, <2>4, <2>5, <2>6, <2>7 DEF Fragment
  <2>9. Unsent(f) = f
    BY <2>3, <2>4 DEF Unsent, Fragment
  <2>10. Frag(k)' = f
    BY <2>8, CutAlike
  <2> QED BY <2>3, <2>9, <2>10 DEF f
<1>12. HoldsStream(outbuf)'
  <2>1. outbuf'.numitems <= written'
    BY <1>1, <1>5, <1>6
  <2>2. outbuf'.cur_seq_id = written' % MaxSeqId
    BY <1>1, <1>5, <1>9, ModTwice
  <2>3. ASSUME NEW k \in FirstHeld(outbuf)' .. written' - 1
        PROVE  /\ Unsent(OutFrag(outbuf, k)') = Frag(k)'
               /\ OutFrag(outbuf, k)'.acks = 1 =>
                      OutFrag(outbuf, k)'.retries = 1 /\ k \in got'
    <3>1. CASE k < written
      <4>1. k \in a .. written - 1
        BY <1>1, <1>6, <1>7, <3>1
      <4>2. /\ Unsent(OutFrag(outbuf, k)) = Frag(k)
            /\ OutFrag(outbuf, k).acks = 1 => OutFrag(outbuf, k).retries = 1 /\ k \in got
        BY <4>1 DEF HoldsStream, a
      <4> QED BY <1>1, <1>10, <4>1, <4>2
    <3>2. CASE ~ (k < written)
      <4>1. k \in written .. written + n - 1
        BY <1>1, <1>6, <1>7, <3>2
      <4> QED BY <1>11, <4>1
    <3> QED BY <3>1, <3>2
  <2> QED BY <2>1, <2>2, <2>3 DEF HoldsStream, Unsent
<1>13. Sent(outbuf)' = Sent(outbuf)
  <2>1. ASSUME NEW k \in 0 .. written - 1
        PROVE  (k >= a => OutFrag(outbuf, k)'.retries = 1) <=>
               (k >= a => OutFrag(outbuf, k).retries = 1)
    <3>1. CASE k >= a
      <4>1. k \in a .. written - 1
        BY <1>1, <1>6, <3>1
      <4> QED BY <1>10, <4>1
    <3> QED BY <3>1
  <2>2. ASSUME NEW k \in written .. written + n - 1
        PROVE  k >= a /\ OutFrag(outbuf, k)'.retries # 1
    BY <1>1, <1>6, <1>11
  <2>3. 0 .. written' - 1 = (0 .. written - 1) \cup (written .. written + n - 1)
    BY <1>1
  <2>4. Sent(outbuf)' = {k \in 0 .. written' - 1 :
                            k >= a => OutFrag(outbuf, k)'.retries = 1}
    BY <1>7 DEF Sent
  <2>5. Sent(outbuf) = {k \in 0 .. written - 1 :
                            k >= a => OutFrag(outbuf, k).retries = 1}
    BY DEF Sent, a
  <2> QED BY <2>1, <2>2, <2>3, <2>4, <2>5
<1> QED BY <1>3, <1>7, <1>12, <1>13 DEF q, a

-----------------------------------------------------------------------------
(* The steps of the two ends and of the path.                              *)

(* The same stream.                                                        *)
LEMMA StreamSame ==
    ASSUME written' = written, offered' = offered, got \subseteq got'
    PROVE  /\ \A k : Frag(k)' = Frag(k)
           /\ Sent(outbuf)' = Sent(outbuf')
           /\ FirstHeld(outbuf)' = FirstHeld(outbuf')
           /\ HoldsStream(outbuf') => HoldsStream(outbuf)'
           /\ Between(outbuf') /\ got' \subseteq Sent(outbuf') => Between(outbuf)'
<1>1. \A k : Frag(k)' = Frag(k)
  BY DEF Frag, Ends
<1>2. /\ FirstHeld(outbuf)' = FirstHeld(outbuf')
      /\ \A k : OutFrag(outbuf, k)' = OutFrag(outbuf', k)
  BY DEF FirstHeld, OutFrag
<1>3. Sent(outbuf)' = Sent(outbuf')
  BY <1>2 DEF Sent
<1>4. ASSUME HoldsStream(outbuf') PROVE HoldsStream(outbuf)'
  <2>1. ASSUME NEW k \in FirstHeld(outbuf') .. written - 1
        PROVE  /\ Unsent(OutFrag(outbuf, k))' = Frag(k)'
               /\ OutFrag(outbuf, k)'.acks = 1 =>
                      OutFrag(outbuf, k)'.retries = 1 /\ k \in got'
    <3>1. /\ Unsent(OutFrag(outbuf', k)) = Frag(k)
          /\ OutFrag(outbuf', k).acks = 1 => OutFrag(outbuf', k).retries = 1 /\ k \in got
      BY <1>4 DEF HoldsStream
    <3>2. Unsent(OutFrag(outbuf, k))' = Unsent(OutFrag(outbuf', k))
      BY <1>2 DEF Unsent
    <3> QED BY <1>1, <1>2, <3>1, <3>2
  <2>2. outbuf'.numitems <= written /\ outbuf'.cur_seq_id = written % MaxSeqId
    BY <1>4 DEF HoldsStream
  <2> QED BY <1>2, <2>1, <2>2 DEF HoldsStream
<1>5. Between(outbuf') /\ got' \subseteq Sent(outbuf') => Between(outbuf)'
  BY <1>2, <1>3 DEF Between
<1> QED BY <1>1, <1>2, <1>3, <1>4, <1>5

(* What the invariant says, unfolded.                                      *)
LEMMA Unfolded ==
    ASSUME IInv
    PROVE  /\ SoundBuffer(outbuf) /\ InFlightBuffer(outbuf)
           /\ HoldsStream(outbuf) /\ Between(outbuf) /\ OnTheWay
           /\ RecvTypeOK /\ StreamCut /\ written \in Nat
BY RecvAssumption DEF IInv, SendIInv, RecvIInv, Link, InFlightBounded, RecvTypeOK

LEMMA ReadTunStep ==
    ASSUME IInv, NEW n \in 1 .. MaxChunk, ReadTun(n)
    PROVE  SendNext /\ RecvNext /\ Link'
<1>1. /\ Queue(Pieces(written, n)) /\ Offer(n)
      /\ fragments' = fragments /\ acks' = acks /\ got' = got
  BY DEF ReadTun, network, Offer
<1>2. /\ Pieces(written, n) \in Packets
      /\ HoldsStream(outbuf)' /\ Sent(outbuf)' = Sent(outbuf)
      /\ FirstHeld(outbuf)' = FirstHeld(outbuf)
  BY <1>1, Unfolded, QueueStream
<1>3. Between(outbuf)'
  BY <1>1, <1>2, Unfolded DEF Between
<1>4. OnTheWay'
  <2>1. \A k \in 0 .. written - 1 : Frag(k)' = Frag(k)
    BY <1>1, Unfolded, CutAlike
  <2>2. \A k : NotStale(k)' <=> NotStale(k)
    BY <1>2 DEF NotStale
  <2>3. ASSUME NEW m \in fragments'
        PROVE  m.data \in Sent(outbuf)' /\ m = Frag(m.data)' /\ NotStale(m.data)'
    <3>1. m.data \in Sent(outbuf) /\ m = Frag(m.data) /\ NotStale(m.data)
      BY <1>1, Unfolded DEF OnTheWay
    <3>2. m.data \in 0 .. written - 1
      BY <3>1 DEF Sent
    <3> QED BY <1>2, <2>1, <2>2, <3>1, <3>2
  <2>4. ASSUME NEW a \in acks'
        PROVE  a.data \in got' /\ NotStale(a.data)' /\ a.seqID = a.data % MaxSeqId
    BY <1>1, <2>2, Unfolded DEF OnTheWay
  <2> QED BY <2>3, <2>4 DEF OnTheWay
<1> QED BY <1>1, <1>2, <1>3, <1>4 DEF SendNext, RecvNext, Link

LEMMA TransmitStep ==
    ASSUME IInv, NEW k \in Data, Transmit(k)
    PROVE  SendNext /\ UNCHANGED recvvars /\ Link'
<1>1. PICK i \in 0 .. SendWindowSize - 1 :
          /\ InWindow(outbuf, i).data = k
          /\ SendFrag(i)
          /\ fragments' = Young(k) \cup {[InWindow(outbuf, i) EXCEPT !.retries = 0]}
          /\ acks' = YoungAcks(k)
          /\ UNCHANGED <<receiver, stream, got>>
  BY DEF Transmit
<1>2. UNCHANGED recvvars /\ written' = written /\ offered' = offered /\ got' = got
  BY <1>1 DEF recvvars, receiver, stream
<1> DEFINE w == MarkSent(outbuf, i)
           n == FirstHeld(outbuf) + i
           f == InWindow(outbuf, i)
<1>3. i \in Sendable(outbuf, SendWindowSize) /\ outbuf' = window_tick_sending(w, SendWindowSize)
  BY <1>1 DEF SendFrag
<1>4. /\ n \in FirstHeld(outbuf) .. written - 1
      /\ OutFrag(outbuf, n) = f /\ f.acks = 0
      /\ HoldsStream(w) /\ Between(w) /\ Sent(w) = Sent(outbuf) \cup {n}
      /\ SoundBuffer(w) /\ InFlightBuffer(w)
  BY <1>3, Unfolded, MarkStream, MarkInFlight
<1>5. /\ FirstHeld(outbuf) \in Nat /\ f \in Fragment
      /\ n - FirstHeld(outbuf) < outbuf.numitems
  BY <1>4, Unfolded, HeldFacts DEF HoldsStream
<1>6. FirstHeld(w) = FirstHeld(outbuf) /\ w.numitems <= written
  <2>1. w.numitems = outbuf.numitems
    BY <1>3, Unfolded, MarkInFlight, MarkSound
  <2> QED BY <1>4, <2>1 DEF FirstHeld, HoldsStream
<1> HIDE DEF w, n, f
<1>7. HoldsStream(outbuf') /\ Between(outbuf') /\ Sent(outbuf') = Sent(outbuf) \cup {n}
  BY <1>3, <1>4, Unfolded, TickStream
<1>8. k = n /\ [f EXCEPT !.retries = 0] = Frag(k)
  <2>1. Unsent(f) = Frag(n)
    BY <1>4, Unfolded DEF HoldsStream
  <2>2. Frag(n).data = n
    BY DEF Frag
  <2> QED BY <1>1, <1>4, <1>5, <2>1, <2>2, FlagFacts DEF f
<1>9. ASSUME NEW j \in Sent(outbuf') PROVE j <= k + MaxAge
  <2>1. j \in Nat /\ j < FirstHeld(w) + SendWindowSize
    BY <1>4, <1>6, <1>7, Unfolded, SentInWindow
  <2>2. k >= FirstHeld(w) /\ k \in Nat
    BY <1>4, <1>5, <1>6, <1>8
  <2> QED BY <1>5, <1>6, <2>1, <2>2, TransferAssumption, SendAssumption, RecvAssumption,
             BufferAssumption
<1>10. /\ HoldsStream(outbuf)' /\ Between(outbuf)' /\ Sent(outbuf)' = Sent(outbuf')
       /\ \A x : Frag(x)' = Frag(x)
  BY <1>2, <1>7, StreamSame DEF Between
<1>11. OnTheWay'
  <2>1. ASSUME NEW x, NotStale(x), k <= x + MaxAge PROVE NotStale(x)'
    BY <1>7, <1>8, <1>10, <2>1 DEF NotStale
  <2>2. ASSUME NEW m \in fragments'
        PROVE  m.data \in Sent(outbuf)' /\ m = Frag(m.data)' /\ NotStale(m.data)'
    <3>1. CASE m \in Young(k)
      <4>1. m \in fragments /\ k <= m.data + MaxAge
        BY <3>1 DEF Young
      <4>2. m.data \in Sent(outbuf) /\ m = Frag(m.data) /\ NotStale(m.data)
        BY <4>1, Unfolded DEF OnTheWay
      <4> QED BY <1>7, <1>10, <2>1, <4>1, <4>2
    <3>2. CASE m \notin Young(k)
      <4>1. m = Frag(k)
        BY <1>1, <1>8, <3>2 DEF f
      <4>2. m.data = k
        BY <4>1 DEF Frag
      <4>3. NotStale(k)'
        BY <1>9, <1>10 DEF NotStale
      <4> QED BY <1>7, <1>8, <1>10, <4>1, <4>2, <4>3
    <3> QED BY <3>1, <3>2
  <2>3. ASSUME NEW a \in acks'
        PROVE  a.data \in got' /\ NotStale(a.data)' /\ a.seqID = a.data % MaxSeqId
    <3>1. a \in acks /\ k <= a.data + MaxAge
      BY <1>1 DEF YoungAcks
    <3>2. a.data \in got /\ NotStale(a.data) /\ a.seqID = a.data % MaxSeqId
      BY <3>1, Unfolded DEF OnTheWay
    <3> QED BY <1>2, <2>1, <3>1, <3>2
  <2> QED BY <2>2, <2>3 DEF OnTheWay
<1>12. SendNext
  BY <1>1 DEF SendNext
<1> QED BY <1>2, <1>10, <1>11, <1>12 DEF Link

(* The fragments that reach the receiver are those it expects.             *)
LEMMA ArriveFragStep ==
    ASSUME IInv, NEW k \in Data, ArriveFrag(k)
    PROVE  RecvNext /\ UNCHANGED sendvars /\ Link'
<1>1. PICK m \in fragments :
          /\ m.data = k /\ TunnelDns(m) /\ got' = got \cup {k}
          /\ fragments' \subseteq fragments
          /\ acks' = acks \cup {[seqID |-> m.seqID, data |-> k]}
          /\ outbuf' = outbuf /\ written' = written /\ offered' = offered
  BY DEF ArriveFrag, stream
<1>2. /\ k \in Sent(outbuf) /\ m = Frag(k) /\ NotStale(k)
      /\ k \in Nat /\ k < FirstHeld(outbuf) + SendWindowSize
      /\ k \in 0 .. written - 1 /\ got \subseteq Sent(outbuf)
  <2>1. k \in Sent(outbuf) /\ m = Frag(k) /\ NotStale(k)
    BY <1>1, Unfolded DEF OnTheWay
  <2> QED BY <2>1, Unfolded, SentInWindow DEF Sent, Between, HoldsStream
<1>3. MayArrive(k)
  <2>1. ASSUME k >= SendWindowSize, NEW x \in 0 .. k - SendWindowSize PROVE x \in got
    <3>1. FirstHeld(outbuf) \in Nat
      BY Unfolded, HeldFacts DEF HoldsStream
    <3>2. x \in 0 .. FirstHeld(outbuf) - 1
      BY <1>2, <2>1, <3>1, SendAssumption, BufferAssumption
    <3> QED BY <3>2, Unfolded DEF Between
  <2>2. ASSUME NEW j \in got PROVE j <= k + MaxAge
    BY <1>2 DEF NotStale
  <2> QED BY <2>1, <2>2 DEF MayArrive
<1>4. RecvNext
  <2>1. Arrive(k)
    BY <1>1, <1>2, <1>3 DEF Arrive
  <2> QED BY <1>2, <2>1 DEF RecvNext
<1>5. /\ HoldsStream(outbuf)' /\ Between(outbuf)' /\ Sent(outbuf)' = Sent(outbuf)
      /\ \A x : Frag(x)' = Frag(x)
  <2>1. Sent(outbuf') = Sent(outbuf) /\ HoldsStream(outbuf') /\ Between(outbuf')
    BY <1>1, Unfolded
  <2>2. got \subseteq got' /\ got' \subseteq Sent(outbuf')
    BY <1>1, <1>2, <2>1
  <2> QED BY <1>1, <2>1, <2>2, StreamSame
<1>6. OnTheWay'
  <2>1. \A x : NotStale(x)' <=> NotStale(x)
    BY <1>5 DEF NotStale
  <2>2. ASSUME NEW x \in fragments'
        PROVE  x.data \in Sent(outbuf)' /\ x = Frag(x.data)' /\ NotStale(x.data)'
    <3>1. x.data \in Sent(outbuf) /\ x = Frag(x.data) /\ NotStale(x.data)
      BY <1>1, Unfolded DEF OnTheWay
    <3> QED BY <1>5, <2>1, <3>1
  <2>3. ASSUME NEW a \in acks'
        PROVE  a.data \in got' /\ NotStale(a.data)' /\ a.seqID = a.data % MaxSeqId
    <3>1. CASE a \in acks
      BY <1>1, <2>1, <3>1, Unfolded DEF OnTheWay
    <3>2. CASE a \notin acks
      <4>1. a.data = k /\ a.seqID = m.seqID
        BY <1>1, <3>2
      <4>2. m.seqID = k % MaxSeqId
        BY <1>2 DEF Frag
      <4> QED BY <1>1, <1>2, <2>1, <4>1, <4>2
    <3> QED BY <3>1, <3>2
  <2> QED BY <2>2, <2>3 DEF OnTheWay
<1>7. UNCHANGED sendvars
  BY <1>1 DEF sendvars
<1> QED BY <1>4, <1>5, <1>6, <1>7 DEF Link

LEMMA ArriveAckStep ==
    ASSUME IInv, NEW k \in Data, ArriveAck(k)
    PROVE  SendNext /\ UNCHANGED recvvars /\ Link'
<1>1. PICK a \in acks :
          /\ a.data = k /\ TakeAck(a.seqID)
          /\ acks' \subseteq acks /\ fragments' = fragments
          /\ UNCHANGED <<receiver, stream, got>>
  BY DEF ArriveAck
<1>2. UNCHANGED recvvars /\ written' = written /\ offered' = offered /\ got' = got
  BY <1>1 DEF recvvars, receiver, stream
<1>3. k \in got /\ NotStale(k) /\ a.seqID = k % MaxSeqId
  BY <1>1, Unfolded DEF OnTheWay
<1> DEFINE w == window_ack(outbuf, SendWindowSize, k % MaxSeqId)
<1>4. /\ HoldsStream(w) /\ Between(w) /\ Sent(w) = Sent(outbuf)
  BY <1>3, Unfolded, AckStream DEF NotStale
<1>5. k % MaxSeqId \in SeqIds
  BY SeqType, RecvAssumption
<1>6. SoundBuffer(w) /\ outbuf' = window_tick_sending(w, SendWindowSize)
  BY <1>1, <1>3, <1>5, Unfolded, AckSound DEF TakeAck
<1> HIDE DEF w
<1>7. HoldsStream(outbuf') /\ Between(outbuf') /\ Sent(outbuf') = Sent(outbuf)
  BY <1>4, <1>6, Unfolded, TickStream
<1>8. /\ HoldsStream(outbuf)' /\ Between(outbuf)' /\ Sent(outbuf)' = Sent(outbuf)
      /\ \A x : Frag(x)' = Frag(x)
  BY <1>2, <1>7, StreamSame DEF Between
<1>9. OnTheWay'
  <2>1. \A x : NotStale(x)' <=> NotStale(x)
    BY <1>8 DEF NotStale
  <2> QED BY <1>1, <1>2, <1>8, <2>1, Unfolded DEF OnTheWay
<1>10. SendNext
  BY <1>1, <1>3, <1>5 DEF SendNext
<1> QED BY <1>2, <1>8, <1>9, <1>10 DEF Link

(* What is lost, or a step of something else, leaves the two ends alone.    *)
LEMMA LoseStep ==
    ASSUME IInv, fragments' \subseteq fragments, acks' \subseteq acks,
           UNCHANGED <<outbuf, receiver, stream, got>>
    PROVE  UNCHANGED sendvars /\ UNCHANGED recvvars /\ Link'
<1>1. /\ UNCHANGED recvvars /\ UNCHANGED sendvars /\ outbuf' = outbuf
      /\ written' = written /\ offered' = offered /\ got' = got
  BY DEF recvvars, sendvars, receiver, stream
<1>2. HoldsStream(outbuf') /\ Between(outbuf') /\ Sent(outbuf') = Sent(outbuf)
  BY <1>1, Unfolded
<1>3. /\ HoldsStream(outbuf)' /\ Between(outbuf)' /\ Sent(outbuf)' = Sent(outbuf)
      /\ \A x : Frag(x)' = Frag(x)
  BY <1>1, <1>2, StreamSame DEF Between
<1>4. OnTheWay'
  <2>1. \A x : NotStale(x)' <=> NotStale(x)
    BY <1>3 DEF NotStale
  <2> QED BY <1>1, <1>3, <2>1, Unfolded DEF OnTheWay
<1> QED BY <1>1, <1>3, <1>4 DEF Link

LEMMA InitIInv == Init => IInv
<1> SUFFICES ASSUME Init PROVE IInv
  OBVIOUS
<1>1. SendIInv /\ RecvIInv
  BY SendInitIInv, RecvInitIInv DEF Init
<1>2. /\ outbuf.numitems = 0 /\ outbuf.cur_seq_id = 0
      /\ written = 0 /\ got = {} /\ fragments = {} /\ acks = {}
  BY DEF Init, SendInit, RecvInit, window_buffer_init
<1>3. 0 % MaxSeqId = 0
  BY BufferAssumption
<1>4. FirstHeld(outbuf) = 0
  BY <1>2 DEF FirstHeld
<1>5. Link
  BY <1>2, <1>3, <1>4 DEF Link, HoldsStream, Between, OnTheWay
<1> QED BY <1>1, <1>5 DEF IInv

(* Each step is a step of the sending end, of the receiving end, of both,   *)
(* or of neither.                                                          *)
LEMMA StepsOfEnds ==
    ASSUME IInv, [Next]_vars
    PROVE  [SendNext]_sendvars /\ [RecvNext]_recvvars /\ Link'
<1>1. ASSUME NEW n \in 1 .. MaxChunk, ReadTun(n)
      PROVE  [SendNext]_sendvars /\ [RecvNext]_recvvars /\ Link'
  BY <1>1, ReadTunStep
<1>2. ASSUME NEW k \in Data, Transmit(k)
      PROVE  [SendNext]_sendvars /\ [RecvNext]_recvvars /\ Link'
  BY <1>2, TransmitStep
<1>3. ASSUME NEW k \in Data, ArriveFrag(k)
      PROVE  [SendNext]_sendvars /\ [RecvNext]_recvvars /\ Link'
  BY <1>3, ArriveFragStep
<1>4. ASSUME NEW k \in Data, ArriveAck(k)
      PROVE  [SendNext]_sendvars /\ [RecvNext]_recvvars /\ Link'
  BY <1>4, ArriveAckStep
<1>5. CASE Lose
  <2>1. /\ fragments' \subseteq fragments /\ acks' \subseteq acks
        /\ UNCHANGED <<outbuf, receiver, stream, got>>
    BY <1>5 DEF Lose
  <2> QED BY <2>1, LoseStep
<1>6. CASE UNCHANGED vars
  <2>1. /\ fragments' \subseteq fragments /\ acks' \subseteq acks
        /\ UNCHANGED <<outbuf, receiver, stream, got>>
    BY <1>6 DEF vars, receiver, stream
  <2> QED BY <2>1, LoseStep
<1> QED BY <1>1, <1>2, <1>3, <1>4, <1>5, <1>6 DEF Next

LEMMA NextIInv == IInv /\ [Next]_vars => IInv'
<1> SUFFICES ASSUME IInv, [Next]_vars PROVE IInv'
  OBVIOUS
<1>1. [SendNext]_sendvars /\ [RecvNext]_recvvars /\ Link'
  BY StepsOfEnds
<1>2. SendIInv /\ RecvIInv
  BY DEF IInv
<1>3. SendIInv' /\ RecvIInv'
  BY <1>1, <1>2, SendNextIInv, RecvNextIInv
<1> QED BY <1>1, <1>3 DEF IInv

LEMMA SpecIInv == Spec => []IInv
BY InitIInv, NextIInv, PTL DEF Spec

-----------------------------------------------------------------------------
(* The theorems.                                                           *)

(* The sender of window.c is the one its receiver relies on: what arrives   *)
(* lies in the window of a sender that goes on only when the first fragment *)
(* of the window has arrived.                                              *)
THEOREM SenderKeepsWindow == Spec => ImplementsReceiver
<1>1. Init => RecvInit
  BY DEF Init
<1>2. IInv /\ [Next]_vars => [RecvNext]_recvvars
  BY StepsOfEnds
<1> QED BY <1>1, <1>2, SpecIInv, PTL DEF Spec, ImplementsReceiver, RecvSpec

(* So every packet read at one end is written at the other, whole, once and *)
(* in the order of the stream, whatever the path does.                     *)
THEOREM EndToEnd == Spec => ImplementsFifo
BY SenderKeepsWindow, InOrderOnce DEF ImplementsReceiver

(* No fragment is released that has not arrived.                           *)
THEOREM ReleasedHaveArrived == Spec => []ReleasedArrived
<1>1. IInv => ReleasedArrived
  BY DEF IInv, Link, Between, FirstHeld, ReleasedArrived, Released
<1> QED BY <1>1, SpecIInv, PTL

(* Every fragment read is out, in the receiver's buffer or in the sender's. *)
THEOREM NothingIsLost == Spec => []NothingLost
<1>1. IInv /\ AckedIsKept => NothingLost
  <2> SUFFICES ASSUME IInv, AckedIsKept, NEW k \in 0 .. written - 1,
                      ~ (k < out), ~ (k >= Released)
               PROVE  \E s \in Slots : inbuf.frags[s].data = k
    BY DEF NothingLost
  <2>1. Released = FirstHeld(outbuf) /\ Released \in Nat
    BY Unfolded, HeldFacts DEF Released, FirstHeld, HoldsStream
  <2>2. k \in 0 .. Released - 1
    BY <2>1
  <2>3. k \in got
    BY <2>1, <2>2, Unfolded DEF Between
  <2> QED BY <2>3 DEF AckedIsKept
<1>2. Spec => RecvSpec
  BY SenderKeepsWindow DEF ImplementsReceiver
<1> QED BY <1>1, <1>2, SpecIInv, AckedAlwaysKept, PTL

(* The two windows stay together.                                          *)
THEOREM WindowsAlwaysMeet == Spec => []WindowsMeet
<1>1. IInv => WindowsMeet
  <2> SUFFICES ASSUME IInv PROVE WindowsMeet
    OBVIOUS
  <2>1. PICK m \in 0 .. MaxFrags : InvAt(m)
    BY DEF IInv, RecvIInv
  <2>2. /\ m \in Nat /\ m \notin got /\ 0 .. m - 1 \subseteq got
        /\ inbuf.start_seq_id = m % MaxSeqId
    BY <2>1, RecvAssumption DEF InvAt
  <2>3. Released = FirstHeld(outbuf) /\ Released \in Nat
    BY Unfolded, HeldFacts DEF Released, FirstHeld, HoldsStream
  <2>4. m >= Released
    <3>1. m < Released => m \in 0 .. Released - 1
      BY <2>2, <2>3
    <3> QED BY <2>2, <2>3, <3>1, Unfolded DEF Between
  <2>5. m <= Released + SendWindowSize
    <3>1. CASE m = 0
      BY <2>3, <3>1, SendAssumption, BufferAssumption
    <3>2. CASE m # 0
      <4>1. m - 1 \in got
        BY <2>2, <3>2
      <4>2. m - 1 \in Sent(outbuf)
        BY <4>1, Unfolded DEF Between
      <4>3. m - 1 < FirstHeld(outbuf) + SendWindowSize
        BY <4>2, Unfolded, SentInWindow DEF HoldsStream
      <4> QED BY <2>2, <2>3, <4>3, SendAssumption, BufferAssumption
    <3> QED BY <3>1, <3>2
  <2>6. m \in Released .. Released + SendWindowSize
    BY <2>2, <2>3, <2>4, <2>5, SendAssumption, BufferAssumption
  <2> QED BY <2>2, <2>6 DEF WindowsMeet
<1> QED BY <1>1, SpecIInv, PTL

=============================================================================
