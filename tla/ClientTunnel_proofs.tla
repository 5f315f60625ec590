------------------------- MODULE ClientTunnel_proofs -------------------------
(***************************************************************************)
(* Proofs about the client's account of its queries, for tables and id      *)
(* ranges of any size and every order in which answers arrive, are lost or  *)
(* come twice: the counters cover what they count, and an acknowledgement   *)
(* is never overwritten.                                                   *)
(***************************************************************************)
EXTENDS ClientTunnel, FiniteSetTheorems, WellFoundedInduction, TLAPS

(* The types of the variables the table is computed from.                  *)
Shape ==
    /\ track \in Table
    /\ chunkid \in QueryIds
    /\ next_downstream_ack \in Fragments \cup {NoAck}

(* While the client waits it has nothing to acknowledge: the loop has sent  *)
(* what there was.                                                         *)
AckedWhileWaiting == at = "select" => next_downstream_ack = NoAck

IInv == Shape /\ TimedOutCounted /\ PendingCovered /\ AckedWhileWaiting

-----------------------------------------------------------------------------
(* The table of queries.                                                   *)

LEMMA FirstIsMember ==
    ASSUME NEW S \in SUBSET Entries, S # {}
    PROVE  First(S) \in S
<1> DEFINE R == {p \in Nat \X Nat : p[1] < p[2]}
<1>1. IsWellFoundedOn(R, Nat)
  BY NatLessThanWellFounded DEF OpToRel
<1>2. S \subseteq Nat
  BY TableAssumption DEF Entries
<1>3. PICK x \in S : \A y \in S : ~ (<<y, x>> \in R)
  <2> HIDE DEF R
  <2> QED BY <1>1, <1>2, WFMin
<1>4. ASSUME NEW y \in S PROVE x <= y
  <2>1. x \in Nat /\ y \in Nat /\ ~ (<<y, x>> \in R)
    BY <1>2, <1>3
  <2> QED BY <2>1
<1> QED BY <1>4 DEF First

(* Sets of entries are finite, and there are at most PendingLength.         *)
LEMMA EntrySets ==
    ASSUME NEW S \in SUBSET Entries
    PROVE  IsFiniteSet(S) /\ Cardinality(S) \in 0 .. PendingLength
<1>1. IsFiniteSet(Entries) /\ Cardinality(Entries) = PendingLength
  BY FS_Interval, TableAssumption DEF Entries
<1>2. IsFiniteSet(S) /\ Cardinality(S) <= Cardinality(Entries)
  BY <1>1, FS_Subset
<1> QED BY <1>1, <1>2, FS_CardinalityType, TableAssumption

(* check_pending_queries: the overdue entries go from waiting to given up,  *)
(* and the counters follow.                                                *)
LEMMA CheckEffect ==
    ASSUME NEW t \in Table, NEW overdue \in SUBSET Waiting(t),
           Cardinality(GivenUp(t)) <= t.num_timeouts
    PROVE  LET u == check_pending_queries(t, overdue)
           IN  /\ u \in Table
               /\ Cardinality(GivenUp(u)) <= u.num_timeouts
               /\ Cardinality(Waiting(u)) <= u.num_pending
<1> DEFINE u == check_pending_queries(t, overdue)
<1>1. /\ t.entry \in [Entries -> Entry] /\ t.num_timeouts \in Nat
      /\ overdue \subseteq Entries
      /\ Waiting(t) \subseteq Entries /\ GivenUp(t) \subseteq Entries
  BY DEF Table, Waiting, GivenUp
<1>2. /\ u.entry = GiveUp(t, overdue)
      /\ u.num_pending = Cardinality(Waiting(t))
      /\ u.num_timeouts = Saturated(t.num_timeouts + Cardinality(overdue))
  BY DEF check_pending_queries
<1>3. ASSUME NEW i \in Entries
      PROVE  /\ GiveUp(t, overdue)[i] \in Entry
             /\ GiveUp(t, overdue)[i].id = t.entry[i].id
             /\ i \in overdue => GiveUp(t, overdue)[i].timed = FALSE
             /\ i \notin overdue => GiveUp(t, overdue)[i] = t.entry[i]
  BY <1>1 DEF GiveUp, Entry
<1>4. GiveUp(t, overdue) \in [Entries -> Entry]
  <2> DEFINE f(i) == IF i \in overdue THEN [t.entry[i] EXCEPT !.timed = FALSE] ELSE t.entry[i]
  <2>1. \A i \in Entries : f(i) \in Entry
    BY <1>1 DEF Entry
  <2> QED BY <2>1 DEF GiveUp
<1>5. Waiting(u) = Waiting(t) \ overdue
  BY <1>1, <1>2, <1>3 DEF Waiting
<1>6. GivenUp(u) = GivenUp(t) \cup overdue
  <2> HIDE DEF u
  <2>1. ASSUME NEW i \in overdue PROVE i \in GivenUp(u)
    BY <1>1, <1>2, <1>3 DEF GivenUp, Waiting
  <2>2. ASSUME NEW i \in Entries \ overdue PROVE i \in GivenUp(u) <=> i \in GivenUp(t)
    BY <1>2, <1>3 DEF GivenUp
  <2>3. GivenUp(u) \subseteq Entries
    BY DEF GivenUp
  <2> QED BY <1>1, <2>1, <2>2, <2>3
<1>7. /\ Cardinality(GivenUp(t)) \in Nat /\ Cardinality(overdue) \in Nat
      /\ Cardinality(Waiting(t)) \in Nat
      /\ Cardinality(GivenUp(u)) <= PendingLength
  <2>1. GivenUp(u) \subseteq Entries
    BY DEF GivenUp
  <2> QED BY <1>1, <2>1, EntrySets, TableAssumption
<1>8. Cardinality(GivenUp(u)) <= Cardinality(GivenUp(t)) + Cardinality(overdue)
  <2>1. GivenUp(t) \cap overdue = {}
    BY DEF GivenUp, Waiting
  <2>2. /\ IsFiniteSet(GivenUp(t)) /\ IsFiniteSet(overdue)
    BY <1>1, EntrySets
  <2>3. Cardinality(GivenUp(t) \cup overdue)
            = Cardinality(GivenUp(t)) + Cardinality(overdue) - Cardinality({})
    BY <2>1, <2>2, FS_Union
  <2> QED BY <1>6, <1>7, <2>3, FS_EmptySet
<1>9. Cardinality(GivenUp(u)) <= u.num_timeouts /\ u.num_timeouts \in Nat
  <2> HIDE DEF u
  <2> DEFINE given == Cardinality(GivenUp(u))
             old   == Cardinality(GivenUp(t))
             more  == Cardinality(overdue)
  <2>0. given \in Nat
    <3>1. GivenUp(u) \subseteq Entries
      BY DEF GivenUp
    <3> QED BY <3>1, EntrySets
  <2>1. old \in Nat /\ more \in Nat /\ given <= PendingLength /\ given <= old + more
        /\ old <= t.num_timeouts
    BY <1>7, <1>8
  <2>2. u.num_timeouts = Saturated(t.num_timeouts + more)
    BY <1>2
  <2> HIDE DEF given, old, more
  <2>3. given <= u.num_timeouts /\ u.num_timeouts \in Nat
    BY <1>1, <2>0, <2>1, <2>2, TableAssumption DEF Saturated
  <2> QED BY <2>3 DEF given
<1>10. Cardinality(Waiting(u)) <= u.num_pending
  BY <1>1, <1>2, <1>5, EntrySets, FS_Subset
<1>11. u \in Table
  BY <1>2, <1>4, <1>7, <1>9 DEF check_pending_queries, Table
<1> QED BY <1>9, <1>10, <1>11

(* query_sent_now: one more entry waits, if there is room, and none is      *)
(* given up that was not.                                                  *)
LEMMA SentEffect ==
    ASSUME NEW t \in Table, NEW id \in QueryIds,
           Cardinality(GivenUp(t)) <= t.num_timeouts
    PROVE  LET u == query_sent_now(t, id)
           IN  /\ u \in Table
               /\ Cardinality(GivenUp(u)) <= u.num_timeouts
               /\ Cardinality(Waiting(t)) <= t.num_pending
                      => Cardinality(Waiting(u)) <= u.num_pending
<1> DEFINE u    == query_sent_now(t, id)
           free == {i \in Entries : t.entry[i].id = NoId}
           room == IF free # {} THEN free ELSE {i \in Entries : ~ t.entry[i].timed}
           new  == First(room)
           e    == [id |-> id, timed |-> TRUE]
<1>1. /\ t.entry \in [Entries -> Entry] /\ t.num_timeouts \in Nat /\ t.num_pending \in Nat
      /\ t = [entry |-> t.entry, num_pending |-> t.num_pending, num_timeouts |-> t.num_timeouts]
      /\ Waiting(t) \subseteq Entries /\ GivenUp(t) \subseteq Entries
  BY DEF Table, Waiting, GivenUp
<1>2. CASE room = {}
  <2>1. u = t
    BY <1>2 DEF query_sent_now
  <2> QED BY <2>1
<1>3. CASE room # {}
  <2>1. new \in room /\ new \in Entries
    <3>1. room \in SUBSET Entries
      OBVIOUS
    <3> QED BY <1>3, <3>1, FirstIsMember
  <2>2. u = [t EXCEPT !.entry[new] = e, !.num_pending = @ + 1]
    BY <1>3 DEF query_sent_now
  <2> HIDE DEF u, new, room
  <2>3. e \in Entry /\ e.id # NoId /\ e.timed
    BY TableAssumption DEF Entry, QueryIds, NoId
  <2> HIDE DEF e
  <2>4. /\ u.entry = [t.entry EXCEPT ![new] = e]
        /\ u.num_pending = t.num_pending + 1
        /\ u.num_timeouts = t.num_timeouts
    BY <1>1, <2>2
  <2>5. u \in Table
    <3>1. u = [entry |-> [t.entry EXCEPT ![new] = e], num_pending |-> t.num_pending + 1,
               num_timeouts |-> t.num_timeouts]
      BY <1>1, <2>2
    <3>2. [t.entry EXCEPT ![new] = e] \in [Entries -> Entry]
      BY <1>1, <2>1, <2>3
    <3> QED BY <1>1, <3>1, <3>2 DEF Table
  <2>6. GivenUp(u) \subseteq GivenUp(t)
    BY <1>1, <2>1, <2>3, <2>4 DEF GivenUp
  <2>7. Waiting(u) \subseteq Waiting(t) \cup {new}
    BY <1>1, <2>1, <2>3, <2>4 DEF Waiting
  <2>8. Cardinality(GivenUp(u)) <= Cardinality(GivenUp(t))
    BY <1>1, <2>6, EntrySets, FS_Subset
  <2>9. Cardinality(Waiting(u)) <= Cardinality(Waiting(t)) + 1
    <3>1. IsFiniteSet(Waiting(t)) /\ Cardinality(Waiting(t)) \in Nat
      BY <1>1, EntrySets
    <3>2. /\ IsFiniteSet(Waiting(t) \cup {new})
          /\ Cardinality(Waiting(t) \cup {new}) =
                 IF new \in Waiting(t) THEN Cardinality(Waiting(t))
                                       ELSE Cardinality(Waiting(t)) + 1
      BY <3>1, FS_AddElement
    <3>3. Waiting(u) \in SUBSET (Waiting(t) \cup {new})
      BY <2>7
    <3>4. IsFiniteSet(Waiting(u)) /\ Cardinality(Waiting(u)) <= Cardinality(Waiting(t) \cup {new})
      BY <3>2, <3>3, FS_Subset
    <3> QED BY <3>1, <3>2, <3>4, FS_CardinalityType
  <2>10. /\ Cardinality(GivenUp(t)) \in Nat /\ Cardinality(GivenUp(u)) \in Nat
         /\ Cardinality(Waiting(t)) \in Nat /\ Cardinality(Waiting(u)) \in Nat
    <3>1. GivenUp(u) \subseteq Entries /\ Waiting(u) \subseteq Entries
      BY DEF GivenUp, Waiting
    <3> QED BY <1>1, <3>1, EntrySets
  <2>11. Cardinality(GivenUp(u)) <= u.num_timeouts
    BY <1>1, <2>4, <2>8, <2>10
  <2>12. Cardinality(Waiting(t)) <= t.num_pending => Cardinality(Waiting(u)) <= u.num_pending
    BY <1>1, <2>4, <2>9, <2>10
  <2> QED BY <2>5, <2>11, <2>12 DEF u
<1> QED BY <1>2, <1>3

(* got_response: an entry that was given up is counted off when it is       *)
(* freed, and only then; the count cannot be 0 at that point.              *)
LEMMA ResponseEffect ==
    ASSUME NEW t \in Table, NEW id \in QueryIds,
           Cardinality(GivenUp(t)) <= t.num_timeouts
    PROVE  LET u == got_response(t, id)
           IN  u \in Table /\ Cardinality(GivenUp(u)) <= u.num_timeouts
<1> DEFINE u      == got_response(t, id)
           hits   == {i \in Entries : id # NoId /\ t.entry[i].id = id}
           passed == IF t.num_timeouts > 0 THEN {} ELSE hits \cap GivenUp(t)
           taken  == hits \ passed
           seen   == IF taken = {} THEN hits ELSE {i \in hits : i <= First(taken)}
           left   == IF t.num_pending > Cardinality(seen)
                     THEN t.num_pending - Cardinality(seen) ELSE 0
           fewer  == [t EXCEPT !.num_pending = left]
           i0     == First(taken)
<1>1. /\ t.entry \in [Entries -> Entry] /\ t.num_timeouts \in Nat /\ t.num_pending \in Nat
      /\ t = [entry |-> t.entry, num_pending |-> t.num_pending, num_timeouts |-> t.num_timeouts]
      /\ GivenUp(t) \subseteq Entries
  BY DEF Table, GivenUp
<1>2. left \in Nat
  <2>1. seen \in SUBSET Entries
    OBVIOUS
  <2> HIDE DEF hits, passed, taken, seen
  <2>2. Cardinality(seen) \in Nat
    BY <2>1, EntrySets
  <2> QED BY <1>1, <2>2
<1>3. /\ u = IF taken = {} THEN fewer
             ELSE [fewer EXCEPT !.entry[i0] = Free,
                                !.num_timeouts = IF i0 \in GivenUp(t) THEN @ - 1 ELSE @]
  BY <1>1 DEF got_response
<1>4. i0 \in taken \/ taken = {}
  <2>1. taken \in SUBSET Entries
    OBVIOUS
  <2> QED BY <2>1, FirstIsMember
<1>5. i0 \in GivenUp(t) /\ taken # {} => t.num_timeouts > 0
  BY <1>1, <1>4
<1>6. taken # {} => i0 \in Entries
  BY <1>4
<1> HIDE DEF left, i0
<1>7. /\ fewer \in Table /\ fewer.entry = t.entry /\ fewer.num_timeouts = t.num_timeouts
      /\ fewer.num_pending = left
  BY <1>1, <1>2 DEF Table
<1>8. CASE taken = {}
  <2>1. u = fewer
    BY <1>3, <1>8
  <2> HIDE DEF u, fewer
  <2>2. GivenUp(u) = GivenUp(t)
    BY <1>7, <2>1 DEF GivenUp
  <2> QED BY <1>7, <2>1, <2>2 DEF u
<1>9. CASE taken # {}
  <2> DEFINE n == IF i0 \in GivenUp(t) THEN t.num_timeouts - 1 ELSE t.num_timeouts
             f == [t.entry EXCEPT ![i0] = Free]
  <2>1. i0 \in Entries /\ n \in Nat
    BY <1>1, <1>5, <1>6, <1>9
  <2>2. u = [fewer EXCEPT !.entry[i0] = Free,
                          !.num_timeouts = IF i0 \in GivenUp(t) THEN @ - 1 ELSE @]
    BY <1>3, <1>9
  <2>3. fewer = [entry |-> t.entry, num_pending |-> left, num_timeouts |-> t.num_timeouts]
    BY <1>1, <1>7
  <2> HIDE DEF u, fewer, taken
  <2>4. u = [entry |-> f, num_pending |-> left, num_timeouts |-> n]
    BY <2>2, <2>3
  <2>5. f \in [Entries -> Entry]
    BY <1>1, <2>1 DEF Free, Entry
  <2>6. /\ u.entry = f /\ u.num_pending = left /\ u.num_timeouts = n
    BY <2>4
  <2>7. u \in Table
    <3> HIDE DEF f, n
    <3> QED BY <1>2, <2>1, <2>4, <2>5 DEF Table
  <2>8. GivenUp(u) = GivenUp(t) \ {i0}
    BY <1>1, <2>1, <2>6 DEF GivenUp, Free
  <2>9. IsFiniteSet(GivenUp(t)) /\ Cardinality(GivenUp(t)) \in Nat
    BY <1>1, EntrySets
  <2>10. Cardinality(GivenUp(t) \ {i0}) = IF i0 \in GivenUp(t) THEN Cardinality(GivenUp(t)) - 1
                                                            ELSE Cardinality(GivenUp(t))
    BY <2>9, FS_RemoveElement
  <2>11. Cardinality(GivenUp(u)) <= n
    BY <1>1, <2>8, <2>9, <2>10
  <2> QED BY <2>6, <2>7, <2>11 DEF u
<1> QED BY <1>8, <1>9

-----------------------------------------------------------------------------
(* The ids of queries.                                                     *)

LEMMA NextIds ==
    ASSUME NEW id \in QueryIds
    PROVE  IdsAfter(id) \subseteq QueryIds
<1> DEFINE n == (id + 1) % NumIds
<1>1. n \in QueryIds
  BY TableAssumption DEF QueryIds
<1>2. IdsAfter(id) = IF n = 0 THEN RandomIds ELSE {n}
  BY DEF IdsAfter
<1> HIDE DEF n
<1> QED BY <1>1, <1>2, TunnelAssumption

(* The ids reached by the queries of handshake_switch_options are ids. The  *)
(* recursive definition is unfolded as often as there are tries.           *)
LEMMA TriedIds ==
    ASSUME chunkid \in QueryIds
    PROVE  \A n \in 0 .. Tries : IdsAfterTries[n] \subseteq QueryIds
<1> DEFINE On(S) == UNION {IdsAfter(id) : id \in S}
           s0 == {chunkid}
           s1 == On(s0)
           s2 == On(s1)
           s3 == On(s2)
           s4 == On(s3)
           s5 == On(s4)
           Fits(f) == f = [n \in 0 .. Tries |-> IF n = 0 THEN s0 ELSE On(f[n - 1])]
           g == [n \in 0 .. Tries |-> IF n = 0 THEN s0 ELSE IF n = 1 THEN s1
                                      ELSE IF n = 2 THEN s2 ELSE IF n = 3 THEN s3
                                      ELSE IF n = 4 THEN s4 ELSE s5]
<1>1. Fits(g)
  <2> HIDE DEF On
  <2> QED BY DEF Tries
<1>2. IdsAfterTries = CHOOSE f : Fits(f)
  BY DEF IdsAfterTries
<1> DEFINE h == IdsAfterTries
<1>3. h = [n \in 0 .. Tries |-> IF n = 0 THEN s0 ELSE On(h[n - 1])]
  <2> HIDE DEF g, On
  <2>1. Fits(CHOOSE f : Fits(f))
    <3> HIDE DEF Fits
    <3> QED BY <1>1
  <2> QED BY <1>2, <2>1
<1>4. ASSUME NEW S \in SUBSET QueryIds PROVE On(S) \subseteq QueryIds
  BY NextIds
<1> HIDE DEF h, On
<1>5. /\ h[0] = s0 /\ h[1] = On(h[0]) /\ h[2] = On(h[1]) /\ h[3] = On(h[2])
      /\ h[4] = On(h[3]) /\ h[5] = On(h[4])
  BY <1>3 DEF Tries
<1>6. h[0] \subseteq QueryIds /\ h[1] \subseteq QueryIds
  BY <1>4, <1>5
<1>7. h[2] \subseteq QueryIds /\ h[3] \subseteq QueryIds
  BY <1>4, <1>5, <1>6
<1>8. h[4] \subseteq QueryIds /\ h[5] \subseteq QueryIds
  BY <1>4, <1>5, <1>7
<1>9. \A n \in 0 .. Tries : h[n] \subseteq QueryIds
  BY <1>6, <1>7, <1>8 DEF Tries
<1> QED BY <1>9 DEF h

-----------------------------------------------------------------------------
(* The steps of the loop.                                                  *)

(* An answer is read: the client leaves select(), and the table is what     *)
(* got_response makes of one that counts correctly.                        *)
LEMMA AnswerStep ==
    ASSUME IInv, NEW id \in QueryIds, NEW t \in Table,
           Cardinality(GivenUp(t)) <= t.num_timeouts,
           at' = "send", track' \in {t, got_response(t, id)},
           chunkid' \in QueryIds,
           next_downstream_ack' \in Fragments \cup {NoAck}
    PROVE  IInv'
<1>1. track' \in Table /\ Cardinality(GivenUp(track')) <= track'.num_timeouts
  BY ResponseEffect
<1>2. Shape'
  BY <1>1 DEF Shape
<1>3. TimedOutCounted'
  BY <1>1 DEF TimedOutCounted
<1>4. PendingCovered' /\ AckedWhileWaiting'
  BY DEF PendingCovered, AckedWhileWaiting
<1> QED BY <1>2, <1>3, <1>4 DEF IInv

(* The client sends at most one query, and goes to select() with nothing    *)
(* left to acknowledge.                                                    *)
LEMMA LoopStep ==
    ASSUME IInv, NEW sending \in 0 .. WindowUp, NEW overdue \in SUBSET Waiting(track),
           Loop(sending, overdue)
    PROVE  IInv'
<1> DEFINE t == check_pending_queries(track, overdue)
<1>1. /\ t \in Table
      /\ Cardinality(GivenUp(t)) <= t.num_timeouts
      /\ Cardinality(Waiting(t)) <= t.num_pending
  BY CheckEffect DEF IInv, Shape, TimedOutCounted
<1>2. \/ \E id \in IdsAfter(chunkid) : SendQuery(t, id)
      \/ next_downstream_ack = NoAck /\ SendNothing(t)
  BY DEF Loop
<1>3. at' = "select" /\ chunkid \in QueryIds
  BY DEF Loop, IInv, Shape
<1> HIDE DEF t
<1>4. CASE \E id \in IdsAfter(chunkid) : SendQuery(t, id)
  <2>1. PICK id \in QueryIds : SendQuery(t, id)
    BY <1>3, <1>4, NextIds
  <2>2. /\ track' = query_sent_now(t, id) /\ chunkid' = id
        /\ next_downstream_ack' = NoAck
    BY <2>1 DEF SendQuery
  <2>3. /\ track' \in Table
        /\ Cardinality(GivenUp(track')) <= track'.num_timeouts
        /\ Cardinality(Waiting(track')) <= track'.num_pending
    BY <1>1, <2>2, SentEffect
  <2>4. Shape' /\ TimedOutCounted' /\ AckedWhileWaiting'
    BY <2>2, <2>3 DEF Shape, TimedOutCounted, AckedWhileWaiting
  <2>5. PendingCovered'
    <3>1. Waiting(track') \subseteq Entries
      BY DEF Waiting
    <3>2. Cardinality(Waiting(track')) \in Nat /\ track'.num_pending \in Nat
      BY <2>3, <3>1, EntrySets DEF Table
    <3> QED BY <2>3, <3>2 DEF PendingCovered
  <2> QED BY <2>4, <2>5 DEF IInv
<1>5. CASE next_downstream_ack = NoAck /\ SendNothing(t)
  <2>1. track' = t /\ chunkid' = chunkid /\ next_downstream_ack' = NoAck
    BY <1>5 DEF SendNothing
  <2>2. Shape' /\ TimedOutCounted' /\ AckedWhileWaiting'
    BY <1>1, <1>3, <2>1 DEF Shape, TimedOutCounted, AckedWhileWaiting
  <2>3. PendingCovered'
    <3>1. Waiting(t) \subseteq Entries
      BY DEF Waiting
    <3>2. Cardinality(Waiting(t)) \in Nat /\ t.num_pending \in Nat
      BY <1>1, <3>1, EntrySets DEF Table
    <3> QED BY <1>1, <2>1, <3>2 DEF PendingCovered
  <2> QED BY <2>2, <2>3 DEF IInv
<1> QED BY <1>2, <1>4, <1>5

LEMMA InitIInv == Init => IInv
<1> SUFFICES ASSUME Init PROVE IInv
  OBVIOUS
<1>1. /\ EmptyTable.entry \in [Entries -> Entry]
      /\ \A i \in Entries : EmptyTable.entry[i].id = NoId
      /\ EmptyTable.num_pending = 0 /\ EmptyTable.num_timeouts = 0
  BY DEF EmptyTable, Entry, Free
<1>2. track = EmptyTable /\ EmptyTable \in Table
  BY <1>1 DEF Init, EmptyTable, Table
<1>3. Waiting(track) = {} /\ GivenUp(track) = {}
  BY <1>1, <1>2 DEF Waiting, GivenUp
<1>4. TimedOutCounted /\ PendingCovered
  BY <1>1, <1>2, <1>3, FS_EmptySet DEF TimedOutCounted, PendingCovered
<1>5. Shape /\ AckedWhileWaiting
  BY <1>2 DEF Init, Shape, AckedWhileWaiting, NoAck
<1> QED BY <1>4, <1>5 DEF IInv

LEMMA NextIInv == IInv /\ [Next]_vars => IInv'
<1> SUFFICES ASSUME IInv, [Next]_vars PROVE IInv'
  OBVIOUS
<1>1. /\ track \in Table /\ Cardinality(GivenUp(track)) <= track.num_timeouts
      /\ chunkid \in QueryIds /\ next_downstream_ack \in Fragments \cup {NoAck}
  BY DEF IInv, Shape, TimedOutCounted
<1>2. CASE \E sending \in 0 .. WindowUp, overdue \in SUBSET Waiting(track) :
               Loop(sending, overdue)
  BY <1>2, LoopStep
<1>3. CASE Wake
  BY <1>3 DEF Wake, IInv, Shape, TimedOutCounted, PendingCovered, AckedWhileWaiting
<1>4. ASSUME NEW id \in QueryIds, AnswerData(id) PROVE IInv'
  <2>1. /\ at' = "send" /\ track' = got_response(track, id) /\ chunkid' = chunkid
        /\ next_downstream_ack' \in Fragments
    BY <1>4 DEF AnswerData, Receive
  <2> QED BY <1>1, <2>1, AnswerStep
<1>5. ASSUME NEW id \in QueryIds, AnswerEmpty(id) PROVE IInv'
  <2>1. /\ at' = "send" /\ track' = got_response(track, id) /\ chunkid' = chunkid
        /\ next_downstream_ack' = next_downstream_ack
    BY <1>5 DEF AnswerEmpty, Receive
  <2> QED BY <1>1, <2>1, AnswerStep
<1>6. ASSUME NEW id \in QueryIds, AnswerServfail(id) PROVE IInv'
  <2>1. PICK new \in IdsAfter(chunkid) :
            chunkid' = new /\ track' = got_response(query_sent_now(track, new), id)
    BY <1>6 DEF AnswerServfail
  <2>2. at' = "send" /\ next_downstream_ack' = next_downstream_ack
    BY <1>6 DEF AnswerServfail, Receive
  <2>3. new \in QueryIds
    BY <1>1, <2>1, NextIds
  <2> DEFINE t == query_sent_now(track, new)
  <2>4. t \in Table /\ Cardinality(GivenUp(t)) <= t.num_timeouts
    BY <1>1, <2>3, SentEffect
  <2>5. track' = got_response(t, id)
    BY <2>1
  <2> HIDE DEF t
  <2> QED BY <1>1, <2>1, <2>2, <2>3, <2>4, <2>5, AnswerStep
<1>7. ASSUME NEW id \in QueryIds, AnswerLastDitch(id) PROVE IInv'
  <2>1. /\ at' = "send" /\ track' = got_response(track, id)
        /\ next_downstream_ack' = next_downstream_ack
        /\ chunkid' \in UNION {IdsAfterTries[n] : n \in 1 .. Tries}
    BY <1>7 DEF AnswerLastDitch, Receive
  <2>2. chunkid' \in QueryIds
    <3>1. PICK n \in 1 .. Tries : chunkid' \in IdsAfterTries[n]
      BY <2>1
    <3>2. n \in 0 .. Tries
      BY DEF Tries
    <3> QED BY <1>1, <3>1, <3>2, TriedIds
  <2> QED BY <1>1, <2>1, <2>2, AnswerStep
<1>8. ASSUME NEW id \in QueryIds, AnswerBadip(id) PROVE IInv'
  <2>1. /\ at' = "send" /\ track' = track /\ chunkid' = chunkid
        /\ next_downstream_ack' = next_downstream_ack
    BY <1>8 DEF AnswerBadip, Receive
  <2> QED BY <1>1, <2>1, AnswerStep
<1>9. CASE ShutDown
  BY <1>9 DEF ShutDown, IInv, Shape, TimedOutCounted, PendingCovered, AckedWhileWaiting
<1>10. ASSUME NEW id \in QueryIds, Lose(id) PROVE IInv'
  BY <1>10 DEF Lose, IInv, Shape, TimedOutCounted, PendingCovered, AckedWhileWaiting
<1>11. CASE UNCHANGED vars
  BY <1>11 DEF vars, IInv, Shape, TimedOutCounted, PendingCovered, AckedWhileWaiting
<1> QED BY <1>2, <1>3, <1>4, <1>5, <1>6, <1>7, <1>8, <1>9, <1>10, <1>11 DEF Next

LEMMA SpecIInv == Spec => []IInv
BY InitIInv, NextIInv, PTL DEF Spec

-----------------------------------------------------------------------------
(* The theorems.                                                           *)

(* However entries are overwritten, given up, answered late or answered     *)
(* twice, num_timeouts covers the entries that are given up and still in    *)
(* the table, so got_response recognises each of them.                     *)
THEOREM GivenUpCounted == Spec => []TimedOutCounted
<1>1. IInv => TimedOutCounted
  BY DEF IInv
<1> QED BY <1>1, SpecIInv, PTL

(* While the client waits, num_pending covers every query it waits for, so  *)
(* the loop never sends one in place of a query that is pending still.     *)
THEOREM WaitingCovered == Spec => []PendingCovered
<1>1. IInv => PendingCovered
  BY DEF IInv
<1> QED BY <1>1, SpecIInv, PTL

(* Only a fragment sets next_downstream_ack, in an answer read at select(), *)
(* which the loop reaches with nothing left to acknowledge.                *)
THEOREM AcksLeaveFirst == Spec => AckNotOverwritten
<1> DEFINE OneAtATime == next_downstream_ack' # next_downstream_ack =>
                next_downstream_ack = NoAck \/ next_downstream_ack' = NoAck
<1>1. IInv /\ [Next]_vars => [OneAtATime]_vars
  <2> SUFFICES ASSUME IInv, Next PROVE OneAtATime
    OBVIOUS
  <2>1. ASSUME NEW id \in QueryIds, AnswerData(id) PROVE OneAtATime
    BY <2>1 DEF AnswerData, Receive, IInv, AckedWhileWaiting
  <2>2. ASSUME NEW sending \in 0 .. WindowUp, NEW overdue \in SUBSET Waiting(track),
               Loop(sending, overdue)
        PROVE  OneAtATime
    BY <2>2 DEF Loop, SendQuery, SendNothing
  <2>3. CASE \/ Wake \/ ShutDown
             \/ \E id \in QueryIds : \/ AnswerEmpty(id) \/ AnswerServfail(id)
                                     \/ AnswerLastDitch(id) \/ AnswerBadip(id) \/ Lose(id)
    BY <2>3 DEF Wake, ShutDown, AnswerEmpty, AnswerServfail, AnswerLastDitch, AnswerBadip, Lose
  <2> QED BY <2>1, <2>2, <2>3 DEF Next
<1> QED BY <1>1, SpecIInv, PTL DEF Spec, AckNotOverwritten

=============================================================================
