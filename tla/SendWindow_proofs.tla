-------------------------- MODULE SendWindow_proofs --------------------------
(***************************************************************************)
(* Proofs about the sending buffer, for rings, windows, sequence id ranges  *)
(* and packets of any size, and for any acknowledgements at all.           *)
(*                                                                         *)
(* The first part has facts about the ring of fragments and the operators   *)
(* on it (FragBuffer); the proofs about the receiving end rest on them too. *)
(***************************************************************************)
EXTENDS SendWindow, SequenceTheorems, WellFoundedInduction, TLAPS

-----------------------------------------------------------------------------
(* Arithmetic of the ring.                                                 *)

(* The least-number principle, for a set.                                  *)
LEMMA LeastElement ==
    ASSUME NEW T, T \subseteq Nat, T # {}
    PROVE  \E x \in T : \A y \in T : x <= y
<1> DEFINE R == {p \in Nat \X Nat : p[1] < p[2]}
<1>1. IsWellFoundedOn(R, Nat)
  BY NatLessThanWellFounded DEF OpToRel
<1>2. PICK x \in T : \A y \in T : ~ (<<y, x>> \in R)
  <2> HIDE DEF R
  <2> QED BY <1>1, WFMin
<1>3. ASSUME NEW y \in T PROVE x <= y
  <2>1. x \in Nat /\ y \in Nat /\ ~ (<<y, x>> \in R)
    BY <1>2
  <2> QED BY <2>1
<1> QED BY <1>2, <1>3

(* WRAP of what is less than two rings.                                    *)
LEMMA WrapValue ==
    ASSUME NEW x \in 0 .. 2 * Length - 1
    PROVE  /\ Wrap(x) = IF x < Length THEN x ELSE x - Length
           /\ Wrap(x) \in Slots
BY BufferAssumption DEF Wrap, Slots

LEMMA WrapType ==
    ASSUME NEW x \in Nat
    PROVE  Wrap(x) \in Slots
BY BufferAssumption DEF Wrap, Slots

(* From slot a, slot WRAP(a + i) is i places away, and every slot is one of *)
(* these.                                                                  *)
LEMMA DistanceWrap ==
    ASSUME NEW a \in Slots, NEW i \in 0 .. Length - 1
    PROVE  Distance(a, Wrap(a + i)) = i
<1>1. a + i \in 0 .. 2 * Length - 1
  BY BufferAssumption DEF Slots
<1> QED BY <1>1, WrapValue, BufferAssumption DEF Distance, Slots

LEMMA WrapDistance ==
    ASSUME NEW a \in Slots, NEW s \in Slots
    PROVE  Distance(a, s) \in 0 .. Length - 1 /\ Wrap(a + Distance(a, s)) = s
<1>1. Distance(a, s) \in 0 .. Length - 1
  BY BufferAssumption DEF Distance, Slots
<1>2. a + Distance(a, s) \in 0 .. 2 * Length - 1
  BY <1>1, BufferAssumption DEF Slots
<1> QED BY <1>1, <1>2, WrapValue, BufferAssumption DEF Distance, Slots

(* Walking i places from k places after a.                                 *)
LEMMA WrapTwice ==
    ASSUME NEW a \in Slots, NEW k \in 0 .. Length, NEW i \in 0 .. Length - 1
    PROVE  /\ Wrap(a + k) \in Slots
           /\ k + i < Length => Wrap(Wrap(a + k) + i) = Wrap(a + (k + i))
           /\ k + i >= Length => Wrap(Wrap(a + k) + i) = Wrap(a + (k + i - Length))
<1>1. a + k \in 0 .. 2 * Length - 1
  BY BufferAssumption DEF Slots
<1>2. Wrap(a + k) = IF a + k < Length THEN a + k ELSE a + k - Length
  BY <1>1, WrapValue, BufferAssumption DEF Slots
<1>3. Wrap(a + k) \in Slots
  BY <1>1, WrapValue, BufferAssumption DEF Slots
<1>4. Wrap(a + k) + i \in 0 .. 2 * Length - 1
  BY <1>3, BufferAssumption DEF Slots
<1>5. Wrap(Wrap(a + k) + i) = IF Wrap(a + k) + i < Length THEN Wrap(a + k) + i
                                                  ELSE Wrap(a + k) + i - Length
  BY <1>3, <1>4, WrapValue, BufferAssumption DEF Slots
<1>6. CASE k + i < Length
  <2>1. a + (k + i) \in 0 .. 2 * Length - 1
    BY <1>6, BufferAssumption DEF Slots
  <2>2. Wrap(a + (k + i)) = IF a + (k + i) < Length THEN a + (k + i)
                                           ELSE a + (k + i) - Length
    BY <2>1, WrapValue, BufferAssumption DEF Slots
  <2> QED BY <1>2, <1>3, <1>5, <1>6, <2>2, BufferAssumption DEF Slots
<1>7. CASE k + i >= Length
  <2>1. a + (k + i - Length) \in 0 .. 2 * Length - 1
    BY <1>7, BufferAssumption DEF Slots
  <2>2. Wrap(a + (k + i - Length)) =
            IF a + (k + i - Length) < Length THEN a + (k + i - Length)
                                    ELSE a + (k + i - Length) - Length
    BY <2>1, WrapValue, BufferAssumption DEF Slots
  <2> QED BY <1>2, <1>3, <1>5, <1>7, <2>2, BufferAssumption DEF Slots
<1> QED BY <1>3, <1>6, <1>7, BufferAssumption

(* Slot WRAP(a + n) reached in two parts.                                  *)
LEMMA WrapOn ==
    ASSUME NEW a \in Slots, NEW n \in 0 .. Length, NEW k \in 0 .. n
    PROVE  Wrap(Wrap(a + k) + (n - k)) = Wrap(a + n)
<1>1. Length \in Nat \ {0} /\ a \in 0 .. Length - 1
  BY BufferAssumption DEF Slots
<1>2. /\ a + k \in 0 .. 2 * Length - 1
      /\ a + n \in 0 .. 2 * Length - 1
  BY <1>1
<1>3. /\ Wrap(a + k) = IF a + k < Length THEN a + k ELSE a + k - Length
      /\ Wrap(a + n) = IF a + n < Length THEN a + n ELSE a + n - Length
  BY <1>1, <1>2, WrapValue DEF Slots
<1>4. Wrap(a + k) + (n - k) \in 0 .. 2 * Length - 1
  BY <1>1, <1>3
<1>5. Wrap(Wrap(a + k) + (n - k)) =
          IF Wrap(a + k) + (n - k) < Length THEN Wrap(a + k) + (n - k)
                                            ELSE Wrap(a + k) + (n - k) - Length
  BY <1>1, <1>3, <1>4, WrapValue DEF Slots
<1> QED BY <1>1, <1>3, <1>5

(* How far the slot i places after a is from the one n places after a.      *)
LEMMA DistanceFrom ==
    ASSUME NEW a \in Slots, NEW n \in 0 .. Length, NEW i \in 0 .. Length - 1
    PROVE  Distance(Wrap(a + n), Wrap(a + i)) =
               IF i >= n THEN i - n ELSE i - n + Length
<1>1. Length \in Nat \ {0} /\ a \in 0 .. Length - 1
  BY BufferAssumption DEF Slots
<1>2. /\ a + n \in 0 .. 2 * Length - 1
      /\ a + i \in 0 .. 2 * Length - 1
  BY <1>1
<1>3. /\ Wrap(a + n) = IF a + n < Length THEN a + n ELSE a + n - Length
      /\ Wrap(a + i) = IF a + i < Length THEN a + i ELSE a + i - Length
  BY <1>1, <1>2, WrapValue DEF Slots
<1> QED BY <1>1, <1>3 DEF Distance

LEMMA SeqType ==
    ASSUME NEW x \in Nat
    PROVE  x % MaxSeqId \in SeqIds
BY BufferAssumption DEF SeqIds

(* Counting i sequence ids from k ids after x.                             *)
LEMMA SeqTwice ==
    ASSUME NEW x \in SeqIds, NEW k \in 0 .. Length, NEW i \in 0 .. Length
    PROVE  /\ (x + k) % MaxSeqId \in SeqIds
           /\ (((x + k) % MaxSeqId) + i) % MaxSeqId = (x + (k + i)) % MaxSeqId
<1>1. /\ MaxSeqId \in Nat \ {0} /\ Length \in Nat /\ Length < MaxSeqId
      /\ x \in 0 .. MaxSeqId - 1
  BY BufferAssumption DEF SeqIds
<1>2. (x + k) % MaxSeqId = IF x + k < MaxSeqId THEN x + k ELSE x + k - MaxSeqId
  BY <1>1
<1> DEFINE y == (x + k) % MaxSeqId
<1>3. y \in 0 .. MaxSeqId - 1
  BY <1>1, <1>2
<1>4. (y + i) % MaxSeqId = IF y + i < MaxSeqId THEN y + i ELSE y + i - MaxSeqId
  <2> HIDE DEF y
  <2> QED BY <1>1, <1>3
<1>5. (x + (k + i)) % MaxSeqId =
          IF x + (k + i) < MaxSeqId THEN x + (k + i)
          ELSE IF x + (k + i) < 2 * MaxSeqId THEN x + (k + i) - MaxSeqId
               ELSE x + (k + i) - 2 * MaxSeqId
  BY <1>1
<1> QED BY <1>1, <1>2, <1>3, <1>4, <1>5 DEF SeqIds

-----------------------------------------------------------------------------
(* Division with remainder by a number that is a parameter: what the        *)
(* provers do not find by themselves.                                      *)

LEMMA Multiples ==
    ASSUME NEW n \in Nat \ {0}, NEW d \in Int, n * d < n, n * d > -n
    PROVE  d = 0
<1>1. d >= 1 => n * d >= n
  OBVIOUS
<1>2. d <= -1 => n * d <= -n
  OBVIOUS
<1> QED BY <1>1, <1>2

LEMMA DivMod ==
    ASSUME NEW n \in Nat \ {0}, NEW a \in Nat
    PROVE  a = n * (a \div n) + (a % n) /\ (a % n) \in 0 .. n - 1 /\ a \div n \in Nat
OBVIOUS

(* The remainder is the only number below n that differs from a by a        *)
(* multiple of n.                                                          *)
LEMMA ModUnique ==
    ASSUME NEW n \in Nat \ {0}, NEW a \in Nat, NEW q \in Int, NEW r \in 0 .. n - 1,
           a = n * q + r
    PROVE  a % n = r
<1> DEFINE q2 == a \div n
           r2 == a % n
<1>1. a = n * q2 + r2 /\ r2 \in 0 .. n - 1 /\ q2 \in Nat
  BY DivMod
<1> HIDE DEF q2, r2
<1>2. n * (q - q2) = r2 - r
  BY <1>1
<1>3. q - q2 = 0
  BY <1>1, <1>2, Multiples
<1>4. r2 = r
  BY <1>1, <1>2, <1>3
<1> QED BY <1>4 DEF r2

(* Adding at most n goes round once at most.                               *)
LEMMA ModAdd ==
    ASSUME NEW n \in Nat \ {0}, NEW a \in Nat, NEW i \in 0 .. n
    PROVE  (a + i) % n = IF (a % n) + i < n THEN (a % n) + i ELSE (a % n) + i - n
<1> DEFINE q == a \div n
           r == a % n
<1>1. a = n * q + r /\ r \in 0 .. n - 1 /\ q \in Nat
  BY DivMod
<1> HIDE DEF q, r
<1>2. CASE r + i < n
  <2>1. a + i = n * q + (r + i) /\ r + i \in 0 .. n - 1 /\ a + i \in Nat
    BY <1>1, <1>2
  <2>2. (a + i) % n = r + i
    BY <1>1, <2>1, ModUnique
  <2> QED BY <1>2, <2>2 DEF r
<1>3. CASE ~ (r + i < n)
  <2> DEFINE p == q + 1
             s == r + i - n
  <2>1. a + i = n * p + s /\ s \in 0 .. n - 1 /\ a + i \in Nat /\ p \in Int
    BY <1>1, <1>3
  <2> HIDE DEF p, s
  <2>2. (a + i) % n = s
    BY <2>1, ModUnique
  <2> QED BY <1>3, <2>2 DEF r, s
<1> QED BY <1>2, <1>3

LEMMA ModTwice ==
    ASSUME NEW n \in Nat \ {0}, NEW a \in Nat, NEW i \in 0 .. n
    PROVE  ((a % n) + i) % n = (a + i) % n
<1> DEFINE r == a % n
<1>1. r \in 0 .. n - 1 /\ r \in Nat
  BY DivMod
<1>2. r % n = r
  <2> HIDE DEF r
  <2>1. r = n * 0 + r
    BY <1>1
  <2> QED BY <1>1, <2>1, ModUnique
<1>3. (a + i) % n = IF r + i < n THEN r + i ELSE r + i - n
  BY ModAdd
<1> HIDE DEF r
<1>4. (r + i) % n = IF r + i < n THEN r + i ELSE r + i - n
  BY <1>1, <1>2, ModAdd
<1> QED BY <1>3, <1>4 DEF r

-----------------------------------------------------------------------------
(* A stream of fragments, numbered from 0, in the ring and in the sequence   *)
(* ids: fragment k belongs in slot WRAP(k) and has the id k % MaxSeqId.     *)

(* From the slot of fragment a, that of fragment a + i is i places on.      *)
LEMMA WrapAdd ==
    ASSUME NEW a \in Nat, NEW i \in 0 .. Length
    PROVE  /\ Wrap(a) \in Slots /\ Wrap(a + i) \in Slots
           /\ Wrap(Wrap(a) + i) = Wrap(a + i)
<1>1. Length \in Nat \ {0}
  BY BufferAssumption
<1> DEFINE r == a % Length
           t == (a + i) % Length
<1>2. t = IF r + i < Length THEN r + i ELSE r + i - Length
  BY <1>1, ModAdd
<1>3. Wrap(a) = r /\ Wrap(a + i) = t
  BY DEF Wrap
<1> HIDE DEF r, t
<1>4. Wrap(a) \in Slots /\ Wrap(a + i) \in Slots
  BY <1>1, WrapType
<1>5. r \in 0 .. Length - 1 /\ r + i \in 0 .. 2 * Length - 1
  BY <1>1, <1>3, <1>4 DEF Slots
<1>6. Wrap(r + i) = IF r + i < Length THEN r + i ELSE r + i - Length
  BY <1>1, <1>5, WrapValue
<1> QED BY <1>2, <1>3, <1>4, <1>6

LEMMA WrapRound ==
    ASSUME NEW a \in Nat
    PROVE  Wrap(a + Length) = Wrap(a)
<1>1. Length \in Nat \ {0} /\ Length \in 0 .. Length
  BY BufferAssumption
<1> DEFINE r == a % Length
<1>2. (a + Length) % Length = IF r + Length < Length THEN r + Length ELSE r + Length - Length
  BY <1>1, ModAdd
<1>3. r \in 0 .. Length - 1
  BY <1>1, DivMod
<1> HIDE DEF r
<1>4. (a + Length) % Length = r
  <2> DEFINE t == (a + Length) % Length
  <2>1. t = IF r + Length < Length THEN r + Length ELSE r + Length - Length
    BY <1>2
  <2> HIDE DEF t
  <2>2. t = r
    BY <1>1, <1>3, <2>1
  <2> QED BY <2>2 DEF t
<1> QED BY <1>4 DEF Wrap, r

LEMMA DistanceOn ==
    ASSUME NEW a \in Nat, NEW i \in 0 .. Length - 1
    PROVE  Distance(Wrap(a), Wrap(a + i)) = i
<1>1. i \in 0 .. Length
  BY BufferAssumption
<1> QED BY <1>1, WrapAdd, DistanceWrap

(* A stretch of Length fragments has a slot for each, and uses all slots.   *)
LEMMA WrapInjective ==
    ASSUME NEW o \in Nat, NEW j \in o .. o + Length - 1, NEW k \in o .. o + Length - 1,
           Wrap(j) = Wrap(k)
    PROVE  j = k
<1> DEFINE x == j - o
           y == k - o
<1>1. x \in 0 .. Length - 1 /\ y \in 0 .. Length - 1 /\ j = o + x /\ k = o + y
  BY BufferAssumption
<1> HIDE DEF x, y
<1>2. Distance(Wrap(o), Wrap(o + x)) = x /\ Distance(Wrap(o), Wrap(o + y)) = y
  BY <1>1, DistanceOn
<1> QED BY <1>1, <1>2

LEMMA WrapOnto ==
    ASSUME NEW o \in Nat, NEW s \in Slots
    PROVE  \E k \in o .. o + Length - 1 :
               Wrap(k) = s /\ k = o + Distance(Wrap(o), s)
<1> DEFINE d == Distance(Wrap(o), s)
<1>1. Wrap(o) \in Slots
  BY WrapType
<1>2. d \in 0 .. Length - 1 /\ Wrap(Wrap(o) + d) = s
  BY <1>1, WrapDistance
<1> HIDE DEF d
<1>3. d \in 0 .. Length /\ o + d \in o .. o + Length - 1
  BY <1>2, BufferAssumption
<1>4. Wrap(o + d) = s
  BY <1>2, <1>3, WrapAdd
<1> QED BY <1>3, <1>4 DEF d

(* Fragment m + i is taken for the one i after m, and is in the window if i *)
(* is at most the window size.                                             *)
LEMMA SeqAhead ==
    ASSUME NEW m \in Nat, NEW i \in 0 .. MaxSeqId - 1, NEW ws \in 0 .. MaxSeqId - 1
    PROVE  /\ SeqOffset(m % MaxSeqId, (m + i) % MaxSeqId) = i
           /\ i <= ws => InWindowSeq(m % MaxSeqId, ((m % MaxSeqId) + ws) % MaxSeqId,
                                     (m + i) % MaxSeqId)
<1>1. MaxSeqId \in Nat \ {0} /\ i \in 0 .. MaxSeqId
  BY BufferAssumption
<1> DEFINE r == m % MaxSeqId
           a == (m + i) % MaxSeqId
           e == (r + ws) % MaxSeqId
<1>2. r \in 0 .. MaxSeqId - 1
  BY <1>1, DivMod
<1>3. a = IF r + i < MaxSeqId THEN r + i ELSE r + i - MaxSeqId
  BY <1>1, ModAdd
<1> HIDE DEF r, a
<1>4. e = IF r + ws < MaxSeqId THEN r + ws ELSE r + ws - MaxSeqId
  BY <1>1, <1>2
<1> HIDE DEF e
<1>5. SeqOffset(r, a) = i
  BY <1>1, <1>2, <1>3 DEF SeqOffset
<1>6. i <= ws => InWindowSeq(r, e, a)
  BY <1>1, <1>2, <1>3, <1>4 DEF InWindowSeq
<1> QED BY <1>5, <1>6 DEF r, a, e

(* Fragment k, d before m, is taken for one MaxSeqId - d after m.           *)
LEMMA SeqBehind ==
    ASSUME NEW k \in Nat, NEW d \in 1 .. MaxSeqId - 1, NEW ws \in 1 .. MaxSeqId - 1,
           NEW m \in Nat, m = k + d
    PROVE  /\ SeqOffset(m % MaxSeqId, k % MaxSeqId) = MaxSeqId - d
           /\ MaxSeqId - d > ws =>
                  ~ InWindowSeq(m % MaxSeqId, ((m % MaxSeqId) + ws) % MaxSeqId, k % MaxSeqId)
<1>1. MaxSeqId \in Nat \ {0} /\ d \in 0 .. MaxSeqId
  BY BufferAssumption
<1> DEFINE r == m % MaxSeqId
           a == k % MaxSeqId
           e == (r + ws) % MaxSeqId
<1>2. r \in 0 .. MaxSeqId - 1 /\ a \in 0 .. MaxSeqId - 1
  BY <1>1, DivMod
<1>3. r = IF a + d < MaxSeqId THEN a + d ELSE a + d - MaxSeqId
  BY <1>1, ModAdd
<1> HIDE DEF r, a
<1>4. e = IF r + ws < MaxSeqId THEN r + ws ELSE r + ws - MaxSeqId
  BY <1>1, <1>2
<1> HIDE DEF e
<1>5. SeqOffset(r, a) = MaxSeqId - d
  BY <1>1, <1>2, <1>3 DEF SeqOffset
<1>6. ASSUME MaxSeqId - d > ws PROVE ~ InWindowSeq(r, e, a)
  <2>1. CASE a + d < MaxSeqId
    <3>1. r = a + d
      BY <1>3, <2>1
    <3> QED BY <1>1, <1>2, <1>4, <1>6, <3>1 DEF InWindowSeq
  <2>2. CASE ~ (a + d < MaxSeqId)
    <3>1. r = a + d - MaxSeqId /\ e = r + ws /\ a > e
      BY <1>1, <1>2, <1>3, <1>4, <1>6, <2>2
    <3>2. ws > 0 => r < e
      BY <1>1, <1>2, <3>1
    <3> QED BY <1>1, <1>2, <1>6, <2>2, <3>1, <3>2 DEF InWindowSeq
  <2> QED BY <2>1, <2>2
<1> QED BY <1>5, <1>6 DEF r, a, e

-----------------------------------------------------------------------------
(* window_tick.                                                            *)

LEMMA InWindowType ==
    ASSUME NEW w \in Buffer, NEW i \in Nat
    PROVE  Wrap(w.window_start + i) \in Slots /\ InWindow(w, i) \in Fragment
<1>1. w.window_start + i \in Nat
  BY BufferAssumption DEF Buffer, Slots
<1>2. Wrap(w.window_start + i) \in Slots
  BY <1>1, BufferAssumption DEF Wrap, Slots
<1> QED BY <1>2 DEF InWindow, Buffer

(* Leading is what the loop of window_tick computes: the number of          *)
(* acknowledged fragments at the start of the window, up to the step limit. *)
LEMMA LeadingValue ==
    ASSUME NEW w \in Buffer, NEW steps \in Nat
    PROVE  /\ Leading(w, steps) \in 0 .. steps
           /\ \A i \in 0 .. Leading(w, steps) - 1 : InWindow(w, i).acks >= 1
           /\ Leading(w, steps) < steps =>
                  InWindow(w, Leading(w, steps)).acks < 1
<1> DEFINE P(k) == /\ \A i \in 0 .. k - 1 : InWindow(w, i).acks >= 1
                   /\ k < steps => InWindow(w, k).acks < 1
           T == {i \in 0 .. steps - 1 : InWindow(w, i).acks < 1}
<1>1. \A i \in Nat : InWindow(w, i).acks \in {0, 1}
  BY InWindowType DEF Fragment
<1>2. \E k \in 0 .. steps : P(k)
  <2>1. CASE T = {}
    <3>1. \A i \in 0 .. steps - 1 : InWindow(w, i).acks >= 1
      BY <1>1, <2>1
    <3>2. P(steps)
      BY <3>1
    <3> QED BY <3>2
  <2>2. CASE T # {}
    <3>0. T \subseteq Nat
      OBVIOUS
    <3>1. PICK k \in T : \A y \in T : k <= y
      <4> HIDE DEF T
      <4> QED BY <2>2, <3>0, LeastElement
    <3>2. k \in 0 .. steps - 1 /\ InWindow(w, k).acks < 1
      BY <3>1
    <3>3. ASSUME NEW i \in 0 .. k - 1 PROVE InWindow(w, i).acks >= 1
      <4>1. i \in 0 .. steps - 1 /\ ~ (k <= i)
        BY <3>2
      <4>2. i \notin T
        BY <3>1, <4>1
      <4> QED BY <1>1, <4>1, <4>2
    <3> QED BY <3>2, <3>3
  <2> QED BY <2>1, <2>2
<1>3. Leading(w, steps) = CHOOSE k \in 0 .. steps : P(k)
  BY DEF Leading
<1> HIDE DEF P
<1>4. Leading(w, steps) \in 0 .. steps /\ P(Leading(w, steps))
  BY <1>2, <1>3
<1> QED BY <1>4 DEF P

(* Leading is the only number with that property.                          *)
LEMMA LeadingIs ==
    ASSUME NEW w, NEW steps \in Nat, NEW d \in 0 .. steps,
           \A i \in 0 .. d - 1 : InWindow(w, i).acks >= 1,
           d < steps => ~ (InWindow(w, d).acks >= 1),
           \A i \in 0 .. steps : InWindow(w, i).acks \in {0, 1}
    PROVE  Leading(w, steps) = d
<1> DEFINE P(k) == /\ \A i \in 0 .. k - 1 : InWindow(w, i).acks >= 1
                   /\ k < steps => InWindow(w, k).acks < 1
<1>1. P(d)
  OBVIOUS
<1>2. ASSUME NEW k \in 0 .. steps, P(k) PROVE k = d
  <2>1. ~ (k < d)
    <3>1. k < d => k \in 0 .. d - 1 /\ k < steps
      OBVIOUS
    <3> QED BY <1>2, <3>1
  <2>2. ~ (d < k)
    <3>1. d < k => d \in 0 .. k - 1 /\ d < steps
      OBVIOUS
    <3> QED BY <1>2, <3>1
  <2> QED BY <2>1, <2>2
<1>3. Leading(w, steps) = CHOOSE k \in 0 .. steps : P(k)
  BY DEF Leading
<1> HIDE DEF P
<1> QED BY <1>1, <1>2, <1>3

(* The window of w begins at fragment a of the stream, and d acknowledged   *)
(* fragments are there before one that is not.                             *)
AckedRun(w, a, d) ==
    /\ w.window_start = Wrap(a) /\ w.start_seq_id = a % MaxSeqId
    /\ \A i \in 0 .. d - 1 : w.frags[Wrap(a + i)].acks = 1
    /\ w.frags[Wrap(a + d)].acks = 0

(* Of a receiving buffer window_tick moves the window past them.           *)
LEMMA TickRecving ==
    ASSUME NEW w \in Buffer, NEW a \in Nat, NEW d \in 0 .. Length - 1,
           NEW steps \in Nat, d <= steps, AckedRun(w, a, d)
    PROVE  LET u == window_tick_recving(w, steps)
           IN  /\ u \in Buffer
               /\ u.window_start = Wrap(a + d) /\ u.start_seq_id = (a + d) % MaxSeqId
               /\ u.frags = w.frags /\ u.numitems = w.numitems
               /\ u.chunk_start = w.chunk_start
<1>1. Length \in Nat \ {0} /\ MaxSeqId \in Nat \ {0} /\ Length < MaxSeqId
  BY BufferAssumption
<1>2. \A i \in 0 .. d : Wrap(Wrap(a) + i) = Wrap(a + i)
  <2>1. \A i \in 0 .. d : i \in 0 .. Length
    BY <1>1
  <2> QED BY <2>1, WrapAdd
<1>3. /\ \A i \in 0 .. d - 1 : InWindow(w, i).acks = 1
      /\ InWindow(w, d).acks = 0
  BY <1>1, <1>2 DEF InWindow, AckedRun
<1>4. \A i \in 0 .. steps : InWindow(w, i).acks \in {0, 1}
  BY InWindowType DEF Fragment
<1>5. Leading(w, steps) = d
  BY <1>3, <1>4, LeadingIs
<1>6. Wrap(w.window_start + d) = Wrap(a + d)
  BY <1>1, <1>2 DEF AckedRun
<1>7. (w.start_seq_id + d) % MaxSeqId = (a + d) % MaxSeqId
  <2>1. d \in 0 .. MaxSeqId
    BY <1>1
  <2>2. ((a % MaxSeqId) + d) % MaxSeqId = (a + d) % MaxSeqId
    BY <1>1, <2>1, ModTwice
  <2> QED BY <2>2, Zenon DEF AckedRun
<1> DEFINE u  == window_tick_recving(w, steps)
           ws == Wrap(a + d)
           sq == (a + d) % MaxSeqId
<1>8. u = [w EXCEPT !.window_start = ws, !.start_seq_id = sq]
  BY <1>5, <1>6, <1>7 DEF window_tick_recving, MoveWindow
<1>9. ws \in Slots /\ sq \in SeqIds
  BY <1>1, WrapType, SeqType
<1> HIDE DEF ws, sq, u
<1>10. /\ u.window_start = ws /\ u.start_seq_id = sq
       /\ u.frags = w.frags /\ u.numitems = w.numitems
       /\ u.chunk_start = w.chunk_start
  BY <1>8 DEF Buffer
<1>11. u \in Buffer
  BY <1>8, <1>9 DEF Buffer
<1> QED BY <1>10, <1>11 DEF ws, sq, u

-----------------------------------------------------------------------------
(* window_reassemble_data.                                                 *)

(* The walk ends at the first fragment it does not accept.                 *)
LEMMA WalkIs ==
    ASSUME NEW w, w.numitems \in Nat, NEW c \in 0 .. w.numitems,
           \A i \in 0 .. c - 1 : Walked(w, i), ~ Walked(w, c)
    PROVE  WalkLength(w) = c
<1> DEFINE P(k) == (\A i \in 0 .. k - 1 : Walked(w, i)) /\ ~ Walked(w, k)
<1>1. P(c)
  OBVIOUS
<1>2. ASSUME NEW k \in 0 .. w.numitems, P(k) PROVE k = c
  <2>1. k < c => k \in 0 .. c - 1
    OBVIOUS
  <2>2. c < k => c \in 0 .. k - 1
    OBVIOUS
  <2> QED BY <1>2, <2>1, <2>2
<1>3. WalkLength(w) = CHOOSE k \in 0 .. w.numitems : P(k)
  BY DEF WalkLength
<1> HIDE DEF P
<1> QED BY <1>1, <1>2, <1>3

-----------------------------------------------------------------------------
(* The sending buffer.                                                       *)

(* What the lemmas say of a buffer: SendTypeOK and Contiguous of its value. *)
SoundBuffer(w) ==
    w \in Buffer /\ w.numitems <= Length /\ ContiguousBuffer(w)

LEMMA EmptyType == Empty \in Fragment /\ ~ Used(Empty) /\ Empty.acks = 0
BY BufferAssumption DEF Empty, Fragment, Used, SeqIds

(* A fragment i places into the window is used iff i < numitems, and then   *)
(* only can it have been acknowledged or sent.                             *)
LEMMA UsedInWindow ==
    ASSUME NEW w, SoundBuffer(w), NEW i \in 0 .. Length - 1
    PROVE  /\ InWindow(w, i) \in Fragment
           /\ Used(InWindow(w, i)) <=> i < w.numitems
           /\ i >= w.numitems => InWindow(w, i) = Empty
<1>1. w \in Buffer /\ i \in Nat
  BY BufferAssumption DEF SoundBuffer
<1>2. InWindow(w, i) \in Fragment
  BY <1>1, InWindowType
<1>3. w.numitems \in Nat
  BY <1>1 DEF Buffer
<1>4. IF i < w.numitems THEN Used(InWindow(w, i)) ELSE InWindow(w, i) = Empty
  BY DEF SoundBuffer, ContiguousBuffer
<1> QED BY <1>2, <1>3, <1>4, EmptyType, BufferAssumption

-----------------------------------------------------------------------------
(* window_tick moves past used fragments only; what was k places further is *)
(* where the window now begins, and the end of the ring is empty.           *)
LEMMA TickFields ==
    ASSUME NEW w, SoundBuffer(w)
    PROVE  LET t == window_tick_sending(w, SendWindowSize)
               k == Leading(w, SendWindowSize) IN
           /\ k \in 0 .. w.numitems /\ k <= SendWindowSize
           /\ t \in Buffer
           /\ t.numitems = w.numitems - k
           /\ t.window_start = Wrap(w.window_start + k)
           /\ t.start_seq_id = (w.start_seq_id + k) % MaxSeqId
           /\ t.last_write = w.last_write /\ t.cur_seq_id = w.cur_seq_id
           /\ \A i \in 0 .. Length - 1 :
                  InWindow(t, i) = IF k + i < Length THEN InWindow(w, k + i)
                                                     ELSE Empty
<1> DEFINE t == window_tick_sending(w, SendWindowSize)
           k == Leading(w, SendWindowSize)
<1>1. w \in Buffer /\ w.numitems \in 0 .. Length /\ w.window_start \in Slots
      /\ w.start_seq_id \in SeqIds
  BY BufferAssumption DEF SoundBuffer, Buffer
<1>2. /\ k \in 0 .. SendWindowSize
      /\ \A i \in 0 .. k - 1 : InWindow(w, i).acks >= 1
  BY <1>1, LeadingValue, SendAssumption, BufferAssumption
<1> HIDE DEF t, k
<1>3. k <= w.numitems
  <2>1. SUFFICES ASSUME k > w.numitems PROVE FALSE
    BY <1>1, <1>2, SendAssumption, BufferAssumption
  <2>2. w.numitems \in 0 .. k - 1 /\ w.numitems \in 0 .. Length - 1
    BY <1>1, <1>2, <2>1, SendAssumption, BufferAssumption
  <2>3. InWindow(w, w.numitems) = Empty
    BY <2>2, UsedInWindow
  <2> QED BY <1>2, <2>2, <2>3, EmptyType
<1>4. k \in 0 .. Length
  BY <1>1, <1>2, <1>3, SendAssumption, BufferAssumption
<1>5. /\ Wrap(w.window_start + k) \in Slots
      /\ (w.start_seq_id + k) % MaxSeqId \in SeqIds
  <2>1. w.window_start + k \in Nat /\ w.start_seq_id + k \in Nat
    BY <1>1, <1>4, BufferAssumption DEF Slots, SeqIds
  <2> QED BY <2>1, WrapType, SeqType
<1> DEFINE frags == [ s \in Slots |-> IF Distance(w.window_start, s) < k
                                      THEN Empty ELSE w.frags[s] ]
<1>6. frags \in [Slots -> Fragment]
  BY <1>1, EmptyType DEF Buffer
<1>7. /\ t = [ [ w EXCEPT !.window_start = Wrap(w.window_start + k),
                          !.start_seq_id = (w.start_seq_id + k) % MaxSeqId ]
                 EXCEPT !.numitems = w.numitems - k, !.frags = frags ]
      /\ w.numitems - k \in Nat
  BY <1>1, <1>3, <1>4, BufferAssumption
  DEF window_tick_sending, MoveWindow, Buffer, t, k
<1>8. /\ t \in Buffer
      /\ t.frags = frags
      /\ t.numitems = w.numitems - k
      /\ t.window_start = Wrap(w.window_start + k)
      /\ t.start_seq_id = (w.start_seq_id + k) % MaxSeqId
      /\ t.last_write = w.last_write /\ t.cur_seq_id = w.cur_seq_id
  <2> HIDE DEF frags
  <2> QED BY <1>1, <1>5, <1>6, <1>7 DEF Buffer
<1>9. ASSUME NEW i \in 0 .. Length - 1
      PROVE  InWindow(t, i) = IF k + i < Length THEN InWindow(w, k + i)
                                                ELSE Empty
  <2>1. InWindow(t, i) = frags[Wrap(Wrap(w.window_start + k) + i)]
    BY <1>8 DEF InWindow
  <2>2. CASE k + i < Length
    <3>1. Wrap(Wrap(w.window_start + k) + i) = Wrap(w.window_start + (k + i))
      BY <1>1, <1>4, <2>2, WrapTwice
    <3>2. k + i \in 0 .. Length - 1
      BY <1>4, <2>2, BufferAssumption
    <3>3. Distance(w.window_start, Wrap(w.window_start + (k + i))) = k + i
      BY <1>1, <3>2, DistanceWrap
    <3>4. Wrap(w.window_start + (k + i)) \in Slots
      BY <1>1, <3>2, InWindowType, BufferAssumption
    <3> QED BY <2>1, <2>2, <3>1, <3>2, <3>3, <3>4, <1>4, BufferAssumption
      DEF InWindow
  <2>3. CASE k + i >= Length
    <3>1. Wrap(Wrap(w.window_start + k) + i) =
              Wrap(w.window_start + (k + i - Length))
      BY <1>1, <1>4, <2>3, WrapTwice
    <3>2. k + i - Length \in 0 .. Length - 1 /\ k + i - Length < k
      BY <1>4, <2>3, BufferAssumption
    <3>3. Distance(w.window_start, Wrap(w.window_start + (k + i - Length)))
              = k + i - Length
      BY <1>1, <3>2, DistanceWrap
    <3>4. Wrap(w.window_start + (k + i - Length)) \in Slots
      BY <1>1, <3>2, InWindowType, BufferAssumption
    <3> QED BY <2>1, <2>3, <3>1, <3>2, <3>3, <3>4, <1>4, BufferAssumption
  <2> QED BY <2>2, <2>3, <1>4, BufferAssumption
<1> QED BY <1>1, <1>2, <1>3, <1>8, <1>9, SendAssumption, BufferAssumption DEF t, k

LEMMA TickSound ==
    ASSUME NEW w, SoundBuffer(w)
    PROVE  SoundBuffer(window_tick_sending(w, SendWindowSize))
<1> DEFINE t == window_tick_sending(w, SendWindowSize)
           k == Leading(w, SendWindowSize)
<1>0. k \in Nat
  BY LeadingValue, SendAssumption, BufferAssumption DEF SoundBuffer
<1>1. /\ k <= w.numitems /\ k <= SendWindowSize
      /\ t \in Buffer
      /\ t.numitems = w.numitems - k
      /\ t.window_start = Wrap(w.window_start + k)
      /\ t.start_seq_id = (w.start_seq_id + k) % MaxSeqId
      /\ t.last_write = w.last_write /\ t.cur_seq_id = w.cur_seq_id
      /\ \A i \in 0 .. Length - 1 :
             InWindow(t, i) = IF k + i < Length THEN InWindow(w, k + i)
                                                ELSE Empty
  BY <1>0, TickFields, BufferAssumption DEF SoundBuffer, Buffer
<1> HIDE DEF t, k
<1>2. /\ w \in Buffer /\ w.numitems \in 0 .. Length /\ w.window_start \in Slots
      /\ w.start_seq_id \in SeqIds
      /\ w.last_write = Wrap(w.window_start + w.numitems)
      /\ w.cur_seq_id = (w.start_seq_id + w.numitems) % MaxSeqId
  BY BufferAssumption DEF SoundBuffer, Buffer, ContiguousBuffer
<1>3. ASSUME NEW i \in 0 .. Length - 1
      PROVE  IF i < t.numitems
             THEN /\ Used(InWindow(t, i))
                  /\ InWindow(t, i).seqID = (t.start_seq_id + i) % MaxSeqId
             ELSE InWindow(t, i) = Empty
  <2>1. CASE i < t.numitems
    <3>1. k + i \in 0 .. Length - 1 /\ k + i < w.numitems
      BY <1>0, <1>1, <1>2, <2>1, BufferAssumption
    <3>2. /\ Used(InWindow(w, k + i))
          /\ InWindow(w, k + i).seqID = (w.start_seq_id + (k + i)) % MaxSeqId
      BY <3>1 DEF SoundBuffer, ContiguousBuffer
    <3>3. (t.start_seq_id + i) % MaxSeqId = (w.start_seq_id + (k + i)) % MaxSeqId
      BY <1>0, <1>1, <1>2, SeqTwice, BufferAssumption
    <3> QED BY <1>1, <2>1, <3>1, <3>2, <3>3, BufferAssumption
  <2>2. CASE ~ (i < t.numitems) /\ k + i < Length
    <3>1. k + i \in 0 .. Length - 1 /\ ~ (k + i < w.numitems)
      BY <1>0, <1>1, <1>2, <2>2, BufferAssumption
    <3> QED BY <1>1, <2>2, <3>1 DEF SoundBuffer, ContiguousBuffer
  <2>3. CASE ~ (i < t.numitems) /\ ~ (k + i < Length)
    BY <1>1, <2>3
  <2> QED BY <2>1, <2>2, <2>3
<1>4. t.last_write = Wrap(t.window_start + t.numitems)
  BY <1>0, <1>1, <1>2, WrapOn, BufferAssumption
<1>5. t.cur_seq_id = (t.start_seq_id + t.numitems) % MaxSeqId
  <2>1. w.numitems - k \in 0 .. Length /\ k \in 0 .. Length
        /\ k + (w.numitems - k) = w.numitems
    BY <1>0, <1>1, <1>2, BufferAssumption
  <2> QED BY <1>1, <1>2, <2>1, SeqTwice
<1>6. t.numitems <= Length
  BY <1>0, <1>1, <1>2, BufferAssumption
<1>7. SoundBuffer(t)
  BY <1>1, <1>3, <1>4, <1>5, <1>6 DEF SoundBuffer, ContiguousBuffer
<1> QED BY <1>7 DEF t

-----------------------------------------------------------------------------
(* MarkSent and window_ack change a flag of one stored fragment.           *)
Replace(w, i, f) == [w EXCEPT !.frags[Wrap(w.window_start + i)] = f]

LEMMA ReplaceSound ==
    ASSUME NEW w, SoundBuffer(w), NEW i \in 0 .. Length - 1,
           NEW f \in Fragment, i < w.numitems,
           f.data = InWindow(w, i).data, f.seqID = InWindow(w, i).seqID
    PROVE  /\ SoundBuffer(Replace(w, i, f))
           /\ Replace(w, i, f).numitems = w.numitems
           /\ Replace(w, i, f).cur_seq_id = w.cur_seq_id
           /\ \A j \in 0 .. Length - 1 :
                  InWindow(Replace(w, i, f), j) =
                      IF j = i THEN f ELSE InWindow(w, j)
<1> DEFINE t == Replace(w, i, f)
           a == w.window_start
<1>1. w \in Buffer /\ a \in Slots /\ w.numitems \in 0 .. Length
  BY BufferAssumption DEF SoundBuffer, Buffer
<1>2. \A j \in 0 .. Length - 1 : Wrap(a + j) \in Slots
  BY <1>1, WrapType, BufferAssumption DEF Slots
<1>3. t = [w EXCEPT !.frags = [w.frags EXCEPT ![Wrap(a + i)] = f]]
      /\ [w.frags EXCEPT ![Wrap(a + i)] = f] \in [Slots -> Fragment]
  BY <1>1, <1>2 DEF Replace, Buffer
<1>4. /\ t \in Buffer
      /\ t.frags = [w.frags EXCEPT ![Wrap(a + i)] = f]
      /\ t.numitems = w.numitems /\ t.window_start = a
      /\ t.start_seq_id = w.start_seq_id
      /\ t.last_write = w.last_write /\ t.cur_seq_id = w.cur_seq_id
  <2> HIDE DEF t
  <2> QED BY <1>1, <1>3 DEF Buffer
<1>5. ASSUME NEW j \in 0 .. Length - 1
      PROVE  InWindow(t, j) = IF j = i THEN f ELSE InWindow(w, j)
  <2>1. InWindow(t, j) = [w.frags EXCEPT ![Wrap(a + i)] = f][Wrap(a + j)]
    BY <1>4 DEF InWindow
  <2>2. Wrap(a + i) = Wrap(a + j) => i = j
    <3>1. Distance(a, Wrap(a + i)) = i /\ Distance(a, Wrap(a + j)) = j
      BY <1>1, DistanceWrap
    <3> QED BY <3>1
  <2>3. w.frags \in [Slots -> Fragment]
    BY <1>1 DEF Buffer
  <2> QED BY <1>2, <2>1, <2>2, <2>3 DEF InWindow
<1> HIDE DEF t
<1>6. ASSUME NEW j \in 0 .. Length - 1
      PROVE  IF j < t.numitems
             THEN /\ Used(InWindow(t, j))
                  /\ InWindow(t, j).seqID = (t.start_seq_id + j) % MaxSeqId
             ELSE InWindow(t, j) = Empty
  <2>1. IF j < w.numitems
        THEN /\ Used(InWindow(w, j))
             /\ InWindow(w, j).seqID = (w.start_seq_id + j) % MaxSeqId
        ELSE InWindow(w, j) = Empty
    BY DEF SoundBuffer, ContiguousBuffer
  <2>2. CASE j = i
    BY <1>4, <1>5, <2>1, <2>2 DEF Used
  <2>3. CASE j # i
    BY <1>4, <1>5, <2>1, <2>3
  <2> QED BY <2>2, <2>3
<1>7. SoundBuffer(t)
  BY <1>4, <1>6 DEF SoundBuffer, ContiguousBuffer
<1> QED BY <1>4, <1>5, <1>7 DEF t

(* A fragment in the window of a sound buffer, marked as sent.             *)
LEMMA MarkSound ==
    ASSUME NEW w, SoundBuffer(w), NEW i \in 0 .. Length - 1, i < w.numitems
    PROVE  /\ SoundBuffer(MarkSent(w, i))
           /\ MarkSent(w, i).numitems = w.numitems
           /\ MarkSent(w, i).cur_seq_id = w.cur_seq_id
           /\ \A j \in 0 .. Length - 1 :
                  InWindow(MarkSent(w, i), j) =
                      IF j = i THEN [InWindow(w, i) EXCEPT !.retries = 1]
                               ELSE InWindow(w, j)
<1> DEFINE f == [InWindow(w, i) EXCEPT !.retries = 1]
<1>1. InWindow(w, i) \in Fragment
  BY UsedInWindow
<1>2. /\ f \in Fragment
      /\ f.data = InWindow(w, i).data /\ f.seqID = InWindow(w, i).seqID
  BY <1>1 DEF Fragment
<1>3. MarkSent(w, i) = Replace(w, i, f)
  BY DEF MarkSent, Replace, InWindow
<1> HIDE DEF f
<1>4. /\ SoundBuffer(Replace(w, i, f))
      /\ Replace(w, i, f).numitems = w.numitems
      /\ Replace(w, i, f).cur_seq_id = w.cur_seq_id
      /\ \A j \in 0 .. Length - 1 :
             InWindow(Replace(w, i, f), j) = IF j = i THEN f ELSE InWindow(w, j)
  BY <1>2, ReplaceSound
<1> QED BY <1>3, <1>4 DEF f

(* window_ack marks at most one fragment, one that is stored in the window. *)
LEMMA AckSound ==
    ASSUME NEW w, SoundBuffer(w), NEW seqid \in SeqIds
    PROVE  LET t == window_ack(w, SendWindowSize, seqid) IN
           /\ SoundBuffer(t)
           /\ t.numitems = w.numitems /\ t.cur_seq_id = w.cur_seq_id
           /\ \/ t = w
              \/ \E i \in 0 .. SendWindowSize - 1 :
                     /\ i < w.numitems /\ InWindow(w, i).seqID = seqid
                     /\ \A j \in 0 .. Length - 1 :
                            InWindow(t, j) =
                                IF j = i THEN [InWindow(w, i) EXCEPT !.acks = 1]
                                         ELSE InWindow(w, j)
<1> DEFINE hits  == Acked(w, SendWindowSize, seqid)
           i == CHOOSE x \in hits : \A y \in hits : x <= y
           f == [InWindow(w, i) EXCEPT !.acks = 1]
<1>1. CASE hits = {}
  <2>1. window_ack(w, SendWindowSize, seqid) = w
    BY <1>1 DEF window_ack
  <2> QED BY <2>1
<1>2. CASE hits # {}
  <2>1. hits \subseteq 0 .. SendWindowSize - 1 /\ hits \subseteq Nat
    BY SendAssumption, BufferAssumption DEF Acked
  <2>2. i \in hits
    <3> HIDE DEF hits
    <3> QED BY <1>2, <2>1, LeastElement
  <2>3. /\ window_ack(w, SendWindowSize, seqid) = Replace(w, i, f)
    BY <1>2 DEF window_ack, Replace, InWindow
  <2> HIDE DEF i
  <2>4. /\ i \in 0 .. SendWindowSize - 1 /\ i \in 0 .. Length - 1
        /\ Used(InWindow(w, i)) /\ InWindow(w, i).seqID = seqid
    BY <2>2, SendAssumption, BufferAssumption DEF Acked
  <2>5. i < w.numitems /\ InWindow(w, i) \in Fragment
    BY <2>4, UsedInWindow
  <2>6. /\ f \in Fragment
        /\ f.data = InWindow(w, i).data /\ f.seqID = InWindow(w, i).seqID
    BY <2>5 DEF Fragment
  <2> HIDE DEF f
  <2>7. /\ SoundBuffer(Replace(w, i, f))
        /\ Replace(w, i, f).numitems = w.numitems
        /\ Replace(w, i, f).cur_seq_id = w.cur_seq_id
        /\ \A j \in 0 .. Length - 1 :
              InWindow(Replace(w, i, f), j) = IF j = i THEN f ELSE InWindow(w, j)
    BY <2>4, <2>5, <2>6, ReplaceSound
  <2> QED BY <2>3, <2>4, <2>5, <2>7 DEF f
<1> QED BY <1>1, <1>2

-----------------------------------------------------------------------------
(* window_add_outgoing_data appends right behind the stored fragments.     *)
LEMMA AddFields ==
    ASSUME NEW w, SoundBuffer(w), NEW pieces \in Packets,
           Len(pieces) <= window_buffer_available(w)
    PROVE  LET t == window_add_outgoing_data(w, pieces)
               n == Len(pieces) IN
           /\ t \in Buffer
           /\ n \in Nat \ {0} /\ w.numitems + n <= Length
           /\ t.numitems = w.numitems + n
           /\ t.window_start = w.window_start
           /\ t.start_seq_id = w.start_seq_id
           /\ t.last_write = Wrap(w.last_write + n)
           /\ t.cur_seq_id = (w.cur_seq_id + n) % MaxSeqId
           /\ \A i \in 0 .. Length - 1 :
                  IF i >= w.numitems /\ i < w.numitems + n
                  THEN /\ Used(InWindow(t, i))
                       /\ InWindow(t, i).data = pieces[i - w.numitems + 1]
                       /\ InWindow(t, i).seqID =
                              (w.cur_seq_id + (i - w.numitems)) % MaxSeqId
                       /\ InWindow(t, i).acks = 0
                       /\ InWindow(t, i).retries = 0
                       /\ InWindow(t, i).start = (i - w.numitems = 0)
                       /\ InWindow(t, i).end = (i - w.numitems = n - 1)
                  ELSE InWindow(t, i) = InWindow(w, i)
<1> DEFINE t == window_add_outgoing_data(w, pieces)
           n == Len(pieces)
           a == w.window_start
           New(i) == [ data |-> pieces[i + 1],
                       seqID |-> (w.cur_seq_id + i) % MaxSeqId,
                       start |-> i = 0, end |-> i = n - 1,
                       acks |-> 0, retries |-> 0 ]
           frags == [ s \in Slots |-> IF Distance(w.last_write, s) < n
                                      THEN New(Distance(w.last_write, s))
                                      ELSE w.frags[s] ]
<1>1. /\ w \in Buffer /\ a \in Slots /\ w.numitems \in 0 .. Length
      /\ w.last_write \in Slots /\ w.cur_seq_id \in SeqIds
      /\ w.last_write = Wrap(a + w.numitems)
      /\ w.frags \in [Slots -> Fragment]
  BY BufferAssumption DEF SoundBuffer, Buffer, ContiguousBuffer
<1>2. pieces \in Seq(Data) /\ pieces # << >>
  BY SendAssumption
<1>3. n \in Nat \ {0} /\ w.numitems + n <= Length
  BY <1>1, <1>2, BufferAssumption DEF window_buffer_available
<1>4. ASSUME NEW i \in 0 .. n - 1
      PROVE  /\ New(i) \in Fragment /\ Used(New(i))
             /\ New(i).data = pieces[i + 1]
             /\ New(i).seqID = (w.cur_seq_id + i) % MaxSeqId
             /\ New(i).acks = 0 /\ New(i).retries = 0
             /\ New(i).start = (i = 0) /\ New(i).end = (i = n - 1)
  <2>1. pieces[i + 1] \in Data
    BY <1>2, <1>3
  <2>2. (w.cur_seq_id + i) % MaxSeqId \in SeqIds
    <3>1. w.cur_seq_id + i \in Nat
      BY <1>1, <1>3, BufferAssumption DEF SeqIds
    <3> QED BY <3>1, SeqType
  <2>3. pieces[i + 1] # NoData
    BY <2>1, BufferAssumption
  <2>4. New(i) \in Fragment
    BY <2>1, <2>2 DEF Fragment
  <2> QED BY <2>3, <2>4 DEF Used
<1>5. ASSUME NEW s \in Slots
      PROVE  Distance(w.last_write, s) \in 0 .. Length - 1
  BY <1>1, WrapDistance
<1>6. frags \in [Slots -> Fragment]
  <2> HIDE DEF New
  <2>1. ASSUME NEW s \in Slots PROVE frags[s] \in Fragment
    <3>1. CASE Distance(w.last_write, s) < n
      <4>1. Distance(w.last_write, s) \in 0 .. n - 1
        BY <1>3, <1>5, <3>1, BufferAssumption
      <4> QED BY <1>4, <3>1, <4>1
    <3>2. CASE ~ (Distance(w.last_write, s) < n)
      BY <1>1, <3>2
    <3> QED BY <3>1, <3>2
  <2> QED BY <2>1
<1>7. t = [w EXCEPT !.frags = frags, !.numitems = w.numitems + n,
                    !.last_write = Wrap(w.last_write + n),
                    !.cur_seq_id = (w.cur_seq_id + n) % MaxSeqId]
  BY <1>1 DEF window_add_outgoing_data, Buffer
<1>8. /\ Wrap(w.last_write + n) \in Slots
      /\ (w.cur_seq_id + n) % MaxSeqId \in SeqIds
  <2>1. w.last_write + n \in Nat /\ w.cur_seq_id + n \in Nat
    BY <1>1, <1>3, BufferAssumption DEF Slots, SeqIds
  <2> QED BY <2>1, WrapType, SeqType
<1>9. /\ t \in Buffer
      /\ t.frags = frags
      /\ t.numitems = w.numitems + n
      /\ t.window_start = a /\ t.start_seq_id = w.start_seq_id
      /\ t.last_write = Wrap(w.last_write + n)
      /\ t.cur_seq_id = (w.cur_seq_id + n) % MaxSeqId
  <2> DEFINE lw == Wrap(w.last_write + n)
             cs == (w.cur_seq_id + n) % MaxSeqId
             ni == w.numitems + n
  <2>1. t = [w EXCEPT !.frags = frags, !.numitems = ni, !.last_write = lw,
                      !.cur_seq_id = cs]
    BY <1>7
  <2>2. /\ frags \in [Slots -> Fragment] /\ ni \in Nat /\ lw \in Slots
        /\ cs \in SeqIds
    <3>1. ni \in Nat
      BY <1>1, <1>3, BufferAssumption
    <3> HIDE DEF frags
    <3> QED BY <1>6, <1>8, <3>1
  <2> HIDE DEF frags, t, lw, cs, ni, n
  <2>3. /\ t \in Buffer
        /\ t.frags = frags /\ t.numitems = ni
        /\ t.window_start = a /\ t.start_seq_id = w.start_seq_id
        /\ t.last_write = lw /\ t.cur_seq_id = cs
    BY <1>1, <2>1, <2>2 DEF Buffer
  <2> QED BY <2>3 DEF lw, cs, ni
<1>10. ASSUME NEW i \in 0 .. Length - 1
       PROVE  IF i >= w.numitems /\ i < w.numitems + n
              THEN /\ Used(InWindow(t, i))
                   /\ InWindow(t, i).data = pieces[i - w.numitems + 1]
                   /\ InWindow(t, i).seqID =
                          (w.cur_seq_id + (i - w.numitems)) % MaxSeqId
                   /\ InWindow(t, i).acks = 0
                   /\ InWindow(t, i).retries = 0
                   /\ InWindow(t, i).start = (i - w.numitems = 0)
                   /\ InWindow(t, i).end = (i - w.numitems = n - 1)
              ELSE InWindow(t, i) = InWindow(w, i)
  <2>1. InWindow(t, i) = frags[Wrap(a + i)] /\ Wrap(a + i) \in Slots
    BY <1>1, <1>9, InWindowType, BufferAssumption DEF InWindow
  <2>2. Distance(w.last_write, Wrap(a + i)) =
            IF i >= w.numitems THEN i - w.numitems ELSE i - w.numitems + Length
    BY <1>1, DistanceFrom
  <2>3. CASE i >= w.numitems /\ i < w.numitems + n
    <3>1. i - w.numitems \in 0 .. n - 1
      BY <1>1, <1>3, <2>3, BufferAssumption
    <3>2. InWindow(t, i) = New(i - w.numitems)
      <4> HIDE DEF New, t
      <4> QED BY <2>1, <2>2, <2>3, <3>1
    <3> HIDE DEF New, t
    <3> QED BY <1>4, <2>3, <3>1, <3>2
  <2>4. CASE ~ (i >= w.numitems /\ i < w.numitems + n)
    <3>1. ~ (Distance(w.last_write, Wrap(a + i)) < n)
      BY <1>1, <1>3, <2>2, <2>4, BufferAssumption
    <3>2. InWindow(t, i) = w.frags[Wrap(a + i)]
      <4> HIDE DEF New, t
      <4> QED BY <2>1, <3>1
    <3> QED BY <2>4, <3>2 DEF InWindow
  <2> QED BY <2>3, <2>4
<1> QED BY <1>3, <1>9, <1>10

LEMMA AddSound ==
    ASSUME NEW w, SoundBuffer(w), NEW pieces \in Packets,
           Len(pieces) <= window_buffer_available(w)
    PROVE  SoundBuffer(window_add_outgoing_data(w, pieces))
<1> DEFINE t == window_add_outgoing_data(w, pieces)
           n == Len(pieces)
<1>1. /\ t \in Buffer
      /\ n \in Nat \ {0} /\ w.numitems + n <= Length
      /\ t.numitems = w.numitems + n
      /\ t.window_start = w.window_start
      /\ t.start_seq_id = w.start_seq_id
      /\ t.last_write = Wrap(w.last_write + n)
      /\ t.cur_seq_id = (w.cur_seq_id + n) % MaxSeqId
      /\ \A i \in 0 .. Length - 1 :
             IF i >= w.numitems /\ i < w.numitems + n
             THEN /\ Used(InWindow(t, i))
                  /\ InWindow(t, i).seqID =
                         (w.cur_seq_id + (i - w.numitems)) % MaxSeqId
             ELSE InWindow(t, i) = InWindow(w, i)
  BY AddFields
<1> HIDE DEF t, n
<1>2. /\ w \in Buffer /\ w.numitems \in 0 .. Length /\ w.window_start \in Slots
      /\ w.start_seq_id \in SeqIds
      /\ w.last_write = Wrap(w.window_start + w.numitems)
      /\ w.cur_seq_id = (w.start_seq_id + w.numitems) % MaxSeqId
  BY BufferAssumption DEF SoundBuffer, Buffer, ContiguousBuffer
<1>3. ASSUME NEW i \in 0 .. Length - 1
      PROVE  IF i < t.numitems
             THEN /\ Used(InWindow(t, i))
                  /\ InWindow(t, i).seqID = (t.start_seq_id + i) % MaxSeqId
             ELSE InWindow(t, i) = Empty
  <2>1. IF i < w.numitems
        THEN /\ Used(InWindow(w, i))
             /\ InWindow(w, i).seqID = (w.start_seq_id + i) % MaxSeqId
        ELSE InWindow(w, i) = Empty
    BY DEF SoundBuffer, ContiguousBuffer
  <2>2. CASE i >= w.numitems /\ i < w.numitems + n
    <3>1. i - w.numitems \in 0 .. Length /\ w.numitems + (i - w.numitems) = i
      BY <1>2, <2>2, BufferAssumption
    <3>2. (((w.start_seq_id + w.numitems) % MaxSeqId) + (i - w.numitems)) % MaxSeqId
              = (w.start_seq_id + i) % MaxSeqId
      BY <1>2, <3>1, SeqTwice
    <3> QED BY <1>1, <1>2, <2>2, <3>2
  <2>3. CASE ~ (i >= w.numitems /\ i < w.numitems + n)
    <3>1. InWindow(t, i) = InWindow(w, i)
      BY <1>1, <2>3
    <3>2. i < w.numitems <=> i < t.numitems
      BY <1>1, <1>2, <2>3, BufferAssumption
    <3> QED BY <1>1, <2>1, <3>1, <3>2
  <2> QED BY <2>2, <2>3
<1>4. t.last_write = Wrap(t.window_start + t.numitems)
  <2>1. /\ w.numitems + n \in 0 .. Length /\ w.numitems \in 0 .. w.numitems + n
        /\ (w.numitems + n) - w.numitems = n
    BY <1>1, <1>2, BufferAssumption
  <2>2. Wrap(Wrap(w.window_start + w.numitems) + ((w.numitems + n) - w.numitems))
            = Wrap(w.window_start + (w.numitems + n))
    BY <1>2, <2>1, WrapOn
  <2> QED BY <1>1, <1>2, <2>1, <2>2
<1>5. t.cur_seq_id = (t.start_seq_id + t.numitems) % MaxSeqId
  <2>1. n \in 0 .. Length
    BY <1>1, <1>2, BufferAssumption
  <2> QED BY <1>1, <1>2, <2>1, SeqTwice
<1>6. SoundBuffer(t)
  BY <1>1, <1>3, <1>4, <1>5 DEF SoundBuffer, ContiguousBuffer
<1> QED BY <1>6 DEF t

-----------------------------------------------------------------------------
(* Flow control.                                                           *)

(* The window a tick leaves behind starts at a fragment that waits, and     *)
(* what was in flight still is inside the window.                          *)
LEMMA TickInFlight ==
    ASSUME NEW w, SoundBuffer(w), InFlightBuffer(w)
    PROVE  LET t == window_tick_sending(w, SendWindowSize) IN
           /\ InFlightBuffer(t)
           /\ t.numitems > 0 => InWindow(t, 0).acks = 0
<1> DEFINE t == window_tick_sending(w, SendWindowSize)
           k == Leading(w, SendWindowSize)
<1>0. /\ k \in Nat
      /\ k < SendWindowSize => InWindow(w, k).acks < 1
  BY LeadingValue, SendAssumption, BufferAssumption DEF SoundBuffer
<1>1. /\ k <= w.numitems /\ k <= SendWindowSize
      /\ t.numitems = w.numitems - k
      /\ \A i \in 0 .. Length - 1 :
             InWindow(t, i) = IF k + i < Length THEN InWindow(w, k + i)
                                                ELSE Empty
  BY <1>0, TickFields, BufferAssumption DEF SoundBuffer, Buffer
<1> HIDE DEF t, k
<1>2. w.numitems \in 0 .. Length
  BY BufferAssumption DEF SoundBuffer, Buffer
<1>3. ASSUME NEW i \in 0 .. Length - 1,
             InWindow(t, i).retries = 1 \/ InWindow(t, i).acks = 1
      PROVE  i < SendWindowSize
  <2>1. k + i < Length
    BY <1>1, <1>3 DEF Empty
  <2>2. InWindow(w, k + i).retries = 1 \/ InWindow(w, k + i).acks = 1
    BY <1>1, <1>3, <2>1
  <2>3. k + i \in 0 .. Length - 1
    BY <1>0, <2>1, BufferAssumption
  <2>4. k + i < SendWindowSize
    BY <2>2, <2>3 DEF InFlightBuffer
  <2> QED BY <1>0, <2>4, SendAssumption, BufferAssumption
<1>4. ASSUME t.numitems > 0 PROVE InWindow(t, 0).acks = 0
  <2>1. k \in 0 .. Length - 1 /\ 0 \in 0 .. Length - 1
    BY <1>0, <1>1, <1>2, <1>4, BufferAssumption
  <2>2. InWindow(t, 0) = InWindow(w, k)
    BY <1>1, <2>1, BufferAssumption
  <2>3. InWindow(w, k).acks \in {0, 1}
    BY <2>1, UsedInWindow DEF Fragment
  <2>4. CASE k < SendWindowSize
    BY <1>0, <2>2, <2>3, <2>4
  <2>5. CASE k = SendWindowSize
    <3>1. ~ (k < SendWindowSize)
      BY <2>5, SendAssumption, BufferAssumption
    <3>2. ~ (InWindow(w, k).acks = 1)
      BY <2>1, <3>1 DEF InFlightBuffer
    <3> QED BY <2>2, <2>3, <3>2
  <2> QED BY <1>0, <1>1, <2>4, <2>5, SendAssumption, BufferAssumption
<1>5. InFlightBuffer(t)
  BY <1>3 DEF InFlightBuffer
<1> QED BY <1>4, <1>5 DEF t

LEMMA MarkInFlight ==
    ASSUME NEW w, SoundBuffer(w), InFlightBuffer(w),
           NEW i \in Sendable(w, SendWindowSize)
    PROVE  /\ i \in 0 .. Length - 1 /\ i < w.numitems
           /\ SoundBuffer(MarkSent(w, i))
           /\ InFlightBuffer(MarkSent(w, i))
<1>1. i \in 0 .. SendWindowSize - 1 /\ Used(InWindow(w, i))
  BY DEF Sendable, Unacked
<1>2. i \in 0 .. Length - 1
  BY <1>1, SendAssumption, BufferAssumption
<1>3. i < w.numitems
  BY <1>1, <1>2, UsedInWindow
<1>4. /\ SoundBuffer(MarkSent(w, i))
      /\ \A j \in 0 .. Length - 1 :
            InWindow(MarkSent(w, i), j) =
                IF j = i THEN [InWindow(w, i) EXCEPT !.retries = 1]
                         ELSE InWindow(w, j)
  BY <1>2, <1>3, MarkSound
<1>5. ASSUME NEW j \in 0 .. Length - 1,
             \/ InWindow(MarkSent(w, i), j).retries = 1
             \/ InWindow(MarkSent(w, i), j).acks = 1
      PROVE  j < SendWindowSize
  <2>1. CASE j = i
    BY <1>1, <2>1, SendAssumption, BufferAssumption
  <2>2. CASE j # i
    BY <1>4, <1>5, <2>2 DEF InFlightBuffer
  <2> QED BY <2>1, <2>2
<1> QED BY <1>2, <1>3, <1>4, <1>5 DEF InFlightBuffer

LEMMA AckInFlight ==
    ASSUME NEW w, SoundBuffer(w), InFlightBuffer(w), NEW seqid \in SeqIds
    PROVE  InFlightBuffer(window_ack(w, SendWindowSize, seqid))
<1> DEFINE t == window_ack(w, SendWindowSize, seqid)
<1>1. \/ t = w
      \/ \E i \in 0 .. SendWindowSize - 1 :
             /\ i < w.numitems
             /\ \A j \in 0 .. Length - 1 :
                    InWindow(t, j) =
                        IF j = i THEN [InWindow(w, i) EXCEPT !.acks = 1]
                                 ELSE InWindow(w, j)
  BY AckSound
<1> HIDE DEF t
<1>2. CASE t = w
  BY <1>2 DEF t
<1>3. ASSUME NEW i \in 0 .. SendWindowSize - 1,
             \A j \in 0 .. Length - 1 :
                    InWindow(t, j) =
                        IF j = i THEN [InWindow(w, i) EXCEPT !.acks = 1]
                                 ELSE InWindow(w, j)
      PROVE  InFlightBuffer(t)
  <2>1. ASSUME NEW j \in 0 .. Length - 1,
               InWindow(t, j).retries = 1 \/ InWindow(t, j).acks = 1
        PROVE  j < SendWindowSize
    <3>1. CASE j = i
      BY <3>1, SendAssumption, BufferAssumption
    <3>2. CASE j # i
      BY <1>3, <2>1, <3>2 DEF InFlightBuffer
    <3> QED BY <3>1, <3>2
  <2> QED BY <2>1 DEF InFlightBuffer
<1> QED BY <1>1, <1>2, <1>3 DEF t

(* The pieces of a new packet have not been sent.                          *)
LEMMA AddInFlight ==
    ASSUME NEW w, SoundBuffer(w), InFlightBuffer(w),
           w.numitems > 0 => InWindow(w, 0).acks = 0,
           NEW pieces \in Packets,
           Len(pieces) <= window_buffer_available(w)
    PROVE  LET t == window_add_outgoing_data(w, pieces) IN
           InFlightBuffer(t) /\ InWindow(t, 0).acks = 0
<1> DEFINE t == window_add_outgoing_data(w, pieces)
           n == Len(pieces)
<1>1. /\ n \in Nat \ {0}
      /\ \A i \in 0 .. Length - 1 :
             IF i >= w.numitems /\ i < w.numitems + n
             THEN InWindow(t, i).acks = 0 /\ InWindow(t, i).retries = 0
             ELSE InWindow(t, i) = InWindow(w, i)
  BY AddFields
<1> HIDE DEF t, n
<1>2. w.numitems \in 0 .. Length /\ 0 \in 0 .. Length - 1
  BY BufferAssumption DEF SoundBuffer, Buffer
<1>3. InFlightBuffer(t)
  <2>1. ASSUME NEW i \in 0 .. Length - 1,
               InWindow(t, i).retries = 1 \/ InWindow(t, i).acks = 1
        PROVE  i < SendWindowSize
    <3>1. InWindow(t, i) = InWindow(w, i)
      BY <1>1, <2>1
    <3> QED BY <2>1, <3>1 DEF InFlightBuffer
  <2> QED BY <2>1 DEF InFlightBuffer
<1>4. InWindow(t, 0).acks = 0
  <2>1. CASE w.numitems = 0
    BY <1>1, <1>2, <2>1, BufferAssumption
  <2>2. CASE w.numitems > 0
    <3>1. InWindow(t, 0) = InWindow(w, 0)
      BY <1>1, <1>2, <2>2, BufferAssumption
    <3> QED BY <2>2, <3>1
  <2> QED BY <1>2, <2>1, <2>2, BufferAssumption
<1> QED BY <1>3, <1>4 DEF t

-----------------------------------------------------------------------------
(* The inductive invariant. Contiguous is not inductive alone: window_tick  *)
(* clears a used slot only because the fragments at the front of the window *)
(* that are acknowledged are stored ones; and that the window stands on an  *)
(* unacknowledged fragment after a tick of windowsize steps needs that      *)
(* nothing beyond the window was acknowledged.                             *)
SendIInv == SoundBuffer(outbuf) /\ InFlightBounded /\ WindowSettled

LEMMA SendInitIInv == SendInit => SendIInv
<1> SUFFICES ASSUME SendInit PROVE SendIInv
  OBVIOUS
<1> DEFINE fs == [s \in Slots |-> Empty]
<1>1. outbuf = [ frags |-> fs, numitems |-> 0, window_start |-> 0,
                 last_write |-> 0, chunk_start |-> 0, cur_seq_id |-> 0,
                 start_seq_id |-> 0 ]
  BY DEF SendInit, window_buffer_init
<1>2. fs \in [Slots -> Fragment]
  BY EmptyType
<1>3. 0 \in Slots /\ 0 \in SeqIds /\ 0 \in Nat
  BY BufferAssumption DEF Slots, SeqIds
<1>4. \A i \in 0 .. Length - 1 : InWindow(outbuf, i) = Empty
  <2>1. ASSUME NEW i \in 0 .. Length - 1 PROVE Wrap(0 + i) \in Slots
    BY WrapType, BufferAssumption
  <2> QED BY <1>1, <2>1 DEF InWindow
<1> HIDE DEF fs
<1>5. outbuf \in Buffer /\ outbuf.numitems <= Length
  BY <1>1, <1>2, <1>3, BufferAssumption DEF Buffer
<1>6. Wrap(0 + 0) = 0 /\ (0 + 0) % MaxSeqId = 0
  BY BufferAssumption DEF Wrap
<1>7. ContiguousBuffer(outbuf)
  BY <1>1, <1>4, <1>6 DEF ContiguousBuffer
<1>8. InFlightBounded
  BY <1>4 DEF InFlightBounded, InFlightBuffer, Empty
<1> QED BY <1>1, <1>5, <1>7, <1>8 DEF SendIInv, SoundBuffer, WindowSettled

LEMMA SendNextIInv == SendIInv /\ [SendNext]_sendvars => SendIInv'
<1> SUFFICES ASSUME SendIInv, [SendNext]_sendvars PROVE SendIInv'
  OBVIOUS
<1> USE DEF SendIInv, InFlightBounded, WindowSettled
<1>1. CASE UNCHANGED sendvars
  BY <1>1 DEF sendvars
<1>2. ASSUME NEW pieces \in Packets, Queue(pieces) PROVE SendIInv'
  <2>1. /\ Len(pieces) <= window_buffer_available(outbuf)
        /\ outbuf' = window_add_outgoing_data(outbuf, pieces)
    BY <1>2 DEF Queue
  <2>2. SoundBuffer(outbuf')
    BY <2>1, AddSound
  <2>3. InFlightBuffer(outbuf') /\ InWindow(outbuf', 0).acks = 0
    BY <2>1, AddInFlight
  <2> QED BY <2>2, <2>3
<1>3. ASSUME NEW i \in 0 .. SendWindowSize - 1, SendFrag(i) PROVE SendIInv'
  <2> DEFINE m == MarkSent(outbuf, i)
  <2>1. /\ i \in Sendable(outbuf, SendWindowSize)
        /\ outbuf' = window_tick_sending(m, SendWindowSize)
    BY <1>3 DEF SendFrag
  <2>2. SoundBuffer(m) /\ InFlightBuffer(m)
    BY <2>1, MarkInFlight
  <2> HIDE DEF m
  <2>3. SoundBuffer(outbuf')
    BY <2>1, <2>2, TickSound
  <2>4. /\ InFlightBuffer(outbuf')
        /\ outbuf'.numitems > 0 => InWindow(outbuf', 0).acks = 0
    BY <2>1, <2>2, TickInFlight
  <2> QED BY <2>3, <2>4
<1>4. ASSUME NEW seqid \in SeqIds, TakeAck(seqid) PROVE SendIInv'
  <2> DEFINE m == window_ack(outbuf, SendWindowSize, seqid)
  <2>1. outbuf' = window_tick_sending(m, SendWindowSize)
    BY <1>4 DEF TakeAck
  <2>2. SoundBuffer(m) /\ InFlightBuffer(m)
    BY AckSound, AckInFlight
  <2> HIDE DEF m
  <2>3. SoundBuffer(outbuf')
    BY <2>1, <2>2, TickSound
  <2>4. /\ InFlightBuffer(outbuf')
        /\ outbuf'.numitems > 0 => InWindow(outbuf', 0).acks = 0
    BY <2>1, <2>2, TickInFlight
  <2> QED BY <2>3, <2>4
<1> QED BY <1>1, <1>2, <1>3, <1>4 DEF SendNext

THEOREM SendSpecIInv == SendSpec => []SendIInv
<1> QED BY SendInitIInv, SendNextIInv, PTL DEF SendSpec

(* Two stored fragments are less than a ring, hence less than a sequence id *)
(* range, apart.                                                           *)
LEMMA UniqueFromContiguous == SendIInv => UniqueSeqIds
<1> SUFFICES ASSUME SendIInv, NEW s \in Slots, NEW t \in Slots,
                    Used(outbuf.frags[s]), Used(outbuf.frags[t]),
                    outbuf.frags[s].seqID = outbuf.frags[t].seqID
             PROVE  s = t
  BY DEF UniqueSeqIds
<1> DEFINE a == outbuf.window_start
           x == outbuf.start_seq_id
           i == Distance(a, s)
           j == Distance(a, t)
<1>1. SoundBuffer(outbuf)
  BY DEF SendIInv
<1>2. a \in Slots /\ x \in SeqIds /\ outbuf.numitems \in 0 .. Length
  BY <1>1, BufferAssumption DEF SoundBuffer, Buffer
<1>3. /\ i \in 0 .. Length - 1 /\ Wrap(a + i) = s
      /\ j \in 0 .. Length - 1 /\ Wrap(a + j) = t
  BY <1>2, WrapDistance
<1> HIDE DEF i, j
<1>4. InWindow(outbuf, i) = outbuf.frags[s] /\ InWindow(outbuf, j) = outbuf.frags[t]
  BY <1>3 DEF InWindow
<1>5. i < outbuf.numitems /\ j < outbuf.numitems
  BY <1>1, <1>3, <1>4, UsedInWindow
<1>6. (x + i) % MaxSeqId = (x + j) % MaxSeqId
  BY <1>1, <1>3, <1>4, <1>5 DEF SoundBuffer, ContiguousBuffer
<1>7. i = j
  <2> HIDE DEF x, a
  <2>1. /\ MaxSeqId \in Nat \ {0} /\ Length \in Nat /\ Length < MaxSeqId
        /\ x \in 0 .. MaxSeqId - 1
    BY <1>2, BufferAssumption DEF SeqIds
  <2>2. /\ (x + i) % MaxSeqId = IF x + i < MaxSeqId THEN x + i ELSE x + i - MaxSeqId
        /\ (x + j) % MaxSeqId = IF x + j < MaxSeqId THEN x + j ELSE x + j - MaxSeqId
    BY <1>3, <2>1
  <2> QED BY <1>3, <1>6, <2>1, <2>2
<1> QED BY <1>3, <1>7

(* The buffer keeps its type.                                              *)
THEOREM SendTyping == SendSpec => []SendTypeOK
<1>1. SendIInv => SendTypeOK
  BY DEF SendIInv, SoundBuffer, SendTypeOK
<1> QED BY <1>1, SendSpecIInv, PTL

(* The cursors and the count of the sending buffer never drift apart.      *)
THEOREM ContiguousAlways == SendSpec => []Contiguous
<1>1. SendIInv => Contiguous
  BY DEF SendIInv, SoundBuffer, Contiguous
<1> QED BY <1>1, SendSpecIInv, PTL

(* An acknowledgement means one fragment.                                  *)
THEOREM UniqueAlways == SendSpec => []UniqueSeqIds
<1> QED BY UniqueFromContiguous, SendSpecIInv, PTL

(* At most windowsize fragments are in flight.                             *)
THEOREM FlowControl == SendSpec => []InFlightBounded
<1>1. SendIInv => InFlightBounded
  BY DEF SendIInv
<1> QED BY <1>1, SendSpecIInv, PTL

(* No handler forgets to move the window.                                  *)
THEOREM SettledAlways == SendSpec => []WindowSettled
<1>1. SendIInv => WindowSettled
  BY DEF SendIInv
<1> QED BY <1>1, SendSpecIInv, PTL

(* Cursors, count, ids and window of the sending buffer always agree.       *)
THEOREM SendCoherentAlways == SendSpec => []SendCoherent
<1>1. Contiguous /\ UniqueSeqIds /\ WindowSettled => SendCoherent
  BY DEF SendCoherent
<1> QED BY <1>1, ContiguousAlways, UniqueAlways, SettledAlways, PTL

-----------------------------------------------------------------------------
(* The buffer as a queue.                                                  *)

LEMMA PendingType ==
    ASSUME NEW w, SoundBuffer(w)
    PROVE  /\ Pending(w) \in Seq(Data)
           /\ Len(Pending(w)) = w.numitems
           /\ \A i \in 1 .. w.numitems :
                  /\ i - 1 \in 0 .. Length - 1
                  /\ Pending(w)[i] = InWindow(w, i - 1).data
<1>1. w.numitems \in Nat /\ w.numitems <= Length
  BY DEF SoundBuffer, Buffer
<1>2. ASSUME NEW i \in 1 .. w.numitems
      PROVE  i - 1 \in 0 .. Length - 1 /\ InWindow(w, i - 1).data \in Data
  <2>1. i - 1 \in 0 .. Length - 1 /\ i - 1 < w.numitems
    BY <1>1, BufferAssumption
  <2> QED BY <2>1, UsedInWindow DEF Used, Fragment
<1> QED BY <1>1, <1>2 DEF Pending

(* Marking a fragment as sent or acknowledged leaves the contents alone.    *)
LEMMA SamePending ==
    ASSUME NEW w, SoundBuffer(w), NEW t, t.numitems = w.numitems,
           \A j \in 0 .. Length - 1 : InWindow(t, j).data = InWindow(w, j).data
    PROVE  Pending(t) = Pending(w)
<1>1. \A i \in 1 .. w.numitems : i - 1 \in 0 .. Length - 1
  BY PendingType
<1> QED BY <1>1 DEF Pending

LEMMA TickPending ==
    ASSUME NEW w, SoundBuffer(w)
    PROVE  \E k \in 0 .. w.numitems :
               Pending(window_tick_sending(w, SendWindowSize))
                   = SubSeq(Pending(w), k + 1, w.numitems)
<1> DEFINE t == window_tick_sending(w, SendWindowSize)
           k == Leading(w, SendWindowSize)
<1>1. /\ k \in 0 .. w.numitems
      /\ t.numitems = w.numitems - k
      /\ \A i \in 0 .. Length - 1 :
             InWindow(t, i) = IF k + i < Length THEN InWindow(w, k + i)
                                                ELSE Empty
  BY TickFields
<1>2. SoundBuffer(t)
  BY TickSound
<1> HIDE DEF t, k
<1> DEFINE n == w.numitems
           p == Pending(w)
           q == Pending(t)
<1>3. n \in Nat /\ n <= Length
  BY DEF SoundBuffer, Buffer
<1>4. /\ p \in Seq(Data) /\ Len(p) = n
      /\ \A i \in 1 .. n : p[i] = InWindow(w, i - 1).data
  BY PendingType
<1>5. /\ q \in Seq(Data) /\ Len(q) = n - k
      /\ \A i \in 1 .. n - k : q[i] = InWindow(t, i - 1).data
  BY <1>1, <1>2, PendingType
<1>6. ASSUME NEW i \in 1 .. n - k PROVE q[i] = p[k + i]
  <2>1. /\ i - 1 \in 0 .. Length - 1 /\ k + i \in 1 .. n
        /\ k + (i - 1) < Length /\ k + (i - 1) = (k + i) - 1
    BY <1>1, <1>3, BufferAssumption
  <2> HIDE DEF n, p, q
  <2> QED BY <1>1, <1>4, <1>5, <2>1
<1>7. q = SubSeq(p, k + 1, n)
  <2> HIDE DEF n, p, q
  <2>1. k \in Nat /\ k <= n
    BY <1>1, <1>3 DEF n
  <2>2. /\ SubSeq(p, k + 1, n) \in Seq(Data)
        /\ Len(SubSeq(p, k + 1, n)) = n - k
        /\ \A i \in 1 .. n - k : SubSeq(p, k + 1, n)[i] = p[k + i]
    BY <1>3, <1>4, <2>1
  <2>3. \A i \in 1 .. Len(q) : q[i] = SubSeq(p, k + 1, n)[i]
    BY <1>5, <1>6, <2>2
  <2> QED BY <1>5, <2>2, <2>3, SeqEqual
<1> QED BY <1>1, <1>7 DEF t, k

LEMMA AddPending ==
    ASSUME NEW w, SoundBuffer(w), NEW pieces \in Packets,
           Len(pieces) <= window_buffer_available(w)
    PROVE  Pending(window_add_outgoing_data(w, pieces)) = Pending(w) \o pieces
<1> DEFINE t == window_add_outgoing_data(w, pieces)
           m == Len(pieces)
           n == w.numitems
           p == Pending(w)
           q == Pending(t)
<1>1. /\ m \in Nat \ {0} /\ n + m <= Length /\ t.numitems = n + m
      /\ \A i \in 0 .. Length - 1 :
             IF i >= n /\ i < n + m
             THEN InWindow(t, i).data = pieces[i - n + 1]
             ELSE InWindow(t, i) = InWindow(w, i)
  BY AddFields
<1>2. SoundBuffer(t)
  BY AddSound
<1> HIDE DEF t, m
<1>3. n \in Nat
  BY DEF SoundBuffer, Buffer
<1>4. /\ p \in Seq(Data) /\ Len(p) = n
      /\ \A i \in 1 .. n : p[i] = InWindow(w, i - 1).data
  BY PendingType
<1>5. /\ q \in Seq(Data) /\ Len(q) = n + m
      /\ \A i \in 1 .. n + m : q[i] = InWindow(t, i - 1).data
  BY <1>1, <1>2, PendingType
<1>6. pieces \in Seq(Data) /\ Len(pieces) = m
  BY SendAssumption DEF m
<1> HIDE DEF n, p, q
<1>7. /\ p \o pieces \in Seq(Data) /\ Len(p \o pieces) = n + m
      /\ \A i \in 1 .. n + m :
             (p \o pieces)[i] = IF i <= n THEN p[i] ELSE pieces[i - n]
  BY <1>4, <1>6, ConcatProperties
<1>8. ASSUME NEW i \in 1 .. n + m
      PROVE  q[i] = IF i <= n THEN p[i] ELSE pieces[i - n]
  <2>1. i - 1 \in 0 .. Length - 1
    BY <1>1, <1>3, BufferAssumption
  <2>2. CASE i <= n
    <3>1. ~ (i - 1 >= n) /\ i \in 1 .. n
      BY <1>1, <1>3, <2>2
    <3> QED BY <1>1, <1>4, <1>5, <2>1, <2>2, <3>1
  <2>3. CASE ~ (i <= n)
    <3>1. i - 1 >= n /\ i - 1 < n + m /\ i - 1 - n + 1 = i - n
      BY <1>1, <1>3, <2>3
    <3> QED BY <1>1, <1>5, <2>1, <2>3, <3>1
  <2> QED BY <2>2, <2>3
<1>9. q = p \o pieces
  <2>1. \A i \in 1 .. Len(q) : q[i] = (p \o pieces)[i]
    BY <1>5, <1>7, <1>8
  <2> QED BY <1>5, <1>7, <2>1, SeqEqual
<1> QED BY <1>9 DEF q, p, t

LEMMA SendPending ==
    ASSUME NEW w, SoundBuffer(w), InFlightBuffer(w),
           NEW i \in Sendable(w, SendWindowSize)
    PROVE  Pending(MarkSent(w, i)) = Pending(w)
<1>1. i \in 0 .. Length - 1 /\ i < w.numitems
  BY MarkInFlight
<1>2. /\ MarkSent(w, i).numitems = w.numitems
      /\ \A j \in 0 .. Length - 1 :
            InWindow(MarkSent(w, i), j) =
                IF j = i THEN [InWindow(w, i) EXCEPT !.retries = 1]
                         ELSE InWindow(w, j)
  BY <1>1, MarkSound
<1>3. InWindow(w, i) \in Fragment
  BY <1>1, UsedInWindow
<1>4. \A j \in 0 .. Length - 1 :
          InWindow(MarkSent(w, i), j).data = InWindow(w, j).data
  BY <1>2, <1>3 DEF Fragment
<1> QED BY <1>2, <1>4, SamePending

LEMMA AckPending ==
    ASSUME NEW w, SoundBuffer(w), NEW seqid \in SeqIds
    PROVE  Pending(window_ack(w, SendWindowSize, seqid)) = Pending(w)
<1> DEFINE t == window_ack(w, SendWindowSize, seqid)
<1>1. /\ t.numitems = w.numitems
      /\ \/ t = w
         \/ \E i \in 0 .. SendWindowSize - 1 :
                /\ i < w.numitems
                /\ \A j \in 0 .. Length - 1 :
                       InWindow(t, j) =
                           IF j = i THEN [InWindow(w, i) EXCEPT !.acks = 1]
                                    ELSE InWindow(w, j)
  BY AckSound
<1> HIDE DEF t
<1>2. CASE t = w
  BY <1>2 DEF t
<1>3. ASSUME NEW i \in 0 .. SendWindowSize - 1,
             \A j \in 0 .. Length - 1 :
                    InWindow(t, j) =
                        IF j = i THEN [InWindow(w, i) EXCEPT !.acks = 1]
                                 ELSE InWindow(w, j)
      PROVE  Pending(t) = Pending(w)
  <2>1. InWindow(w, i) \in Fragment
    BY UsedInWindow, SendAssumption, BufferAssumption
  <2>2. \A j \in 0 .. Length - 1 : InWindow(t, j).data = InWindow(w, j).data
    BY <1>3, <2>1 DEF Fragment
  <2> QED BY <1>1, <2>2, SamePending
<1> QED BY <1>1, <1>2, <1>3 DEF t

LEMMA NextQueueStep == SendIInv /\ [SendNext]_sendvars => [QueueStep]_sendvars
<1> SUFFICES ASSUME SendIInv, SendNext PROVE QueueStep
  BY DEF sendvars
<1>0. SoundBuffer(outbuf) /\ InFlightBuffer(outbuf)
  BY DEF SendIInv, InFlightBounded
<1>1. ASSUME NEW pieces \in Packets, Queue(pieces) PROVE QueueStep
  <2>1. /\ Len(pieces) <= window_buffer_available(outbuf)
        /\ outbuf' = window_add_outgoing_data(outbuf, pieces)
    BY <1>1 DEF Queue
  <2>2. Pending(outbuf') = Pending(outbuf) \o pieces
    BY <1>0, <2>1, AddPending
  <2> QED BY <2>2 DEF QueueStep
<1>2. ASSUME NEW m, SoundBuffer(m), m.numitems = outbuf.numitems,
             Pending(m) = Pending(outbuf),
             outbuf' = window_tick_sending(m, SendWindowSize)
      PROVE  QueueStep
  <2>1. \E k \in 0 .. outbuf.numitems :
            Pending(outbuf') = SubSeq(Pending(outbuf), k + 1, outbuf.numitems)
    BY <1>2, TickPending
  <2> QED BY <2>1 DEF QueueStep
<1>3. ASSUME NEW i \in 0 .. SendWindowSize - 1, SendFrag(i) PROVE QueueStep
  <2>1. /\ i \in Sendable(outbuf, SendWindowSize)
        /\ outbuf' = window_tick_sending(MarkSent(outbuf, i), SendWindowSize)
    BY <1>3 DEF SendFrag
  <2>2. SoundBuffer(MarkSent(outbuf, i))
        /\ MarkSent(outbuf, i).numitems = outbuf.numitems
    BY <1>0, <2>1, MarkInFlight, MarkSound
  <2>3. Pending(MarkSent(outbuf, i)) = Pending(outbuf)
    BY <1>0, <2>1, SendPending
  <2> QED BY <1>2, <2>1, <2>2, <2>3
<1>4. ASSUME NEW seqid \in SeqIds, TakeAck(seqid) PROVE QueueStep
  <2>1. outbuf' = window_tick_sending(window_ack(outbuf, SendWindowSize, seqid),
                                      SendWindowSize)
    BY <1>4 DEF TakeAck
  <2>2. /\ SoundBuffer(window_ack(outbuf, SendWindowSize, seqid))
        /\ window_ack(outbuf, SendWindowSize, seqid).numitems = outbuf.numitems
    BY <1>0, AckSound
  <2>3. Pending(window_ack(outbuf, SendWindowSize, seqid)) = Pending(outbuf)
    BY <1>0, AckPending
  <2> QED BY <1>2, <2>1, <2>2, <2>3
<1> QED BY <1>1, <1>3, <1>4 DEF SendNext

(* Fragments leave the buffer in the order in which they entered it.       *)
THEOREM QueueAlways == SendSpec => QueueDiscipline
<1> QED BY SendSpecIInv, NextQueueStep, PTL DEF SendSpec, QueueDiscipline

-----------------------------------------------------------------------------
(* What a tick releases was acknowledged when it ran.                      *)
LEMMA ReleasedAcked ==
    ASSUME NEW w, SoundBuffer(w), NEW i \in 0 .. Length - 1,
           i < w.numitems - window_tick_sending(w, SendWindowSize).numitems
    PROVE  InWindow(w, i).acks = 1
<1> DEFINE k == Leading(w, SendWindowSize)
<1>1. /\ k \in Nat
      /\ \A j \in 0 .. k - 1 : InWindow(w, j).acks >= 1
  BY LeadingValue, SendAssumption, BufferAssumption DEF SoundBuffer
<1>2. window_tick_sending(w, SendWindowSize).numitems = w.numitems - k
  BY TickFields
<1> HIDE DEF k
<1>3. w.numitems \in Nat
  BY DEF SoundBuffer, Buffer
<1>4. i \in 0 .. k - 1
  BY <1>1, <1>2, <1>3, BufferAssumption
<1>5. InWindow(w, i).acks \in {0, 1}
  BY UsedInWindow DEF Fragment
<1> QED BY <1>1, <1>4, <1>5

LEMMA NextReleaseStep == SendIInv /\ [SendNext]_sendvars => [ReleaseStep]_sendvars
<1> SUFFICES ASSUME SendIInv, SendNext,
                    NEW i \in 0 .. SendWindowSize - 1, NEW j \in 0 .. SendWindowSize - 1,
                    i < outbuf.numitems - outbuf'.numitems,
                    j < outbuf.numitems - outbuf'.numitems,
                    InWindow(outbuf, i).acks = 0, InWindow(outbuf, j).acks = 0
             PROVE  i = j
  BY DEF sendvars, ReleaseStep
<1>0. /\ SoundBuffer(outbuf) /\ InFlightBuffer(outbuf)
      /\ i \in 0 .. Length - 1 /\ j \in 0 .. Length - 1
  BY SendAssumption, BufferAssumption DEF SendIInv, InFlightBounded
<1>1. ASSUME NEW pieces \in Packets, Queue(pieces) PROVE FALSE
  <2>1. /\ Len(pieces) <= window_buffer_available(outbuf)
        /\ outbuf' = window_add_outgoing_data(outbuf, pieces)
    BY <1>1 DEF Queue
  <2>2. /\ Len(pieces) \in Nat
        /\ outbuf'.numitems = outbuf.numitems + Len(pieces)
    BY <1>0, <2>1, AddFields
  <2>3. outbuf.numitems \in Nat /\ i \in Nat
    BY <1>0, BufferAssumption DEF SoundBuffer, Buffer
  <2> QED BY <2>2, <2>3
<1>2. ASSUME NEW x \in 0 .. SendWindowSize - 1, SendFrag(x) PROVE FALSE
  <2> DEFINE m == MarkSent(outbuf, x)
  <2>1. /\ x \in Sendable(outbuf, SendWindowSize)
        /\ outbuf' = window_tick_sending(m, SendWindowSize)
    BY <1>2 DEF SendFrag
  <2>2. SoundBuffer(m) /\ x \in 0 .. Length - 1 /\ x < outbuf.numitems
    BY <1>0, <2>1, MarkInFlight
  <2>3. /\ m.numitems = outbuf.numitems
        /\ InWindow(m, i) = IF i = x THEN [InWindow(outbuf, x) EXCEPT !.retries = 1]
                                     ELSE InWindow(outbuf, i)
    BY <1>0, <2>2, MarkSound
  <2>4. InWindow(outbuf, x) \in Fragment
    BY <1>0, <2>2, UsedInWindow
  <2> HIDE DEF m
  <2>5. InWindow(m, i).acks = 0
    BY <2>3, <2>4 DEF Fragment
  <2>6. InWindow(m, i).acks = 1
    BY <1>0, <2>1, <2>2, <2>3, ReleasedAcked
  <2> QED BY <2>5, <2>6
<1>3. ASSUME NEW seqid \in SeqIds, TakeAck(seqid) PROVE i = j
  <2> DEFINE m == window_ack(outbuf, SendWindowSize, seqid)
  <2>1. outbuf' = window_tick_sending(m, SendWindowSize)
    BY <1>3 DEF TakeAck
  <2>2. /\ SoundBuffer(m)
        /\ m.numitems = outbuf.numitems
        /\ \/ m = outbuf
           \/ \E x \in 0 .. SendWindowSize - 1 :
                  \A y \in 0 .. Length - 1 :
                      InWindow(m, y) =
                          IF y = x THEN [InWindow(outbuf, x) EXCEPT !.acks = 1]
                                   ELSE InWindow(outbuf, y)
    BY <1>0, AckSound
  <2> HIDE DEF m
  <2>3. InWindow(m, i).acks = 1 /\ InWindow(m, j).acks = 1
    BY <1>0, <2>1, <2>2, ReleasedAcked
  <2> QED BY <1>0, <2>2, <2>3
<1> QED BY <1>1, <1>2, <1>3 DEF SendNext

(* One answer releases at most one fragment nobody had acknowledged.       *)
THEOREM ReleaseAlways == SendSpec => ReleaseOnlyAcked
<1> QED BY SendSpecIInv, NextReleaseStep, PTL DEF SendSpec, ReleaseOnlyAcked

=============================================================================
