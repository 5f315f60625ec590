------------------------- MODULE PathLearning_proofs -------------------------
(***************************************************************************)
(* Proofs about all the client learns of the path: for every set of paths,  *)
(* that is, whatever limit a path has and however many answers it loses,    *)
(* delays or corrupts, the type and the size found are ones it brings; and  *)
(* for every target, every round-trip time and any number of answers and    *)
(* SERVFAILs in any order, the time-outs fit each other.                    *)
(*                                                                         *)
(* The two searches come first, then the adaptation, then the whole. The    *)
(* invariant of each part is inductive by itself.                          *)
(***************************************************************************)
EXTENDS PathLearning, TLAPS

-----------------------------------------------------------------------------
(* The two searches.                                                       *)

(* The range goes through these values, whatever the answers are.           *)
Ranges == {768, 384, 192, 96, 48, 24, 12, 6, 3, 1, 0}

(* What the search for the size keeps. A proposal is at least the range, so *)
(* that going down by half of it leaves a size, and above 1; together with   *)
(* the range it stays below 1536.                                          *)
ProposalInv ==
    /\ range \in Ranges
    /\ proposed_fragsize \in Int
    /\ range <= proposed_fragsize /\ 2 <= proposed_fragsize
    /\ proposed_fragsize + range <= 1536
    /\ try \in 0 .. 2

(* The best size is one that came whole, if there is one, and as long as    *)
(* the search goes on it is below the proposal by the range at least: half  *)
(* of that is more than what the proposal comes down next.                  *)
Ahead == range > 0 /\ max_fragsize + range <= proposed_fragsize

BestSize ==
    /\ limit \in Nat
    /\ max_fragsize \in Int /\ 0 <= max_fragsize + 1 /\ max_fragsize <= 1536
    /\ max_fragsize <= 0 \/ max_fragsize <= limit

BestInv == BestSize /\ (~ size_found => Ahead)

SizeInv == ProposalInv /\ BestInv

(* As long as every answer that the path brings has come, the limit is      *)
(* between two sizes which come closer by half in every round: the best one *)
(* is not further below the proposal than they are apart, and the limit is  *)
(* not further above it, unless it is out of the search's reach. The last   *)
(* range but one is 3, which is not halved exactly.                        *)
Reach == IF range = 1 THEN 2 ELSE range

Window ==
    /\ range # 0
    /\ range < 8 => max_fragsize < 300
    /\ 0 <= max_fragsize
    /\ proposed_fragsize - Reach <= max_fragsize
    /\ limit < proposed_fragsize + Reach \/ proposed_fragsize + Reach = 1536

CloseInv ==
    /\ fragments_kept /\ ~corrupting /\ ~size_found => Window
    /\ ProbeClose

(* What the search for the type keeps: the best type is one that is         *)
(* answered, and until the search ends there is one better left to try.     *)
TypeInv ==
    /\ Delays \subseteq 1 .. Qtype!Never
    /\ delay \in [Qtype!Types -> 1 .. Qtype!Never]
    /\ Qtype!TypeOK
    /\ ~ type_found => timeout <= Qtype!MaxTimeout
    /\ Qtype!TypeWorks

(* If no query was lost, the types tried in this round do not answer within *)
(* its wait, and when the search is over, no better type does within the    *)
(* longest.                                                                *)
TriedInv ==
    /\ answers_kept /\ ~ type_found =>
         \A t \in Qtype!Types : t < qtypenum => delay[t] > timeout
    /\ Qtype!NoneBetter

(* No size is known before the search for it, which may be over another     *)
(* path than the one the variables start with.                              *)
StageInv ==
    /\ stage \in {"qtype", "between", "fragsize"}
    /\ stage # "fragsize" => max_fragsize = 0 /\ proposed_fragsize = 768 /\ range = 768
    /\ stage = "qtype" => TriedInv

ProbesIInv == StageInv /\ SizeInv /\ TypeInv /\ CloseInv

(* By the end of a round the best size stays below the proposal.           *)
LEMMA StaysAhead ==
    ASSUME NEW p \in Int, NEW r \in Nat, NEW m \in Int, m + r <= p,
           NEW h \in Nat, 2 * h <= r, NEW n, NEW q,
           (n = m /\ q = p - h) \/ (n = p /\ q = p + h)
    PROVE  n + h <= q
  OBVIOUS

(* The end of a round keeps the invariant of the search for the size, if    *)
(* what is the best size then came whole or was the best before.            *)
LEMMA SizeRound ==
    /\ SizeInv /\ Ahead
    /\ \/ Fragsize!EndRound(max_fragsize)
       \/ proposed_fragsize <= limit /\ Fragsize!EndRound(proposed_fragsize)
    /\ limit' = limit
    => SizeInv'
<1> SUFFICES ASSUME SizeInv, Ahead, limit' = limit,
                    \/ Fragsize!EndRound(max_fragsize)
                    \/ proposed_fragsize <= limit /\ Fragsize!EndRound(proposed_fragsize)
             PROVE  SizeInv'
  OBVIOUS
<1>1. /\ range \in Ranges /\ proposed_fragsize \in Int
      /\ range <= proposed_fragsize /\ 2 <= proposed_fragsize
      /\ proposed_fragsize + range <= 1536
  BY DEF SizeInv, ProposalInv
<1>2. /\ range' = range \div 2 /\ try' = 0
      /\ \/ proposed_fragsize' = proposed_fragsize + range'
         \/ proposed_fragsize' = proposed_fragsize - range'
  BY DEF Fragsize!EndRound
<1>3. /\ range' \in Ranges
      /\ 2 * range' <= range
      /\ range >= 3 \/ range' = 0
  BY <1>1, <1>2 DEF Ranges
<1>4. /\ proposed_fragsize' \in Int
      /\ range' <= proposed_fragsize' /\ 2 <= proposed_fragsize'
      /\ proposed_fragsize' + range' <= 1536
  BY <1>1, <1>2, <1>3 DEF Ranges
<1>5. ProposalInv'
  BY <1>2, <1>3, <1>4 DEF ProposalInv, Ranges
<1>6. \/ max_fragsize' = max_fragsize
      \/ max_fragsize' = proposed_fragsize /\ proposed_fragsize <= limit
  BY DEF Fragsize!EndRound
<1>7. range \in Nat /\ proposed_fragsize \in 2 .. 1536
  BY <1>1 DEF Ranges
<1>8. max_fragsize' + range' <= proposed_fragsize'
  <2>1. range' \in Ranges /\ 2 * range' <= range
    BY <1>3
  <2>2. range' \in Nat
    BY <2>1 DEF Ranges
  <2>3. max_fragsize \in Int /\ max_fragsize + range <= proposed_fragsize /\ range > 0
    BY DEF SizeInv, BestInv, BestSize, Ahead
  <2>4. max_fragsize # proposed_fragsize
    BY <1>7, <2>3
  <2>5. \/ max_fragsize' = max_fragsize /\ proposed_fragsize' = proposed_fragsize - range'
        \/ max_fragsize' = proposed_fragsize /\ proposed_fragsize' = proposed_fragsize + range'
    BY <2>4 DEF Fragsize!EndRound
  <2>6. proposed_fragsize \in Int /\ range \in Nat
    BY <1>1, <1>7
  <2>7. max_fragsize \in Int /\ max_fragsize + range <= proposed_fragsize
    BY <2>3
  <2>8. range' \in Nat /\ 2 * range' <= range
    BY <2>1, <2>2
  <2> QED BY <2>5, <2>6, <2>7, <2>8, StaysAhead, Zenon
<1>9. ~ size_found' => Ahead'
  <2>1. range' = 0 => size_found'
    BY DEF Fragsize!EndRound
  <2>2. range' # 0 => range' > 0
    BY <1>3 DEF Ranges
  <2> QED BY <1>8, <2>1, <2>2, Zenon DEF Ahead
<1>10. BestInv'
  <2>1. BestSize'
    BY <1>6, <1>7 DEF SizeInv, BestInv, BestSize
  <2> QED BY <1>9, <2>1, Zenon DEF BestInv
<1> QED
  BY <1>5, <1>10 DEF SizeInv

(* The end of a round halves the window: the limit is on the side of the    *)
(* proposal that the best size says.                                        *)
LEMMA CloseRound ==
    ASSUME SizeInv, Window, NEW max,
           \/ max = proposed_fragsize /\ proposed_fragsize <= limit
           \/ max = max_fragsize /\ limit < proposed_fragsize,
           Fragsize!EndRound(max), limit' = limit
    PROVE  CloseInv'
<1>1. /\ range \in Ranges /\ proposed_fragsize \in Int /\ proposed_fragsize >= 2
      /\ proposed_fragsize + range <= 1536
      /\ limit \in Nat /\ max_fragsize \in Int
      /\ max_fragsize <= 0 \/ max_fragsize <= limit
  BY DEF SizeInv, ProposalInv, BestInv, BestSize
<1>2. /\ max_fragsize' = max /\ range' = range \div 2
      /\ proposed_fragsize' = IF max = proposed_fragsize THEN proposed_fragsize + range'
                                                        ELSE proposed_fragsize - range'
  BY DEF Fragsize!EndRound
<1>3. size_found' <=> max < 0 \/ range' = 0 \/ (range' < 8 /\ max >= 300)
  BY Zenon DEF Fragsize!EndRound
<1>4. /\ range # 0 /\ (range < 8 => max_fragsize < 300) /\ 0 <= max_fragsize
      /\ proposed_fragsize - Reach <= max_fragsize
      /\ limit < proposed_fragsize + Reach \/ proposed_fragsize + Reach = 1536
  BY DEF Window
<1>5. ASSUME range' # 0, ~(range' < 8 /\ max >= 300) PROVE Window'
  <2>1. range \in {768, 384, 192, 96, 48, 24, 12, 6, 3}
    BY <1>1, <1>2, <1>5 DEF Ranges
  <2>2. /\ range = 3 => Reach' = 2 /\ range' = 1
        /\ range # 3 => Reach' = range' /\ 2 * range' = range
        /\ Reach = range
    <3>1. range # 3 => 2 * range' = range /\ range' # 1
      BY <1>2, <2>1
    <3>2. range = 3 => range' = 1
      BY <1>2
    <3> QED
      BY <2>1, <3>1, <3>2 DEF Reach
  <2>3. /\ proposed_fragsize' - Reach' <= max
        /\ \/ limit < proposed_fragsize' + Reach'
           \/ proposed_fragsize' + Reach' = 1536
    <3>1. CASE max = proposed_fragsize /\ proposed_fragsize <= limit
      BY <1>1, <1>2, <1>4, <2>1, <2>2, <3>1
    <3>2. CASE max = max_fragsize /\ limit < proposed_fragsize
      BY <1>1, <1>2, <1>4, <2>1, <2>2, <3>2
    <3> QED
      BY <3>1, <3>2
  <2>4. 0 <= max /\ max \in Int /\ range' \in Int
    BY <1>1, <1>2, <1>4, <2>1
  <2> QED
    BY <1>2, <1>5, <2>3, <2>4 DEF Window
<1>6. range' = 0 \/ (range' < 8 /\ max >= 300) =>
         \/ max >= 300 /\ limit - max < 12
         \/ max < 300 /\ limit - max <= 2
         \/ max = 1524
  BY <1>1, <1>2, <1>4 DEF Reach, Ranges
<1>7. max >= 0
  BY <1>1, <1>4
<1>8. size_found' => range' = 0 \/ (range' < 8 /\ max >= 300)
  BY <1>1, <1>3, <1>7
<1>9. ~size_found' => Window'
  BY <1>3, <1>5, Zenon
<1> QED
  BY <1>2, <1>6, <1>8, <1>9 DEF CloseInv, ProbeClose, Fragsize!ProbeClose

(* Answers that were lost or changed on the way keep it by themselves.      *)
LEMMA CloseStep == SizeInv /\ CloseInv /\ Fragsize!Next => CloseInv'
<1>0. SUFFICES ASSUME SizeInv, CloseInv, Fragsize!Next PROVE CloseInv'
  OBVIOUS
<1>k. CASE ~(fragments_kept' /\ ~corrupting')
  BY <1>k DEF CloseInv, ProbeClose, Fragsize!ProbeClose
<1> SUFFICES ASSUME fragments_kept' /\ ~corrupting' PROVE CloseInv'
  BY <1>k
<1>1. /\ ~size_found /\ limit' = limit /\ corrupting' = corrupting
      /\ fragments_kept' => fragments_kept
  BY <1>0, Zenon DEF Fragsize!Next, Fragsize!Whole, Fragsize!Cut, Fragsize!Corrupt,
     Fragsize!NoAnswer, Fragsize!path
<1>2. Window
  BY <1>0, <1>1 DEF CloseInv
<1>3. proposed_fragsize \in 2 .. 1536 /\ limit \in Nat
  BY <1>0 DEF SizeInv, ProposalInv, BestInv, BestSize, Ranges
<1>4. CASE Fragsize!Whole
  <2>1. proposed_fragsize <= limit /\ Fragsize!EndRound(proposed_fragsize)
    BY <1>4 DEF Fragsize!Whole
  <2> QED
    BY <1>1, <1>2, <2>1, <1>0, CloseRound
<1>5. CASE Fragsize!Cut
  <2>1. limit < proposed_fragsize /\ Fragsize!EndRound(max_fragsize)
    BY <1>1, <1>3, <1>5 DEF Fragsize!Cut
  <2> QED
    BY <1>1, <1>2, <2>1, <1>0, CloseRound
<1>6. CASE Fragsize!Corrupt
  <2>1. max_fragsize' = -1 /\ size_found'
    BY <1>6 DEF Fragsize!Corrupt
  <2>2. ~(max_fragsize' >= 0)
    BY <2>1
  <2> QED
    BY <2>1, <2>2, Zenon DEF CloseInv, ProbeClose, Fragsize!ProbeClose
<1>7. CASE Fragsize!NoAnswer
  <2>1. limit < proposed_fragsize
    BY <1>3, <1>7 DEF Fragsize!NoAnswer
  <2>2. CASE try + 1 < Fragsize!Tries
    <3>1. /\ proposed_fragsize' = proposed_fragsize /\ range' = range
          /\ max_fragsize' = max_fragsize /\ ~size_found'
      BY <1>1, <1>7, <2>2 DEF Fragsize!NoAnswer
    <3> QED
      BY <1>1, <1>2, <3>1 DEF CloseInv, ProbeClose, Fragsize!ProbeClose, Window, Reach
  <2>3. CASE ~(try + 1 < Fragsize!Tries)
    <3>1. Fragsize!EndRound(max_fragsize)
      BY <1>7, <2>3 DEF Fragsize!NoAnswer
    <3> QED
      BY <1>1, <1>2, <2>1, <3>1, <1>0, CloseRound
  <2> QED
    BY <2>2, <2>3
<1> QED
  BY <1>0, <1>4, <1>5, <1>6, <1>7 DEF Fragsize!Next

(* A step of the search for the size.                                       *)
LEMMA SizeStep == SizeInv /\ Fragsize!Next => SizeInv'
<1> SUFFICES ASSUME SizeInv, Fragsize!Next PROVE SizeInv'
  OBVIOUS
<1>0. Ahead
  <2>1. ~ size_found
    BY DEF Fragsize!Next, Fragsize!Whole, Fragsize!Cut, Fragsize!Corrupt, Fragsize!NoAnswer
  <2> QED BY <2>1 DEF SizeInv, BestInv, BestSize
<1>1. CASE Fragsize!Whole
  BY <1>0, <1>1, SizeRound DEF Fragsize!Whole, Fragsize!path
<1>2. CASE Fragsize!Cut
  BY <1>0, <1>2, SizeRound DEF Fragsize!Cut, Fragsize!path
<1>3. CASE Fragsize!Corrupt
  <2>1. /\ max_fragsize' = -1 /\ size_found' = TRUE /\ limit' = limit
        /\ UNCHANGED <<proposed_fragsize, range, try>>
    BY <1>3 DEF Fragsize!Corrupt, Fragsize!path
  <2>2. ProposalInv'
    BY <2>1 DEF SizeInv, ProposalInv
  <2>3. BestInv'
    BY <2>1 DEF SizeInv, BestInv, BestSize
  <2> QED BY <2>2, <2>3 DEF SizeInv
<1>4. CASE Fragsize!NoAnswer
  <2>1. CASE try + 1 < Fragsize!Tries
    <3>1. /\ UNCHANGED <<proposed_fragsize, range, max_fragsize, size_found, limit>>
          /\ try' = try + 1
      BY <1>4, <2>1 DEF Fragsize!NoAnswer, Fragsize!path
    <3>2. ProposalInv'
      BY <2>1, <3>1 DEF SizeInv, ProposalInv, Fragsize!Tries
    <3>3. BestInv'
      BY <1>0, <3>1 DEF SizeInv, BestInv, BestSize, Ahead
    <3> QED BY <3>2, <3>3 DEF SizeInv
  <2>2. CASE ~ (try + 1 < Fragsize!Tries)
    BY <1>0, <1>4, <2>2, SizeRound DEF Fragsize!NoAnswer, Fragsize!path
  <2> QED
    BY <2>1, <2>2
<1> QED
  BY <1>1, <1>2, <1>3, <1>4 DEF Fragsize!Next

(* A step of the search for the type. A round ends with a type that was      *)
(* answered, or with the one known before.                                 *)
LEMMA TypeStep == TypeInv /\ Qtype!Next => TypeInv'
<1> SUFFICES ASSUME TypeInv, Qtype!Next PROVE TypeInv'
  OBVIOUS
<1> USE DEF Qtype!Types, Qtype!Never, Qtype!None, Qtype!MaxTimeout
<1>1. /\ Delays \subseteq 1 .. 5
      /\ delay \in [0 .. 6 -> 1 .. 5] /\ delay' = delay
      /\ timeout \in 1 .. 4 /\ qtypenum \in 0 .. 6
      /\ highestworking \in 0 .. 6 \cup {100}
      /\ highestworking # 100 => delay[highestworking] # 5
  BY DEF TypeInv, Qtype!TypeOK, Qtype!TypeWorks, Qtype!Next, Qtype!Answered, Qtype!NotAnswered
<1>2. ~ type_found /\ qtypenum < highestworking
  BY Zenon DEF TypeInv, Qtype!TypeOK, Qtype!Next, Qtype!Answered, Qtype!NotAnswered
<1>3. timeout \in 1 .. 3
  BY <1>1, <1>2 DEF TypeInv
<1>4. ASSUME Qtype!Answered PROVE TypeInv'
  <2>1. /\ highestworking' = qtypenum /\ timeout' = timeout + 1 /\ qtypenum' = 0
        /\ delay[qtypenum] # 5
    BY <1>1, <1>3, <1>4 DEF Qtype!Answered, Qtype!EndRound
  <2>2. ~ type_found' => qtypenum # 0 /\ ~ (timeout' > 3)
    BY <1>4, Zenon DEF Qtype!Answered, Qtype!EndRound
  <2> QED
    BY <1>1, <1>3, <2>1, <2>2 DEF TypeInv, Qtype!TypeOK, Qtype!TypeWorks
<1>5. ASSUME Qtype!NotAnswered PROVE TypeInv'
  <2>1. CASE qtypenum + 1 \in Qtype!Types /\ qtypenum + 1 < highestworking
    <3>1. /\ qtypenum' = qtypenum + 1 /\ timeout' = timeout
          /\ highestworking' = highestworking /\ type_found' = type_found
      BY <1>5, <2>1 DEF Qtype!NotAnswered
    <3> QED
      BY <1>1, <1>3, <2>1, <3>1 DEF TypeInv, Qtype!TypeOK, Qtype!TypeWorks
  <2>2. CASE ~ (qtypenum + 1 \in Qtype!Types /\ qtypenum + 1 < highestworking)
    <3>1. /\ highestworking' = highestworking /\ timeout' = timeout + 1
          /\ qtypenum' = 0
      BY <1>5, <2>2 DEF Qtype!NotAnswered, Qtype!EndRound
    <3>2. ~ type_found' => highestworking # 0 /\ ~ (timeout' > 3)
      BY <1>5, <2>2, Zenon DEF Qtype!NotAnswered, Qtype!EndRound
    <3> QED
      BY <1>1, <1>3, <3>1, <3>2 DEF TypeInv, Qtype!TypeOK, Qtype!TypeWorks
  <2> QED
    BY <2>1, <2>2
<1> QED
  BY <1>4, <1>5 DEF Qtype!Next

(* A round that ends has tried every type better than the best now known.   *)
LEMMA TriedRound ==
    /\ TypeInv
    /\ Qtype!EndRound(highestworking')
    /\ highestworking' \in 0 .. 6 \cup {100} /\ delay' = delay
    /\ answers_kept' => \A t \in 0 .. 6 : t < highestworking' => delay[t] > timeout
    => TriedInv'
<1> SUFFICES ASSUME TypeInv, Qtype!EndRound(highestworking'),
                    highestworking' \in 0 .. 6 \cup {100}, delay' = delay,
                    answers_kept' => \A t \in 0 .. 6 : t < highestworking' => delay[t] > timeout
             PROVE  TriedInv'
  OBVIOUS
<1> USE DEF Qtype!Types, Qtype!Never, Qtype!None, Qtype!MaxTimeout
<1>1. delay \in [0 .. 6 -> 1 .. 5] /\ timeout \in 1 .. 4
  BY DEF TypeInv, Qtype!TypeOK
<1>2. timeout' = timeout + 1 /\ qtypenum' = 0
  BY DEF Qtype!EndRound
<1>3. type_found' => highestworking' = 0 \/ timeout' > 3
  BY Zenon DEF Qtype!EndRound
<1>4. ASSUME answers_kept', NEW t \in 0 .. 6, highestworking' = 0 \/ timeout' > 3,
             delay[t] <= 3
      PROVE  highestworking' <= t
  BY <1>1, <1>2, <1>4
<1>5. type_found' /\ answers_kept' =>
         \A t \in 0 .. 6 : delay'[t] <= 3 => highestworking' <= t
  BY <1>3, <1>4
<1>6. answers_kept' /\ ~ type_found' => \A t \in 0 .. 6 : t < qtypenum' => delay'[t] > timeout'
  BY <1>2
<1> QED
  BY <1>5, <1>6 DEF TriedInv, Qtype!NoneBetter

(* A step of the search for the type keeps what was tried.                  *)
LEMMA TriedStep == TypeInv /\ TriedInv /\ Qtype!Next => TriedInv'
<1> SUFFICES ASSUME TypeInv, TriedInv, Qtype!Next PROVE TriedInv'
  OBVIOUS
<1> USE DEF Qtype!Types, Qtype!Never, Qtype!None, Qtype!MaxTimeout
<1>1. /\ delay \in [0 .. 6 -> 1 .. 5] /\ delay' = delay
      /\ timeout \in 1 .. 4 /\ qtypenum \in 0 .. 6
      /\ highestworking \in 0 .. 6 \cup {100}
  BY DEF TypeInv, Qtype!TypeOK, Qtype!Next, Qtype!Answered, Qtype!NotAnswered
<1>2. ~ type_found /\ qtypenum < highestworking
  BY Zenon DEF TypeInv, Qtype!TypeOK, Qtype!Next, Qtype!Answered, Qtype!NotAnswered
<1>3. answers_kept => \A t \in 0 .. 6 : t < qtypenum => delay[t] > timeout
  BY <1>2, Zenon DEF TriedInv
<1>4. CASE Qtype!Answered
  <2>1. /\ answers_kept' = answers_kept /\ highestworking' = qtypenum
        /\ Qtype!EndRound(highestworking')
    BY <1>4 DEF Qtype!Answered, Qtype!EndRound
  <2>2. answers_kept' => \A t \in 0 .. 6 : t < highestworking' => delay[t] > timeout
    BY <1>3, <2>1
  <2>3. highestworking' \in 0 .. 6 \cup {100} /\ delay' = delay
    BY <1>1, <2>1
  <2> QED
    BY <2>1, <2>2, <2>3, TriedRound
<1>5. CASE Qtype!NotAnswered
  <2>1. answers_kept' => answers_kept /\ delay[qtypenum] > timeout
    BY <1>5, Zenon DEF Qtype!NotAnswered
  <2>2. answers_kept' => \A t \in 0 .. 6 : t < qtypenum + 1 => delay[t] > timeout
    BY <1>1, <1>3, <2>1
  <2>3. CASE qtypenum + 1 \in Qtype!Types /\ qtypenum + 1 < highestworking
    <3>1. /\ qtypenum' = qtypenum + 1 /\ timeout' = timeout
          /\ type_found' = type_found
      BY <1>5, <2>3 DEF Qtype!NotAnswered
    <3>2. ~ type_found'
      BY <1>2, <3>1
    <3>3. answers_kept' => \A t \in 0 .. 6 : t < qtypenum' => delay'[t] > timeout'
      BY <1>1, <2>2, <3>1
    <3> QED
      BY <3>2, <3>3, Zenon DEF TriedInv, Qtype!NoneBetter
  <2>4. CASE ~ (qtypenum + 1 \in Qtype!Types /\ qtypenum + 1 < highestworking)
    <3>1. highestworking' = highestworking /\ Qtype!EndRound(highestworking')
      BY <1>5, <2>4 DEF Qtype!NotAnswered, Qtype!EndRound
    <3>2. \A t \in 0 .. 6 : t < highestworking => t < qtypenum + 1
      BY <1>1, <1>2, <2>4
    <3>3. answers_kept' => \A t \in 0 .. 6 : t < highestworking' => delay[t] > timeout
      BY <2>2, <3>1, <3>2
    <3>4. highestworking' \in 0 .. 6 \cup {100} /\ delay' = delay
      BY <1>1, <3>1
    <3> QED
      BY <3>1, <3>3, <3>4, TriedRound
  <2> QED
    BY <2>3, <2>4
<1> QED
  BY <1>4, <1>5 DEF Qtype!Next

(* Both searches begin with the invariant.                                  *)
LEMMA ProbesInitIInv == Init => ProbesIInv
<1> SUFFICES ASSUME Init PROVE ProbesIInv
  OBVIOUS
<1>1. StageInv
  <2>1. /\ stage = "qtype" /\ max_fragsize = 0 /\ qtypenum = 0 /\ ~ type_found
        /\ proposed_fragsize = 768 /\ range = 768
    BY DEF Init, NoFragsizeSearch, Qtype!Init
  <2>2. \A t \in Qtype!Types : ~ (t < qtypenum)
    BY <2>1 DEF Qtype!Types
  <2>3. TriedInv
    BY <2>1, <2>2, Zenon DEF TriedInv, Qtype!NoneBetter
  <2> QED
    BY <2>1, <2>3 DEF StageInv
<1>2. SizeInv
  BY DEF Init, NoFragsizeSearch, SizeInv, ProposalInv, BestInv, BestSize, Ranges
<1>3. TypeInv
  <2>1. /\ Delays \subseteq 1 .. 5 /\ delay \in [0 .. 6 -> 1 .. 5]
        /\ timeout = 1 /\ qtypenum = 0 /\ highestworking = 100
    <3>1. delay \in [Qtype!Types -> Delays]
      BY DEF Init, Qtype!Init
    <3>2. timeout = 1 /\ qtypenum = 0 /\ highestworking = 100
      BY DEF Init, Qtype!Init, Qtype!None
    <3>3. Delays \subseteq 1 .. 5
      BY ProbesAssumption DEF Qtype!Never, Qtype!MaxTimeout
    <3> QED
      BY <3>1, <3>2, <3>3 DEF Qtype!Types
  <2> QED
    BY <2>1 DEF TypeInv, Qtype!TypeOK, Qtype!TypeWorks, Qtype!Types, Qtype!Never,
       Qtype!None, Qtype!MaxTimeout
<1>4. CloseInv
  BY DEF Init, NoFragsizeSearch, CloseInv, ProbeClose, Fragsize!ProbeClose
<1> QED
  BY <1>1, <1>2, <1>3, <1>4 DEF ProbesIInv

(* What the steps of one search leave alone of the other.                   *)
LEMMA SizeUnchanged == SizeInv /\ UNCHANGED size_search => SizeInv'
BY DEF SizeInv, ProposalInv, BestInv, BestSize, Ahead, size_search

LEMMA CloseUnchanged == CloseInv /\ UNCHANGED size_search => CloseInv'
BY DEF CloseInv, ProbeClose, Fragsize!ProbeClose, Window, Reach, size_search

(* Nothing is said of a search that goes on.                                *)
LEMMA OpenSearch == ~size_found => ProbeClose
BY DEF ProbeClose, Fragsize!ProbeClose

LEMMA TypeUnchanged == TypeInv /\ UNCHANGED type_search => TypeInv'
BY DEF TypeInv, type_search, Qtype!TypeOK, Qtype!TypeWorks

LEMMA TriedUnchanged == TriedInv /\ UNCHANGED type_search => TriedInv'
BY DEF TriedInv, Qtype!NoneBetter, type_search

(* Every step keeps the invariant.                                          *)
LEMMA ProbesNextIInv == ProbesIInv /\ [Next]_vars => ProbesIInv'
<1> SUFFICES ASSUME ProbesIInv, [Next]_vars PROVE ProbesIInv'
  OBVIOUS
<1> USE DEF ProbesIInv
<1>1. CASE SearchQtype
  <2>1. SizeInv' /\ TypeInv' /\ CloseInv'
    BY <1>1, TypeStep, SizeUnchanged, CloseUnchanged DEF SearchQtype
  <2>2. stage = "qtype" /\ stage' = stage /\ UNCHANGED size_search
    BY <1>1 DEF SearchQtype
  <2>3. TriedInv'
    BY <1>1, <2>2, TriedStep DEF SearchQtype, StageInv
  <2> QED
    BY <2>1, <2>2, <2>3 DEF StageInv, size_search
<1>2. CASE Found
  <2>1. StageInv' /\ SizeInv' /\ CloseInv'
    BY <1>2, SizeUnchanged, CloseUnchanged DEF Found, StageInv, size_search
  <2>2. TypeInv'
    BY <1>2 DEF Found, TypeInv, Qtype!TypeOK, Qtype!TypeWorks, Qtype!Types,
       Qtype!Never, Qtype!None, Qtype!MaxTimeout
  <2> QED
    BY <2>1, <2>2
<1>3. CASE Begin
  <2>1. StageInv' /\ TypeInv'
    BY <1>3, TypeUnchanged DEF Begin, StageInv
  <2>2. /\ limit' \in Nat /\ max_fragsize' = 0 /\ ~size_found'
        /\ proposed_fragsize' = 768 /\ range' = 768
    BY <1>3, ProbesAssumption DEF Begin, StageInv
  <2>3. ProposalInv'
    BY <1>3 DEF Begin, SizeInv, ProposalInv
  <2>4. BestInv'
    <3>1. Ahead'
      BY <2>2 DEF Ahead
    <3>2. BestSize'
      BY <2>2 DEF BestSize
    <3> QED BY <3>1, <3>2, Zenon DEF BestInv
  <2>5. Window'
    BY <2>2 DEF Window, Reach
  <2>6. CloseInv'
    <3>1. ~size_found'
      BY <2>2
    <3>2. ProbeClose'
      BY <3>1, OpenSearch, PTL
    <3> QED
      BY <2>5, <3>2 DEF CloseInv
  <2> QED
    BY <2>1, <2>3, <2>4, <2>6 DEF SizeInv
<1>4. CASE SearchFragsize
  <2>1. SizeInv' /\ CloseInv' /\ TypeInv'
    BY <1>4, SizeStep, CloseStep, TypeUnchanged DEF SearchFragsize
  <2>2. StageInv'
    BY <1>4 DEF SearchFragsize, StageInv
  <2> QED
    BY <2>1, <2>2
<1>5. CASE UNCHANGED vars
  <2>1. UNCHANGED type_search /\ UNCHANGED size_search /\ stage' = stage
    BY <1>5 DEF vars
  <2>2. SizeInv' /\ TypeInv' /\ CloseInv'
    BY <2>1, SizeUnchanged, CloseUnchanged, TypeUnchanged
  <2>3. StageInv'
    BY <2>1, TriedUnchanged DEF StageInv, size_search
  <2> QED
    BY <2>2, <2>3
<1> QED
  BY <1>1, <1>2, <1>3, <1>4, <1>5 DEF Next

-----------------------------------------------------------------------------
(* The adaptation. The invariant adds to the two properties the types and,  *)
(* for the end of the handshake, that the time-outs already follow the      *)
(* average when the first ping has been measured: the tunnel begins so.     *)

Timings == [total : Nat, num : Nat, max : Int, server : Int, misses : Nat]

Typed ==
    /\ phase \in {"idle", "pings", "tunnel"}
    /\ pings \in Nat /\ target \in Nat /\ lazymode \in BOOLEAN
    /\ timing \in Timings

(* The time-outs of t fit each other and the average.                      *)
InTime(t) ==
    AverageRtt(t) < t.max => t.server >= 0 /\ t.server + AverageRtt(t) <= t.max

Follows == phase # "idle" /\ (phase = "pings" => pings > 0) /\ lazymode => InTime(timing)

(* Division in immediate_mode_defaults is by the number of measured answers. *)
MeasuredAny == phase = "tunnel" => timing.num > 0
PingsMeasured == phase = "pings" /\ pings > 0 => timing.num > 0

Resting == phase = "idle" => pings = 0

AdaptationIInv == Typed /\ Resting /\ Follows /\ TargetKept /\ MeasuredAny /\ PingsMeasured

-----------------------------------------------------------------------------
(* The operators on the statistics.                                        *)

(* The sum and the number alone are changed.                               *)
LEMMA Counted ==
    ASSUME NEW t \in Timings, NEW total \in Nat, NEW num \in Nat
    PROVE  LET u == [t EXCEPT !.total = total, !.num = num]
           IN  u \in Timings /\ u.num = num /\ u.max = t.max
BY DEF Timings

LEMMA AverageType ==
    ASSUME NEW t \in Timings
    PROVE  AverageRtt(t) \in Nat
<1>1. t.total \in Nat /\ t.num \in Nat
  BY DEF Timings
<1>2. CASE t.num = 0
  BY <1>2 DEF AverageRtt
<1>3. CASE t.num # 0
  <2>1. t.total \div t.num \in Nat
    BY <1>1, <1>3
  <2> QED
    BY <2>1, <1>3 DEF AverageRtt
<1> QED
  BY <1>2, <1>3

(* What update_server_timeout does with the target and the misses.          *)
LEMMA UpdateFields ==
    ASSUME NEW t \in Timings
    PROVE  LET u == update_server_timeout(t)
           IN  /\ u.total = t.total /\ u.num = t.num
               /\ \/ u.max = t.max /\ u.misses = t.misses
                  \/ /\ u.max = t.max /\ u.misses = t.misses + 1
                     /\ AverageRtt(t) >= t.max
                  \/ /\ u.max = AverageRtt(t) + 1000 /\ u.misses = 0
                     /\ AverageRtt(t) >= t.max /\ t.misses >= 2
<1> DEFINE rtt    == AverageRtt(t)
           missed == rtt >= t.max /\ t.num > 5
           u      == update_server_timeout(t)
<1>1. rtt \in Nat /\ t.max \in Int /\ t.num \in Nat /\ t.misses \in Nat
  BY AverageType DEF Timings
<1>2. CASE ~missed
  <2>1. u = [t EXCEPT !.server = Larger(t.max - rtt, 0)]
    BY <1>2 DEF update_server_timeout
  <2> QED
    BY <2>1 DEF Timings
<1>3. CASE missed /\ t.misses < 2
  <2> DEFINE misses == t.misses + 1
  <2>1. u = [t EXCEPT !.misses = misses]
    BY <1>3, <1>1 DEF update_server_timeout
  <2> HIDE DEF misses, u
  <2>2. /\ u.misses = misses
        /\ u.total = t.total /\ u.num = t.num /\ u.max = t.max
    BY <2>1 DEF Timings
  <2> QED
    BY <1>3, <2>2 DEF misses, u
<1>4. CASE missed /\ t.misses >= 2
  <2> DEFINE max == rtt + 1000
  <2>1. u = [t EXCEPT !.max = max, !.server = 1000, !.misses = 0]
    BY <1>4, <1>1 DEF update_server_timeout
  <2> HIDE DEF max, u
  <2>2. /\ u.max = max /\ u.misses = 0
        /\ u.total = t.total /\ u.num = t.num
    BY <2>1 DEF Timings
  <2> QED
    BY <1>4, <2>2 DEF max, u
<1> QED
  BY <1>1, <1>2, <1>3, <1>4

(* update_server_timeout leaves time-outs that fit, and lowers no target.   *)
LEMMA UpdateFits ==
    ASSUME NEW t \in Timings
    PROVE  LET u == update_server_timeout(t)
           IN  /\ u \in Timings
               /\ u.num = t.num
               /\ InTime(u)
               /\ u.max = t.max \/ u.max >= 1000
<1> DEFINE rtt    == AverageRtt(t)
           missed == rtt >= t.max /\ t.num > 5
           u      == update_server_timeout(t)
<1>1. rtt \in Nat
  BY AverageType
<1>2. /\ t = [total |-> t.total, num |-> t.num, max |-> t.max,
              server |-> t.server, misses |-> t.misses]
      /\ t.total \in Nat /\ t.num \in Nat /\ t.max \in Int
      /\ t.server \in Int /\ t.misses \in Nat
  BY DEF Timings
<1>3. ASSUME NEW v \in Timings, v.total = t.total, v.num = t.num
      PROVE  AverageRtt(v) = rtt
  BY <1>3 DEF AverageRtt
<1>4. CASE ~missed
  <2>1. u = [t EXCEPT !.server = Larger(t.max - rtt, 0)]
    BY <1>4 DEF update_server_timeout
  <2>2. Larger(t.max - rtt, 0) \in Int
    BY <1>1, <1>2 DEF Larger
  <2>3. /\ u \in Timings /\ u.total = t.total /\ u.num = t.num /\ u.max = t.max
        /\ u.server = Larger(t.max - rtt, 0)
    BY <2>1, <2>2, <1>2 DEF Timings
  <2>4. AverageRtt(u) = rtt
    BY <2>3, <1>3
  <2>5. InTime(u)
    BY <2>3, <2>4, <1>1, <1>2 DEF InTime, Larger
  <2> QED
    BY <2>3, <2>5
<1>5. CASE missed /\ t.misses < 2
  <2>1. u = [t EXCEPT !.misses = @ + 1]
    BY <1>5, <1>2 DEF update_server_timeout
  <2>2. u \in Timings /\ u.total = t.total /\ u.num = t.num /\ u.max = t.max
    BY <2>1, <1>2 DEF Timings
  <2>3. InTime(u)
    BY <2>2, <1>3, <1>5, <1>1, <1>2 DEF InTime
  <2> QED
    BY <2>2, <2>3
<1>6. CASE missed /\ t.misses >= 2
  <2>1. u = [t EXCEPT !.max = rtt + 1000, !.server = 1000, !.misses = 0]
    BY <1>6, <1>2 DEF update_server_timeout
  <2>2. rtt + 1000 \in Int
    BY <1>1
  <2>3. /\ u \in Timings /\ u.total = t.total /\ u.num = t.num
        /\ u.max = rtt + 1000 /\ u.server = 1000
    <3> DEFINE max == rtt + 1000
               server == 1000
               misses == 0
    <3>1. max \in Int /\ server \in Int /\ misses \in Nat
      BY <2>2
    <3>2. u = [t EXCEPT !.max = max, !.server = server, !.misses = misses]
      BY <2>1
    <3> HIDE DEF max, server, misses, u
    <3>3. u \in Timings
      BY <3>1, <3>2 DEF Timings
    <3>4. u.total = t.total /\ u.num = t.num
      BY <3>1, <3>2 DEF Timings
    <3>5. u.max = max /\ u.server = server
      BY <3>1, <3>2 DEF Timings
    <3> QED
      BY <3>3, <3>4, <3>5 DEF max, server
  <2>4. AverageRtt(u) = rtt
    BY <2>3, <1>3
  <2>5. InTime(u) /\ u.max >= 1000
    <3> HIDE DEF u, rtt
    <3> QED
      BY <2>3, <2>4, <1>1 DEF InTime
  <2> QED
    BY <2>3, <2>5
<1>7. missed \in BOOLEAN /\ (t.misses < 2 \/ t.misses >= 2)
  BY <1>1, <1>2
<1> QED
  BY <1>4, <1>5, <1>6, <1>7

(* So does got_response in lazy mode.                                      *)
LEMMA ResponseFits ==
    ASSUME NEW t \in Timings, NEW rtt \in Nat, NEW lazy \in BOOLEAN
    PROVE  LET u == got_response(t, rtt, lazy)
           IN  /\ u \in Timings
               /\ u.num > 0
               /\ lazy => InTime(u)
               /\ u.max = t.max \/ u.max >= 1000
<1> DEFINE measured == [t EXCEPT !.total = @ + rtt, !.num = @ + 1]
<1>1. measured \in Timings /\ measured.num > 0 /\ measured.max = t.max
  <2>1. t.total + rtt \in Nat /\ t.num + 1 \in Nat /\ t.num + 1 > 0
    BY DEF Timings
  <2> QED
    BY <2>1, Counted
<1>2. CASE lazy
  <2>1. got_response(t, rtt, lazy) = update_server_timeout(measured)
    BY <1>2 DEF got_response
  <2> HIDE DEF measured
  <2> QED
    BY <2>1, <1>1, UpdateFits
<1>3. CASE ~lazy
  <2>1. got_response(t, rtt, lazy) = measured
    BY <1>3 DEF got_response
  <2> HIDE DEF measured
  <2> QED
    BY <2>1, <1>1, <1>3
<1> QED
  BY <1>2, <1>3

LEMMA DefaultsFit ==
    ASSUME NEW t \in Timings, t.num > 0
    PROVE  LET u == immediate_mode_defaults(t)
           IN  u \in Timings /\ u.num = t.num /\ InTime(u) /\ u.max >= 5000
<1> DEFINE u == immediate_mode_defaults(t)
           q == (4 * t.total) \div t.num
<1>1. t.total \in Nat /\ t.num \in Nat
  BY DEF Timings
<1>2. 4 * t.total \in Nat
  BY <1>1
<1>3. q \in Int
  BY <1>1, <1>2
<1>4. Larger(q, 5000) \in Int /\ Larger(q, 5000) >= 5000
  <2> HIDE DEF q
  <2> QED
    BY <1>3 DEF Larger
<1>5. u = [t EXCEPT !.max = Larger(q, 5000), !.server = 0]
  BY DEF immediate_mode_defaults
<1>6. u \in Timings /\ u.num = t.num /\ u.max = Larger(q, 5000) /\ u.server = 0
  <2> DEFINE max == Larger(q, 5000)
             server == 0
  <2>1. max \in Int /\ server \in Int
    BY <1>4
  <2>2. u = [t EXCEPT !.max = max, !.server = server]
    BY <1>5
  <2> HIDE DEF max, server, u
  <2>3. u \in Timings
    BY <2>1, <2>2 DEF Timings
  <2>4. u.num = t.num /\ u.max = max /\ u.server = server
    BY <2>1, <2>2 DEF Timings
  <2> QED
    BY <2>3, <2>4 DEF max, server
<1>7. AverageRtt(u) \in Nat
  BY <1>6, AverageType
<1>8. InTime(u)
  <2> HIDE DEF q, u
  <2> QED
    BY <1>4, <1>6, <1>7 DEF InTime
<1> QED
  BY <1>4, <1>6, <1>8

-----------------------------------------------------------------------------
(* The invariant is inductive.                                             *)

LEMMA AdaptationInitIInv == AdaptationInit => AdaptationIInv
<1> SUFFICES ASSUME AdaptationInit
             PROVE  AdaptationIInv
  OBVIOUS
<1>1. phase = "idle" /\ pings = 0 /\ target = 0 /\ lazymode \in BOOLEAN
  BY Zenon DEF AdaptationInit
<1>2. timing \in Timings
  BY DEF AdaptationInit, Measured, Timings
<1> QED
  BY <1>1, <1>2 DEF AdaptationIInv, Typed, Resting, Follows, TargetKept, MeasuredAny, PingsMeasured

LEMMA BeginStep == AdaptationIInv /\ BeginPings => AdaptationIInv'
<1> SUFFICES ASSUME AdaptationIInv, BeginPings
             PROVE  AdaptationIInv'
  OBVIOUS
<1>1. target' \in Nat /\ pings = pings'
  BY AdaptationAssumption DEF BeginPings
<1>2. phase = "idle" /\ phase' = "pings" /\ lazymode' \in BOOLEAN
  BY DEF BeginPings
<1>3. PICK n \in 0 .. 2 :
         timing' = [total |-> 0, num |-> 0, max |-> target', server |-> 0, misses |-> n]
  BY DEF BeginPings, Measured
<1>4. timing' \in Timings /\ timing'.max = target'
  BY <1>1, <1>3 DEF Timings
<1>5. pings = 0
  BY <1>2 DEF AdaptationIInv, Resting
<1>6. Typed' /\ Resting'
  BY <1>1, <1>2, <1>4, <1>5 DEF AdaptationIInv, Typed, Resting
<1>7. Follows' /\ MeasuredAny' /\ PingsMeasured' /\ TargetKept'
  BY <1>1, <1>2, <1>4, <1>5 DEF Follows, MeasuredAny, PingsMeasured, TargetKept
<1> QED
  BY <1>6, <1>7 DEF AdaptationIInv

LEMMA PingStep == AdaptationIInv /\ handshake_set_timeout => AdaptationIInv'
<1> SUFFICES ASSUME AdaptationIInv, handshake_set_timeout
             PROVE  AdaptationIInv'
  OBVIOUS
<1>1. timing \in Timings /\ lazymode \in BOOLEAN /\ pings \in Nat /\ target \in Nat
  BY DEF AdaptationIInv, Typed
<1>2. PICK rtt \in Trips \cup {1000 * (pings + 1)} :
         timing' = got_response(update_server_timeout(timing), rtt, lazymode)
  BY DEF handshake_set_timeout
<1>3. rtt \in Nat
  BY <1>1, AdaptationAssumption
<1> DEFINE u == update_server_timeout(timing)
<1>4. u \in Timings /\ (u.max = timing.max \/ u.max >= 1000)
  BY <1>1, UpdateFits
<1>5. /\ timing' \in Timings /\ timing'.num > 0
      /\ lazymode => InTime(timing')
      /\ timing'.max = u.max \/ timing'.max >= 1000
  <2> HIDE DEF u
  <2> QED
    BY <1>1, <1>2, <1>3, <1>4, ResponseFits DEF u
<1>6. /\ phase = "pings" /\ phase' = phase /\ pings' = pings + 1
      /\ target' = target /\ lazymode' = lazymode
  BY DEF handshake_set_timeout
<1>7. Typed' /\ Resting' /\ MeasuredAny' /\ PingsMeasured'
  BY <1>1, <1>5, <1>6 DEF AdaptationIInv, Typed, Resting, MeasuredAny, PingsMeasured
<1>8. Follows'
  <2>1. lazymode' => InTime(timing)'
    BY <1>5, <1>6 DEF InTime, AverageRtt
  <2> QED
    BY <2>1 DEF Follows
<1>9. TargetKept'
  <2>1. u.max \in Int /\ timing'.max \in Int /\ timing.max \in Int
    BY <1>1, <1>4, <1>5 DEF Timings
  <2> HIDE DEF u
  <2> QED
    BY <2>1, <1>1, <1>4, <1>5, <1>6 DEF AdaptationIInv, TargetKept
<1> QED
  BY <1>7, <1>8, <1>9 DEF AdaptationIInv

LEMMA TunnelStart == AdaptationIInv /\ client_tunnel => AdaptationIInv'
<1> SUFFICES ASSUME AdaptationIInv, client_tunnel
             PROVE  AdaptationIInv'
  OBVIOUS
<1>1. /\ phase = "pings" /\ pings > 0 /\ phase' = "tunnel" /\ pings' = 0
      /\ target' = target /\ timing' = timing /\ lazymode' = lazymode
  BY DEF client_tunnel, Pings
<1>2. InTime(timing)' <=> InTime(timing)
  BY <1>1 DEF InTime, AverageRtt
<1> QED
  BY <1>1, <1>2 DEF AdaptationIInv, Typed, Resting, Follows, TargetKept, MeasuredAny, PingsMeasured

(* A step of the tunnel that leaves time-outs which fit, or the old ones in *)
(* the same mode.                                                          *)
LEMMA TunnelStep ==
    ASSUME AdaptationIInv, phase = "tunnel", UNCHANGED <<phase, pings, target>>,
           lazymode' \in BOOLEAN, timing' \in Timings, timing'.num > 0,
           lazymode' => InTime(timing)',
           timing'.max >= 300 \/ timing'.max = timing.max
    PROVE  AdaptationIInv'
<1>1. Typed'
  BY DEF AdaptationIInv, Typed
<1>2. Resting' /\ Follows' /\ MeasuredAny' /\ PingsMeasured'
  BY DEF Resting, Follows, MeasuredAny, PingsMeasured
<1>3. TargetKept'
  BY DEF AdaptationIInv, TargetKept
<1> QED
  BY <1>1, <1>2, <1>3 DEF AdaptationIInv

LEMMA AnswerStep == AdaptationIInv /\ Answer => AdaptationIInv'
<1> SUFFICES ASSUME AdaptationIInv, Answer
             PROVE  AdaptationIInv'
  OBVIOUS
<1>1. /\ phase = "tunnel" /\ UNCHANGED <<phase, pings, target>>
      /\ lazymode' = lazymode /\ lazymode \in BOOLEAN
      /\ timing \in Timings /\ timing.num > 0
  BY DEF Answer, AdaptationIInv, Typed, MeasuredAny
<1>2. CASE timing' = timing
  <2>1. lazymode' => InTime(timing)'
    BY <1>1, <1>2 DEF AdaptationIInv, Follows, InTime, AverageRtt
  <2> QED
    BY <1>1, <1>2, <2>1, TunnelStep
<1>3. CASE \E rtt \in Trips : timing' = got_response(timing, rtt, lazymode)
  <2>1. PICK rtt \in Trips : timing' = got_response(timing, rtt, lazymode)
    BY <1>3
  <2>2. rtt \in Nat
    BY AdaptationAssumption
  <2>3. /\ timing' \in Timings /\ timing'.num > 0
        /\ lazymode => InTime(timing')
        /\ timing'.max = timing.max \/ timing'.max >= 1000
    BY <1>1, <2>1, <2>2, ResponseFits
  <2>4. lazymode' => InTime(timing)'
    BY <1>1, <2>3 DEF InTime, AverageRtt
  <2>5. timing'.max >= 300 \/ timing'.max = timing.max
    BY <2>3 DEF Timings
  <2> QED
    BY <1>1, <2>3, <2>4, <2>5, TunnelStep
<1> QED
  BY <1>2, <1>3 DEF Answer

LEMMA ReduceStep == AdaptationIInv /\ Reduce => AdaptationIInv'
<1> SUFFICES ASSUME AdaptationIInv, Reduce
             PROVE  AdaptationIInv'
  OBVIOUS
<1> DEFINE cut == [timing EXCEPT !.max = @ - 200]
<1>1. /\ phase = "tunnel" /\ UNCHANGED <<phase, pings, target>>
      /\ lazymode' = lazymode /\ lazymode \in BOOLEAN
      /\ timing \in Timings /\ timing.num > 0 /\ timing.max >= 500
  BY DEF Reduce, TooLong, AdaptationIInv, Typed, MeasuredAny
<1>2. cut \in Timings /\ cut.num = timing.num /\ cut.max >= 300
  BY <1>1 DEF Timings
<1>3. timing' = update_server_timeout(cut)
  BY DEF Reduce, Reduced
<1> HIDE DEF cut
<1>4. /\ timing' \in Timings /\ timing'.num > 0 /\ InTime(timing')
      /\ timing'.max = cut.max \/ timing'.max >= 1000
  BY <1>1, <1>2, <1>3, UpdateFits
<1>5. InTime(timing)'
  BY <1>4 DEF InTime, AverageRtt
<1>6. timing'.max >= 300
  BY <1>2, <1>4 DEF Timings
<1> QED
  BY <1>1, <1>4, <1>5, <1>6, TunnelStep

LEMMA LastDitchStep == AdaptationIInv /\ LastDitch => AdaptationIInv'
<1> SUFFICES ASSUME AdaptationIInv, LastDitch
             PROVE  AdaptationIInv'
  OBVIOUS
<1>1. /\ phase = "tunnel" /\ UNCHANGED <<phase, pings, target>>
      /\ lazymode' \in BOOLEAN /\ timing \in Timings /\ timing.num > 0
      /\ timing' = immediate_mode_defaults(timing)
  BY DEF LastDitch, AdaptationIInv, Typed, MeasuredAny
<1>2. /\ timing' \in Timings /\ timing'.num > 0 /\ InTime(timing')
      /\ timing'.max >= 5000
  BY <1>1, DefaultsFit
<1>3. InTime(timing)'
  BY <1>2 DEF InTime, AverageRtt
<1>4. timing'.max >= 300
  BY <1>2 DEF Timings
<1> QED
  BY <1>1, <1>2, <1>3, <1>4, TunnelStep

LEMMA UnchangedStep ==
    ASSUME AdaptationIInv, UNCHANGED <<phase, pings, target, timing, lazymode>>
    PROVE  AdaptationIInv'
<1>1. InTime(timing)' <=> InTime(timing)
  BY DEF InTime, AverageRtt
<1> QED
  BY <1>1 DEF AdaptationIInv, Typed, Resting, Follows, TargetKept, MeasuredAny, PingsMeasured

LEMMA AdaptationNextIInv == AdaptationIInv /\ [AdaptationNext]_adaptation => AdaptationIInv'
<1> SUFFICES ASSUME AdaptationIInv, [AdaptationNext]_adaptation
             PROVE  AdaptationIInv'
  OBVIOUS
<1>1. CASE BeginPings
  BY <1>1, BeginStep
<1>2. CASE handshake_set_timeout
  BY <1>2, PingStep
<1>3. CASE client_tunnel
  BY <1>3, TunnelStart
<1>4. CASE Answer
  BY <1>4, AnswerStep
<1>5. CASE Reduce
  BY <1>5, ReduceStep
<1>6. CASE LastDitch
  BY <1>6, LastDitchStep
<1>7. CASE Ignore
  BY <1>7, UnchangedStep DEF Ignore
<1>8. CASE UNCHANGED adaptation
  BY <1>8, UnchangedStep DEF adaptation
<1> QED
  BY <1>1, <1>2, <1>3, <1>4, <1>5, <1>6, <1>7, <1>8 DEF AdaptationNext, Tunnel, Servfail

-----------------------------------------------------------------------------

-----------------------------------------------------------------------------
(* How long the client puts up with SERVFAILs before its last-ditch attempt. *)
(*                                                                         *)
(* Every reduction of the target brings the attempt nearer, except one that *)
(* is the third to find the path slower than the target: that one sets the  *)
(* target to a second more than the round trip. On a path of less than      *)
(* 0.7 seconds it can happen once: after it the target falls below 500 ms   *)
(* before the path has been too slow three more times.                     *)

NoThirdMiss(t) == t.misses = 0 \/ (t.misses = 1 /\ t.max < 700) \/ t.max < 500

(* No more reductions than this are made before the target is below 500 ms. *)
Reductions(t) ==
    IF t.max < 500 THEN 0
    ELSE (t.max - 300) \div 200 + (IF NoThirdMiss(t) THEN 0 ELSE 6)

(* SERVFAILs to the next that may reduce the target.                        *)
NextFifth(n) == IF n < 5 THEN 10 - n ELSE 5 - (n % 5)

(* The attempt is due after that many SERVFAILs, with 40 at least.          *)
PatientInv ==
    /\ waited \in [fails : Nat, from : Nat] /\ num_servfail \in 0 .. 44
    /\ phase # "idle" => target >= 100
    /\ waited.fails > 0 =>
          /\ phase = "tunnel" /\ Reason
          /\ waited.fails <= Patience
          /\ waited.fails + 39 <= Patience + num_servfail
          /\ Reductions(timing) > 0 =>
                waited.fails + NextFifth(num_servfail) + 5 * (Reductions(timing) - 1)
                   <= Patience

LEMMA ReductionsType ==
    ASSUME NEW t \in Timings
    PROVE  Reductions(t) \in Nat /\ (t.max >= 500 => Reductions(t) > 0)
BY DEF Timings, Reductions

(* A reduction leaves fewer, and the average as it is.                      *)
LEMMA ReducedFewer ==
    ASSUME NEW t \in Timings, t.max >= 500, AverageRtt(t) < 700
    PROVE  /\ Reductions(Reduced(t)) <= Reductions(t) - 1
           /\ AverageRtt(Reduced(t)) = AverageRtt(t)
<1> DEFINE cut == [t EXCEPT !.max = @ - 200]
           rtt == AverageRtt(t)
           u   == Reduced(t)
<1>1. /\ t.max \in Int /\ t.misses \in Nat /\ t.num \in Nat /\ rtt \in Nat
  BY AverageType DEF Timings
<1>2. cut \in Timings /\ cut.max = t.max - 200 /\ cut.misses = t.misses
      /\ cut.num = t.num /\ cut.total = t.total
  BY DEF Timings
<1>3. AverageRtt(cut) = rtt
  BY <1>2 DEF AverageRtt
<1>4. u = update_server_timeout(cut)
  BY DEF Reduced
<1> HIDE DEF cut, u
<1>5. /\ u.num = cut.num /\ u.total = cut.total
      /\ \/ u.max = cut.max /\ u.misses = cut.misses
         \/ u.max = cut.max /\ u.misses = cut.misses + 1 /\ rtt >= cut.max
         \/ u.max = rtt + 1000 /\ u.misses = 0 /\ rtt >= cut.max /\ cut.misses >= 2
  BY <1>2, <1>3, <1>4, UpdateFields
<1>6. AverageRtt(u) = rtt
  BY <1>2, <1>5 DEF AverageRtt
<1>7. rtt < 700
  OBVIOUS
<1> HIDE DEF rtt
<1>8. Reductions(u) <= Reductions(t) - 1
  <2>1. CASE u.max = cut.max /\ u.misses = cut.misses
    BY <1>1, <1>2, <2>1 DEF Reductions, NoThirdMiss
  <2>2. CASE u.max = cut.max /\ u.misses = cut.misses + 1 /\ rtt >= cut.max
    BY <1>1, <1>2, <1>7, <2>2 DEF Reductions, NoThirdMiss
  <2>3. CASE u.max = rtt + 1000 /\ u.misses = 0 /\ rtt >= cut.max /\ cut.misses >= 2
    BY <1>1, <1>2, <1>7, <2>3 DEF Reductions, NoThirdMiss
  <2> QED
    BY <1>5, <2>1, <2>2, <2>3
<1> QED
  BY <1>6, <1>8 DEF u, rtt

(* One SERVFAIL more, and where the next fifth is then.                     *)
LEMMA OneMore ==
    ASSUME NEW n \in 0 .. 44
    PROVE  /\ Folded(n + 1) \in 1 .. 44
           /\ n + 1 < 40 => Folded(n + 1) = n + 1
           /\ n + 1 >= 40 => Folded(n + 1) >= 40
           /\ NextFifth(n) \in 1 .. 10
           /\ n >= 1 => NextFifth(n) <= 9
           /\ n + 1 >= 10 /\ (n + 1) % 5 = 0 => NextFifth(Folded(n + 1)) = 5
           /\ ~(n + 1 >= 10 /\ (n + 1) % 5 = 0) =>
                 NextFifth(n) >= 2 /\ NextFifth(Folded(n + 1)) = NextFifth(n) - 1
BY DEF Folded, NextFifth

(* When the wait begins, there is patience for any target and any count.    *)
LEMMA PatienceAtFirst ==
    ASSUME NEW t \in Timings, t.max >= 100, NEW n \in 1 .. 44, NEW r \in Nat,
           r <= Reductions(t)
    PROVE  LET patience == 10 + 5 * ((t.max + 1200) \div 200)
           IN  /\ 1 <= patience /\ 40 <= patience + n
               /\ r > 0 => 1 + NextFifth(n) + 5 * (r - 1) <= patience
<1> DEFINE p == (t.max + 1200) \div 200
<1>1. t.max \in Int
  BY DEF Timings
<1>2. p \in Int /\ p >= 6
  BY <1>1
<1>3. r > 0 => r <= p
  BY <1>1 DEF Reductions, NoThirdMiss
<1>4. NextFifth(n) \in 1 .. 9
  BY OneMore
<1> HIDE DEF p
<1> QED
  BY <1>2, <1>3, <1>4 DEF p

(* A step with which nobody waits any longer, or did not yet.               *)
LEMMA NobodyWaits ==
    ASSUME waited' \in [fails : Nat, from : Nat], waited'.fails = 0,
           num_servfail' \in 0 .. 44, phase' # "idle" => target' >= 100
    PROVE  PatientInv'
BY DEF PatientInv

(* A SERVFAIL that does not end the wait.                                   *)
LEMMA WaitStep == AdaptationIInv /\ PatientInv /\ (Reduce \/ Ignore) => PatientInv'
<1> SUFFICES ASSUME AdaptationIInv, PatientInv, Reduce \/ Ignore
             PROVE  PatientInv'
  OBVIOUS
<1> DEFINE n == num_servfail
           r == Reductions(timing)
<1>1. /\ phase = "tunnel" /\ UNCHANGED <<phase, pings, target, lazymode, enough>>
      /\ num_servfail' = Folded(n + 1)
      /\ waited' = Waiting
  BY DEF Reduce, Ignore, Servfails
<1>2. /\ timing \in Timings /\ n \in 0 .. 44 /\ target >= 100
      /\ waited \in [fails : Nat, from : Nat]
      /\ timing.max \in Int /\ timing.max >= 100 /\ target \in Nat
  BY <1>1 DEF AdaptationIInv, Typed, PatientInv, TargetKept, Timings
<1>3. num_servfail' \in 1 .. 44
  BY <1>1, <1>2, OneMore
<1>4. CASE ~Reason
  <2>1. waited' = NotWaiting
    BY <1>1, <1>4 DEF Waiting
  <2> QED
    BY <2>1, <1>1, <1>2, <1>3, NobodyWaits DEF NotWaiting
<1>5. CASE Reason
  <2>1. /\ waited'.fails = waited.fails + 1
        /\ waited'.from = IF waited.fails = 0 THEN timing.max ELSE waited.from
        /\ waited' \in [fails : Nat, from : Nat]
    BY <1>1, <1>2, <1>5 DEF Waiting
  <2>2. AverageRtt(timing) < 700 /\ lazymode /\ ~enough
    BY <1>5 DEF Reason
  <2>3. /\ r \in Nat /\ (timing.max >= 500 <=> r > 0)
        /\ timing' \in Timings /\ AverageRtt(timing') = AverageRtt(timing)
        /\ \/ Reductions(timing') = r /\ ~TooLong /\ ~Hopeless
           \/ TooLong /\ Reductions(timing') <= r - 1
    <3>1. r \in Nat /\ (timing.max >= 500 <=> r > 0)
      BY <1>2, ReductionsType DEF Reductions
    <3>2. CASE Ignore
      BY <3>1, <3>2, <1>2 DEF Ignore
    <3>3. CASE Reduce
      <4>1. timing.max >= 500 /\ timing' = Reduced(timing) /\ TooLong
        BY <3>3 DEF Reduce, TooLong
      <4> DEFINE cut == [timing EXCEPT !.max = @ - 200]
      <4>2. cut \in Timings /\ timing' = update_server_timeout(cut)
        BY <1>2, <4>1 DEF Timings, Reduced
      <4> HIDE DEF cut
      <4>3. timing' \in Timings
        BY <4>2, UpdateFits
      <4> QED
        BY <3>1, <4>1, <4>3, <1>2, <2>2, ReducedFewer
    <3> QED
      BY <3>2, <3>3
  <2>4. Reason'
    BY <2>2, <2>3, <1>1 DEF Reason, AverageRtt
  <2>5. TooLong <=> n + 1 >= 10 /\ timing.max >= 500 /\ (n + 1) % 5 = 0
    BY <2>2, Zenon DEF TooLong, Servfails
  <2>6. Hopeless <=> n + 1 >= 40 /\ timing.max < 500
    BY <2>2, Zenon DEF Hopeless, Servfails
  <2> DEFINE n1   == Folded(n + 1)
             r1   == Reductions(timing')
             f1   == waited.fails + 1
             from == IF waited.fails = 0 THEN timing.max ELSE waited.from
             p1   == 10 + 5 * ((from + 1200) \div 200)
  <2>7. r1 \in Nat /\ n1 \in 1 .. 44 /\ NextFifth(n1) \in 1 .. 10 /\ p1 \in Int
    <3>1. from \in Int
      BY <1>2
    <3>2. p1 \in Int
      BY <3>1
    <3> QED
      BY <1>2, <2>3, <3>2, ReductionsType, OneMore
  <2>8. /\ f1 <= p1 /\ f1 + 39 <= p1 + n1
        /\ r1 > 0 => f1 + NextFifth(n1) + 5 * (r1 - 1) <= p1
    <3>1. CASE waited.fails = 0
      <4>1. f1 = 1 /\ p1 = 10 + 5 * ((timing.max + 1200) \div 200) /\ r1 <= r
        BY <3>1, <2>3, <2>7
      <4> HIDE DEF n1, r1
      <4> QED
        BY <4>1, <1>2, <2>7, PatienceAtFirst
    <3>2. CASE waited.fails # 0
      <4> DEFINE f == waited.fails
      <4>1. f \in Nat /\ f > 0 /\ p1 = Patience
        BY <1>2, <3>2 DEF Patience
      <4>2. /\ f <= p1 /\ f + 39 <= p1 + n
            /\ r > 0 => f + NextFifth(n) + 5 * (r - 1) <= p1
        BY <4>1 DEF PatientInv
      <4>3. /\ n + 1 < 40 => n1 = n + 1
            /\ n + 1 >= 40 => n1 >= 40
            /\ NextFifth(n) \in 1 .. 10
            /\ n + 1 >= 10 /\ (n + 1) % 5 = 0 => NextFifth(n1) = 5
            /\ ~(n + 1 >= 10 /\ (n + 1) % 5 = 0) =>
                  NextFifth(n) >= 2 /\ NextFifth(n1) = NextFifth(n) - 1
        BY <1>2, OneMore
      <4>4. n \in Nat /\ r \in Nat /\ r1 \in Nat /\ n1 \in Nat /\ NextFifth(n1) \in Nat
            /\ f1 = f + 1
        BY <1>2, <2>3, <2>7
      <4>5. CASE r1 = r /\ ~TooLong /\ ~Hopeless
        <5>1. r > 0 => ~(n + 1 >= 10 /\ (n + 1) % 5 = 0)
          BY <4>5, <2>3, <2>5
        <5>2. r = 0 => n + 1 < 40
          BY <4>5, <2>3, <2>6, <1>2, <4>4
        <5> HIDE DEF n, r, n1, r1, p1, f1, f
        <5> QED
          BY <4>1, <4>2, <4>3, <4>4, <4>5, <5>1, <5>2, <2>7
      <4>6. CASE TooLong /\ r1 <= r - 1
        <5>1. NextFifth(n1) = 5 /\ r > 0
          BY <4>6, <2>3, <2>5, <4>3
        <5> HIDE DEF n, r, n1, r1, p1, f1, f
        <5> QED
          BY <4>1, <4>2, <4>3, <4>4, <4>6, <5>1, <2>7
      <4> QED
        BY <4>5, <4>6, <2>3
    <3> QED
      BY <3>1, <3>2
  <2>9. /\ waited'.fails = f1 /\ num_servfail' = n1
        /\ Reductions(timing)' = r1 /\ Patience' = p1
        /\ NextFifth(num_servfail)' = NextFifth(n1)
    BY <1>1, <2>1 DEF Reductions, NoThirdMiss, Patience, NextFifth
  <2>10. phase' = "tunnel" /\ target' >= 100
    BY <1>1, <1>2
  <2> HIDE DEF n, r, n1, r1, p1, f1
  <2> QED
    BY <1>3, <2>1, <2>4, <2>8, <2>9, <2>10 DEF PatientInv
<1> QED
  BY <1>4, <1>5

LEMMA PatientNext == AdaptationIInv /\ PatientInv /\ [AdaptationNext]_adaptation => PatientInv'
<1> SUFFICES ASSUME AdaptationIInv, PatientInv, [AdaptationNext]_adaptation
             PROVE  PatientInv'
  OBVIOUS
<1>1. /\ waited \in [fails : Nat, from : Nat] /\ num_servfail \in 0 .. 44
      /\ phase # "tunnel" => waited.fails = 0
  BY DEF PatientInv
<1>2. CASE BeginPings
  <2>1. target' >= 100
    BY <1>2, AdaptationAssumption DEF BeginPings
  <2>2. phase # "tunnel" /\ UNCHANGED <<waited, num_servfail>>
    BY <1>2 DEF BeginPings
  <2> QED
    BY <1>1, <2>1, <2>2, NobodyWaits
<1>3. CASE handshake_set_timeout \/ client_tunnel
  <2>1. phase = "pings" /\ UNCHANGED <<waited, num_servfail, target>>
    BY <1>3 DEF handshake_set_timeout, client_tunnel
  <2> QED
    BY <1>1, <2>1, NobodyWaits DEF PatientInv
<1>4. CASE Answer
  <2>1. waited' = NotWaiting /\ UNCHANGED <<phase, num_servfail, target>>
    BY <1>4 DEF Answer
  <2> QED
    BY <1>1, <2>1, NobodyWaits DEF PatientInv, NotWaiting
<1>5. CASE LastDitch
  <2>1. waited' = NotWaiting /\ UNCHANGED <<phase, target>>
    BY <1>5 DEF LastDitch
  <2>2. num_servfail' \in 0 .. 44
    BY <1>1, <1>5, OneMore DEF LastDitch, Servfails
  <2> QED
    BY <2>1, <2>2, NobodyWaits DEF PatientInv, NotWaiting
<1>6. CASE Reduce \/ Ignore
  BY <1>6, WaitStep
<1>7. CASE UNCHANGED adaptation
  BY <1>7 DEF adaptation, PatientInv, Reason, Patience, Reductions, NoThirdMiss, NextFifth,
     AverageRtt
<1> QED
  BY <1>2, <1>3, <1>4, <1>5, <1>6, <1>7 DEF AdaptationNext, Tunnel, Servfail

-----------------------------------------------------------------------------
(* The whole: both searches, then the time-outs.                            *)

(* One search alone, with no time-out to measure, keeps its invariant.      *)
THEOREM ProbesAlone == Spec => []ProbesIInv
<1> QED
  BY ProbesInitIInv, ProbesNextIInv, PTL DEF Spec

(* So does the adaptation, which may begin with any path.                   *)
THEOREM AdaptationAlone == AdaptationSpec => [](AdaptationIInv /\ PatientInv)
<1>1. AdaptationInit => PatientInv
  BY DEF AdaptationInit, NotWaiting, PatientInv
<1> QED
  BY <1>1, AdaptationInitIInv, AdaptationNextIInv, PatientNext, PTL DEF AdaptationSpec

IInv == ProbesIInv /\ AdaptationIInv /\ PatientInv

LEMMA InitIInv == PathInit => IInv
<1>1. AdaptationInit => PatientInv
  BY DEF AdaptationInit, NotWaiting, PatientInv
<1> QED
  BY <1>1, ProbesInitIInv, AdaptationInitIInv DEF PathInit, IInv

(* When the search for the size has returned, its variables are as they     *)
(* were before it, and the first ping may be sent.                         *)
LEMMA SetTimeoutStep == ProbesIInv /\ SetTimeout => ProbesIInv'
<1> SUFFICES ASSUME ProbesIInv, SetTimeout PROVE ProbesIInv'
  OBVIOUS
<1>1. /\ stage' = "between" /\ UNCHANGED type_search
      /\ limit' = 0 /\ max_fragsize' = 0 /\ try' = 0
      /\ proposed_fragsize' = 768 /\ range' = 768
      /\ size_found' = size_found /\ size_found
  BY DEF SetTimeout
<1>2. StageInv' /\ SizeInv'
  BY <1>1 DEF StageInv, SizeInv, ProposalInv, BestInv, BestSize, Ranges
<1>3. TypeInv'
  BY <1>1, TypeUnchanged DEF ProbesIInv
<1>4. CloseInv'
  BY <1>1 DEF CloseInv, ProbeClose, Fragsize!ProbeClose
<1> QED
  BY <1>2, <1>3, <1>4 DEF ProbesIInv

LEMMA NextIInv == IInv /\ [PathNext]_allvars => IInv'
<1> SUFFICES ASSUME IInv, [PathNext]_allvars PROVE IInv'
  OBVIOUS
<1>1. CASE Search
  <2>1. [Next]_vars /\ [AdaptationNext]_adaptation
    BY <1>1 DEF Search
  <2> QED
    BY <2>1, ProbesNextIInv, AdaptationNextIInv, PatientNext DEF IInv
<1>2. CASE SetTimeout
  <2>1. AdaptationNext
    BY <1>2 DEF SetTimeout, AdaptationNext
  <2> QED
    BY <1>2, <2>1, SetTimeoutStep, AdaptationNextIInv, PatientNext DEF IInv
<1>3. CASE Adapt
  <2>1. [Next]_vars /\ [AdaptationNext]_adaptation
    BY <1>3 DEF Adapt, AdaptationNext
  <2> QED
    BY <2>1, ProbesNextIInv, AdaptationNextIInv, PatientNext DEF IInv
<1>4. CASE UNCHANGED allvars
  <2>1. [Next]_vars /\ [AdaptationNext]_adaptation
    BY <1>4 DEF allvars
  <2> QED
    BY <2>1, ProbesNextIInv, AdaptationNextIInv, PatientNext DEF IInv
<1> QED
  BY <1>1, <1>2, <1>3, <1>4 DEF PathNext

(* The inductive invariant of all that is learnt of the path.               *)
THEOREM SpecIInv == PathSpec => []IInv
<1> QED
  BY InitIInv, NextIInv, PTL DEF PathSpec

(* Types, sizes, tries and waits stay in their ranges: no size is proposed  *)
(* that is below 2 or above 1536 (handshake_autoprobe_fragsize), for every  *)
(* path and every loss.                                                    *)
THEOREM Typing == PathSpec => []TypeOK
<1>1. IInv => TypeOK
  BY DEF IInv, ProbesIInv, StageInv, SizeInv, ProposalInv, BestInv, BestSize, TypeInv, Ranges, TypeOK,
     Fragsize!TypeOK, Fragsize!Tries
<1> QED
  BY <1>1, SpecIInv, PTL

(* The best size is the largest of those whose answer came whole, whatever  *)
(* was lost or corrupted during the search (handshake_autoprobe_fragsize).  *)
THEOREM SizeFits == PathSpec => []ProbeFits
<1>1. IInv => ProbeFits
  BY DEF IInv, ProbesIInv, SizeInv, ProposalInv, BestInv, BestSize, Ahead, Ranges, ProbeFits, Fragsize!ProbeFits
<1> QED
  BY <1>1, SpecIInv, PTL

(* If nothing was lost or corrupted, the size is less than 12 bytes below   *)
(* the limit of the path, at most 2 where less than 300 bytes get through,  *)
(* or the largest the search comes to: for every limit, although the range  *)
(* is not halved exactly at the end (handshake_autoprobe_fragsize).         *)
THEOREM SizeClose == PathSpec => []ProbeClose
<1>1. IInv => ProbeClose
  BY DEF IInv, ProbesIInv, CloseInv
<1> QED
  BY <1>1, SpecIInv, PTL

(* The type found is one that the path brings, and if no query was lost no  *)
(* better one is answered within the longest wait, for any delays of the    *)
(* seven types (handshake_qtype_autodetect).                                *)
THEOREM TypeBest == PathSpec => []BestType
<1>1. IInv => BestType
  BY DEF IInv, ProbesIInv, StageInv, TypeInv, TriedInv, BestType
<1> QED
  BY <1>1, SpecIInv, PTL

(* The server's time-out and the average round trip together are never more *)
(* than the client waits, for every target, every sequence of round-trip    *)
(* times and SERVFAILs (update_server_timeout).                            *)
THEOREM AlwaysInTime == PathSpec => []AnswersInTime
<1>1. IInv => AnswersInTime
  BY DEF IInv, AdaptationIInv, Follows, InTime, AnswersInTime
<1> QED
  BY <1>1, SpecIInv, PTL

(* However many SERVFAILs come, the target is not reduced below 300 ms, or  *)
(* not at all if the user has put it lower (tunnel_dns).                   *)
THEOREM AlwaysTargetKept == PathSpec => []TargetKept
<1>1. IInv => TargetKept
  BY DEF IInv, AdaptationIInv
<1> QED
  BY <1>1, SpecIInv, PTL

(* With SERVFAILs alone on a path that is not slow, immediate mode is asked *)
(* for within the patience, whatever the target and the counts were when    *)
(* they began, and whether or not a third miss puts the target up again     *)
(* (tunnel_dns).                                                           *)
THEOREM LastDitchInTime == PathSpec => []LastDitchTried
<1>1. IInv => LastDitchTried
  <2> SUFFICES ASSUME IInv PROVE LastDitchTried
    OBVIOUS
  <2>1. CASE waited.fails > 0
    BY <2>1 DEF IInv, PatientInv, LastDitchTried
  <2>2. CASE ~(waited.fails > 0)
    BY <2>2 DEF IInv, PatientInv, LastDitchTried, Patience
  <2> QED
    BY <2>1, <2>2
<1> QED
  BY <1>1, SpecIInv, PTL

=============================================================================
