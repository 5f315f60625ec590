--------------------------- MODULE FragsizeProbe ---------------------------
(***************************************************************************)
(* The search of the handshake for the largest answer the DNS path brings   *)
(* (client.c, handshake_autoprobe_fragsize with fragsize_check): answers of *)
(* a proposed size are asked for, three times at most, and the size goes up *)
(* or down by half of what it went before.                                  *)
(*                                                                         *)
(* The path brings answers of up to `limit' bytes; larger ones are lost or  *)
(* cut, and any may be lost. One step is one query with its answer or the   *)
(* end of the wait for it.                                                  *)
(***************************************************************************)
EXTENDS Integers

CONSTANTS
    Limits,     \* the limits of the paths looked at
    Corrupting  \* whether the path may also change bytes: a set of BOOLEAN

VARIABLES
    limit, corrupting,  \* of the path; they do not change
    proposed_fragsize, range, max_fragsize, try,
    lossless,   \* whether every answer of up to limit bytes has come so far
    done

path   == <<limit, corrupting>>
search == <<proposed_fragsize, range, max_fragsize, try>>
vars == <<path, search, lossless, done>>

Tries == 3

Init ==
    /\ limit \in Limits /\ corrupting \in Corrupting
    /\ proposed_fragsize = 768 /\ range = 768 /\ max_fragsize = 0
    /\ try = 0
    /\ lossless = TRUE
    /\ done = FALSE

(* Faulty: "Try bigger" and "Try smaller" step before the range is halved;  *)
(* the search stops one step earlier.                                       *)
round_unhalved(max) ==
    /\ max_fragsize' = max
    /\ range' = range \div 2
    /\ proposed_fragsize' =
         IF max = proposed_fragsize THEN proposed_fragsize + range
                                    ELSE proposed_fragsize - range
    /\ try' = 0
    /\ done' = (max < 0 \/ range' = 0 \/ (range' < 8 /\ max >= 300))

round_coarse(max) ==
    /\ max_fragsize' = max
    /\ range' = range \div 2
    /\ proposed_fragsize' =
         IF max = proposed_fragsize THEN proposed_fragsize + range'
                                    ELSE proposed_fragsize - range'
    /\ try' = 0
    /\ done' = (max < 0 \/ range' < 16)

(* The end of a round: the largest good size is now max, the next proposal  *)
(* is above or below the one of this round, and the loop's condition is     *)
(* looked at.                                                               *)
EndRound(max) ==
    /\ max_fragsize' = max
    /\ range' = range \div 2
    /\ proposed_fragsize' =
         IF max = proposed_fragsize THEN proposed_fragsize + range'
                                    ELSE proposed_fragsize - range'
    /\ try' = 0
    /\ done' = (max < 0 \/ range' = 0 \/ (range' < 8 /\ max >= 300))

(* Faulty: an answer that has been cut is good, too.                        *)
CutAccepted ==
    /\ ~ done
    /\ proposed_fragsize > limit
    /\ EndRound(proposed_fragsize)
    /\ UNCHANGED <<path, lossless>>

(* fragsize_check: the answer is whole.                                     *)
Whole ==
    /\ ~ done
    /\ proposed_fragsize <= limit
    /\ EndRound(proposed_fragsize)
    /\ UNCHANGED <<path, lossless>>

(* It says the right size but is shorter, or a byte after the third is      *)
(* wrong.                                                                   *)
Cut ==
    /\ ~ done
    /\ proposed_fragsize > limit \/ (corrupting /\ proposed_fragsize > 3)
    /\ EndRound(max_fragsize)
    /\ UNCHANGED <<path, lossless>>

(* The third byte is wrong, or, when two bytes were asked for, left over    *)
(* from an earlier answer: the search ends with nothing.                    *)
Corrupt ==
    /\ ~ done
    /\ proposed_fragsize <= limit
    /\ corrupting \/ proposed_fragsize <= 2
    /\ max_fragsize' = -1 /\ done' = TRUE
    /\ UNCHANGED <<path, proposed_fragsize, range, try, lossless>>

(* No answer in a second, a DNS error, or one that says BADIP or another    *)
(* size.                                                                    *)
NoAnswer ==
    /\ ~ done
    /\ IF try + 1 < Tries
       THEN try' = try + 1 /\ UNCHANGED <<proposed_fragsize, range, max_fragsize, done>>
       ELSE EndRound(max_fragsize)
    /\ lossless' = (lossless /\ proposed_fragsize > limit)
    /\ UNCHANGED path

Next == Whole \/ Cut \/ Corrupt \/ NoAnswer

Spec == Init /\ [][Next]_vars

(* What handshake_autoprobe_fragsize returns, and the server is told; 0     *)
(* ends the handshake.                                                      *)
Result == IF max_fragsize <= 6 THEN 0 ELSE max_fragsize - 2

-----------------------------------------------------------------------------
(* Properties.                                                             *)

(* The search stays in its range, so that a size fits the two bytes it is   *)
(* sent in and no proposal is below the two bytes that repeat it.           *)
TypeOK ==
    /\ proposed_fragsize \in 2 .. 1536
    /\ range \in 0 .. 768
    /\ max_fragsize \in -1 .. 1536
    /\ try \in 0 .. Tries - 1

(* The best size is the largest of those whose answer came whole, whichever *)
(* answers were lost: a larger one than the path brings is never taken, and *)
(* no later round, up or down, comes back to a size at or below it          *)
(* (handshake_autoprobe_fragsize). How much longer than the size it is told *)
(* the server makes its answers is not said here (README).                  *)
ProbeFits ==
    /\ max_fragsize > 0 => max_fragsize <= limit
    /\ ~ done => max_fragsize < proposed_fragsize

(* When no answer was lost the search comes close to the limit: 12 bytes,   *)
(* or, where it is scarce, 2; the largest size it can find is 1524.         *)
ProbeClose ==
    done /\ lossless /\ ~ corrupting /\ max_fragsize >= 0 =>
        \/ max_fragsize >= 300 /\ limit - max_fragsize < 12
        \/ max_fragsize < 300 /\ limit - max_fragsize <= 2
        \/ max_fragsize = 1524

=============================================================================
