------------------------------ MODULE Dotify ------------------------------
(***************************************************************************)
(* inline_dotify and inline_undotify of encoding.c: the dots that cut the  *)
(* encoded data into labels are put in behind every DNS_MAXLABEL           *)
(* characters, in place, working from the end of the string, and taken     *)
(* out again from the front.  Both loops go character by character with    *)
(* two pointers into the same buffer; here every round is a step.          *)
(***************************************************************************)
EXTENDS Integers, Sequences

CONSTANTS DNS_MAXLABEL,     \* characters of a label
          Buflen            \* room in the buffer, with the NUL

VARIABLES len,      \* length of the string given
          buf,      \* function from offsets to characters
          reader, writer, pos, dots, total, pc

vars == <<len, buf, reader, writer, pos, dots, total, pc>>

(* The characters of the string are numbered from 1. *)
Dot == 0
Nul == -1
Junk == -2

(* The callers' buffers hold the string, its dots and the NUL.             *)
Init ==
  /\ len \in {n \in 1..Buflen : n + n \div DNS_MAXLABEL + 1 < Buflen}
  /\ buf = [i \in 0..(Buflen - 1) |-> IF i < len THEN i + 1 ELSE IF i = len THEN Nul ELSE Junk]
  /\ reader = 0 /\ writer = 0 /\ pos = 0 /\ dots = 0 /\ total = 0 /\ pc = "text"

----------------------------------------------------------------------------
(***************************************************************************)
(* inline_dotify up to its loop: the new length, where the NUL goes, and   *)
(* the character behind which the next dot may belong.  A result that does *)
(* not fit would be cut.                                                   *)
(***************************************************************************)
DotifyStart ==
  /\ pc = "text"
  /\ dots' = len \div DNS_MAXLABEL
  /\ total' = IF len + dots' > Buflen THEN Buflen ELSE len + dots'
  /\ writer' = total'
  /\ reader' = writer' - dots'
  /\ pos' = reader' + 1
  /\ pc' = "dotify"
  /\ UNCHANGED <<len, buf>>

(* Mutant: the dot belongs before the character that starts a label. *)
DotifyRoundEarly ==
  /\ pc = "dotify" /\ dots > 0
  /\ pos' = pos - 1
  /\ reader' = reader - 1
  /\ IF pos % DNS_MAXLABEL = 0
       THEN /\ buf' = [buf EXCEPT ![writer] = buf[reader], ![writer - 1] = Dot]
            /\ writer' = writer - 2 /\ dots' = dots - 1
       ELSE /\ buf' = [buf EXCEPT ![writer] = buf[reader]]
            /\ writer' = writer - 1 /\ UNCHANGED dots
  /\ UNCHANGED <<len, total, pc>>

(* One round: a character moves up, and a dot goes below it where a label  *)
(* ends.                                                                   *)
DotifyRound ==
  /\ pc = "dotify" /\ dots > 0
  /\ pos' = pos - 1
  /\ reader' = reader - 1
  /\ IF pos' % DNS_MAXLABEL = 0
       THEN /\ buf' = [buf EXCEPT ![writer] = buf[reader], ![writer - 1] = Dot]
            /\ writer' = writer - 2 /\ dots' = dots - 1
       ELSE /\ buf' = [buf EXCEPT ![writer] = buf[reader]]
            /\ writer' = writer - 1 /\ UNCHANGED dots
  /\ UNCHANGED <<len, total, pc>>

DotifyEnd ==
  /\ pc = "dotify" /\ dots = 0
  /\ pc' = "dotted"
  /\ UNCHANGED <<len, buf, reader, writer, pos, dots, total>>

(* build_hostname: the dot before the topdomain, unless one is there.      *)
EndName ==
  /\ pc = "dotted"
  /\ IF buf[total - 1] = Dot
       THEN UNCHANGED <<buf, total>>
       ELSE buf' = [buf EXCEPT ![total] = Dot] /\ total' = total + 1
  /\ pc' = "name"
  /\ UNCHANGED <<len, reader, writer, pos, dots>>

(***************************************************************************)
(* The other end: inline_undotify of the name up to its topdomain.         *)
(***************************************************************************)
UndotifyStart ==
  /\ pc = "name"
  /\ reader' = 0 /\ writer' = 0 /\ pos' = 0 /\ dots' = 0
  /\ pc' = "undotify"
  /\ UNCHANGED <<len, buf, total>>

UndotifyRound ==
  /\ pc = "undotify" /\ pos < total
  /\ pos' = pos + 1 /\ reader' = reader + 1
  /\ IF buf[reader] = Dot
       THEN dots' = dots + 1 /\ UNCHANGED <<buf, writer>>
       ELSE /\ buf' = [buf EXCEPT ![writer] = buf[reader]]
            /\ writer' = writer + 1 /\ UNCHANGED dots
  /\ UNCHANGED <<len, total, pc>>

UndotifyEnd ==
  /\ pc = "undotify" /\ pos = total
  /\ total' = total - dots
  /\ pc' = "plain"
  /\ UNCHANGED <<len, buf, reader, writer, pos, dots>>

Next == DotifyStart \/ DotifyRound \/ DotifyEnd \/ EndName \/ UndotifyStart \/ UndotifyRound \/ UndotifyEnd
Spec == Init /\ [][Next]_vars

----------------------------------------------------------------------------
(***************************************************************************)
(* The pointers stay in the buffer and the writer never overtakes the      *)
(* reader, so nothing is overwritten before it was read; while dots go in, *)
(* the two are as far apart as there are dots to come.                     *)
(***************************************************************************)
ReadBeforeWritten ==
  /\ pc = "dotify" => reader >= 0 /\ writer = reader + dots /\ writer < Buflen
  /\ pc = "undotify" => writer + dots = reader /\ reader = pos

(***************************************************************************)
(* The dotted string has a dot behind every DNS_MAXLABEL characters and    *)
(* nowhere else, also behind the last one, keeps the characters in their   *)
(* order, and is as long as the caller is told (build_hostname relies on   *)
(* the last dot, encoding.c:75-79).                                        *)
(***************************************************************************)
DotsInPlace ==
  pc = "dotted" =>
    /\ total = len + len \div DNS_MAXLABEL
    /\ buf[total] = Nul
    /\ \A i \in 1..total : buf[i - 1] = Dot <=> i % (DNS_MAXLABEL + 1) = 0
    /\ \A c \in 1..len : buf[c - 1 + (c - 1) \div DNS_MAXLABEL] = c

(***************************************************************************)
(* A name is made of labels: none is empty or longer than DNS_MAXLABEL, and *)
(* the last ends with a dot, behind which the topdomain goes.              *)
(***************************************************************************)
LabelsRight ==
  pc = "name" =>
    LET ends == {0} \cup {i \in 1..total : buf[i - 1] = Dot}
    IN  /\ total \in ends
        /\ \A i \in ends \ {total} :
             \E j \in ends : j - i \in 2..(DNS_MAXLABEL + 1) /\ (i..j) \cap ends = {i, j}

=============================================================================
