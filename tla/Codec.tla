------------------------------- MODULE Codec -------------------------------
(***************************************************************************)
(* The four upstream and downstream codecs, base32.c, base64.c, base64u.c  *)
(* and base128.c: each an unrolled loop that writes characters of 5, 6 or  *)
(* 7 bits, stops when the output is full or the input is used up, and      *)
(* reports how many bytes of the input a reader will get back.             *)
(*                                                                         *)
(* A bit of the data is its own label, the number of its place, so that    *)
(* one behaviour stands for every value of the data: a mask or a shift     *)
(* that takes the wrong bit puts the wrong label into the character.  A    *)
(* character is the sequence of its bits; the alphabets, which name the    *)
(* characters one for one, are left out.                                   *)
(***************************************************************************)
EXTENDS Naturals, SequencesExt

CONSTANT MaxBytes   \* bound on the data, and on the buffers

VARIABLES codec,
          size, buflen,   \* arguments of encode: bytes of data, room for characters
          room,           \* argument of decode: room for bytes
          iin, iout,
          enc,            \* the characters written
          used,           \* *buflen on return of encode
          dec,            \* the bytes decoded
          pc

vars == <<codec, size, buflen, room, iin, iout, enc, used, dec, pc>>

(***************************************************************************)
(* The rows of the unrolled loops.  Writing a character takes the bits     *)
(* from first to last of byte iin and the first `more' bits of the next    *)
(* byte; `done' is the iin++ behind it.  Reading a byte takes from each of *)
(* the next characters the bits first to last; `next' is what iin gains.   *)
(***************************************************************************)
Char(first, last, more, done) ==
  [first |-> first, last |-> last, more |-> more, done |-> done]
Byte(parts, next) == [parts |-> parts, next |-> next]

Base32Chars == <<Char(1, 5, 0, FALSE), Char(6, 8, 2, TRUE),
                 Char(3, 7, 0, FALSE), Char(8, 8, 4, TRUE),
                 Char(5, 8, 1, TRUE),  Char(2, 6, 0, FALSE),
                 Char(7, 8, 3, TRUE),  Char(4, 8, 0, TRUE)>>
(* Mutant: the second byte uses up one character too few. *)
Base32BytesSlipped == <<Byte(<<<<1, 5>>, <<1, 3>>>>, 1),
                        Byte(<<<<4, 5>>, <<1, 5>>, <<1, 1>>>>, 1),
                        Byte(<<<<2, 5>>, <<1, 4>>>>, 1),
                        Byte(<<<<5, 5>>, <<1, 5>>, <<1, 2>>>>, 2),
                        Byte(<<<<3, 5>>, <<1, 5>>>>, 2)>>
Base32Bytes == <<Byte(<<<<1, 5>>, <<1, 3>>>>, 1),
                 Byte(<<<<4, 5>>, <<1, 5>>, <<1, 1>>>>, 2),
                 Byte(<<<<2, 5>>, <<1, 4>>>>, 1),
                 Byte(<<<<5, 5>>, <<1, 5>>, <<1, 2>>>>, 2),
                 Byte(<<<<3, 5>>, <<1, 5>>>>, 2)>>

Base64Chars == <<Char(1, 6, 0, FALSE), Char(7, 8, 4, TRUE),
                 Char(5, 8, 2, TRUE),  Char(3, 8, 0, TRUE)>>
Base64Bytes == <<Byte(<<<<1, 6>>, <<1, 2>>>>, 1),
                 Byte(<<<<3, 6>>, <<1, 4>>>>, 1),
                 Byte(<<<<5, 6>>, <<1, 6>>>>, 2)>>

Base64uChars == Base64Chars
Base64uBytes == Base64Bytes

Base128Chars == <<Char(1, 7, 0, FALSE), Char(8, 8, 6, TRUE),
                  Char(7, 8, 5, TRUE),  Char(6, 8, 4, TRUE),
                  Char(5, 8, 3, TRUE),  Char(4, 8, 2, TRUE),
                  Char(3, 8, 1, TRUE),  Char(2, 8, 0, TRUE)>>
Base128Bytes == <<Byte(<<<<1, 7>>, <<1, 1>>>>, 1), Byte(<<<<2, 7>>, <<1, 2>>>>, 1),
                  Byte(<<<<3, 7>>, <<1, 3>>>>, 1), Byte(<<<<4, 7>>, <<1, 4>>>>, 1),
                  Byte(<<<<5, 7>>, <<1, 5>>>>, 1), Byte(<<<<6, 7>>, <<1, 6>>>>, 1),
                  Byte(<<<<7, 7>>, <<1, 7>>>>, 2)>>

Base32  == [chars |-> Base32Chars,  bytes |-> Base32Bytes,  raw |-> 5, enc |-> 8]
Base64  == [chars |-> Base64Chars,  bytes |-> Base64Bytes,  raw |-> 3, enc |-> 4]
Base64u == [chars |-> Base64uChars, bytes |-> Base64uBytes, raw |-> 3, enc |-> 4]
Base128 == [chars |-> Base128Chars, bytes |-> Base128Bytes, raw |-> 7, enc |-> 8]
Codecs  == {Base32, Base64, Base64u, Base128}

----------------------------------------------------------------------------
Ceil(n, d) == n \div d + (IF n % d > 0 THEN 1 ELSE 0)
get_encoded_length(c, n) == Ceil(c.enc * n, c.raw)

(***************************************************************************)
(* Bit b of byte i, and the bits of the bytes before n.  Beyond the data   *)
(* is the pad of zeros.                                                    *)
(***************************************************************************)
Pad == "0"
Bit(i, b) == IF i < size THEN 8 * i + b ELSE Pad
DataByte(i) == [b \in 1..8 |-> Bit(i, b)]

WriteRow == codec.chars[(iout % codec.enc) + 1]
Written == SubSeq(DataByte(iin), WriteRow.first, WriteRow.last)
             \o SubSeq(DataByte(iin + 1), 1, WriteRow.more)

ReadRow == codec.bytes[(iout % codec.raw) + 1]
ReadFrom(parts, at) ==
  LET piece(k) == SubSeq(enc[at + k - 1], parts[k][1], parts[k][2])
  IN  piece(1) \o piece(2) \o (IF Len(parts) > 2 THEN piece(3) ELSE <<>>)

----------------------------------------------------------------------------
Init ==
  /\ codec \in Codecs
  /\ size \in 0..MaxBytes /\ buflen \in 0..(2 * MaxBytes) /\ room = 0
  /\ iin = 0 /\ iout = 0 /\ enc = <<>> /\ used = 0 /\ dec = <<>> /\ pc = "encode"

(***************************************************************************)
(* The break of the loop, and a character written.  A break behind a       *)
(* character that does not complete a byte takes that character back.      *)
(***************************************************************************)
Full == iout >= buflen \/ iin >= size
Useless == iout > 0 /\ ~codec.chars[((iout - 1) % codec.enc) + 1].done

EncodeChar ==
  /\ pc = "encode" /\ ~Full
  /\ enc' = Append(enc, Written)
  /\ iout' = iout + 1
  /\ iin' = iin + (IF WriteRow.done THEN 1 ELSE 0)
  /\ UNCHANGED <<codec, size, buflen, room, used, dec, pc>>

(* Mutant: the character that completes nothing is kept. *)
EncodeStopKeeping ==
  /\ pc = "encode" /\ Full
  /\ used' = iin
  /\ pc' = "encoded"
  /\ UNCHANGED <<codec, size, buflen, room, iin, iout, enc, dec>>

EncodeStop ==
  /\ pc = "encode" /\ Full
  /\ enc' = IF Useless THEN SubSeq(enc, 1, iout - 1) ELSE enc
  /\ used' = iin
  /\ pc' = "encoded"
  /\ UNCHANGED <<codec, size, buflen, room, iin, iout, dec>>

(***************************************************************************)
(* The reader has the characters that were written: a byte is read while   *)
(* there is room and all its characters are there.                         *)
(***************************************************************************)
DecodeStart ==
  /\ pc = "encoded"
  /\ room' \in 0..MaxBytes
  /\ iin' = 0 /\ iout' = 0
  /\ pc' = "decode"
  /\ UNCHANGED <<codec, size, buflen, enc, used, dec>>

Short == iout >= room \/ iin + Len(ReadRow.parts) > Len(enc)

DecodeByte ==
  /\ pc = "decode" /\ ~Short
  /\ dec' = Append(dec, ReadFrom(ReadRow.parts, iin + 1))
  /\ iin' = iin + ReadRow.next
  /\ iout' = iout + 1
  /\ UNCHANGED <<codec, size, buflen, room, enc, used, pc>>

DecodeStop ==
  /\ pc = "decode" /\ Short
  /\ pc' = "done"
  /\ UNCHANGED <<codec, size, buflen, room, iin, iout, enc, used, dec>>

Next == EncodeChar \/ EncodeStop \/ DecodeStart \/ DecodeByte \/ DecodeStop
Spec == Init /\ [][Next]_vars

----------------------------------------------------------------------------
(***************************************************************************)
(* What encode reports as used is what comes back, bit for bit, as far as  *)
(* the reader has room for it (base32.c:136, 218-230).                     *)
(***************************************************************************)
RoundTrip ==
  pc = "done" => /\ Len(dec) = Min({used, room})
                 /\ \A i \in 1..Len(dec) : dec[i] = DataByte(i - 1)

(***************************************************************************)
(* Encode uses as much of the data as the characters have room for, and    *)
(* writes as many characters as get_encoded_length says, so a break in the *)
(* middle of a byte leaves nothing behind.                                 *)
(***************************************************************************)
LengthsAgree ==
  pc # "encode" =>
    /\ used = Min({size, (codec.raw * buflen) \div codec.enc})
    /\ Len(enc) = get_encoded_length(codec, used)

=============================================================================
