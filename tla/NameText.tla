------------------------------ MODULE NameText ------------------------------
(***************************************************************************)
(* The text of a query name on its way from one end to the other:           *)
(* build_hostname encodes the data behind a header, puts the dots in and    *)
(* ends the text before the topdomain; unpack_data at the other end takes   *)
(* the dots out, and decodes what follows the header. The characters of the *)
(* text are numbered in module Dotify; enc of module Codec has the bits of  *)
(* those behind the header.                                                *)
(***************************************************************************)
EXTENDS Naturals, Sequences

CONSTANTS MaxBytes,                 \* as in Codec
          DNS_MAXLABEL, Buflen,     \* as in Dotify
          Headers                   \* lengths of headers

VARIABLES header,
          codec, size, buflen, room, iin, iout, enc, used, dec, pc,   \* of Codec
          len, buf, reader, writer, pos, dots, total, step            \* of Dotify

coding == <<codec, size, buflen, room, iin, iout, enc, used, dec, pc>>
dotting == <<len, buf, reader, writer, pos, dots, total, step>>
vars == <<header, coding, dotting>>

Data == INSTANCE Codec
Text == INSTANCE Dotify WITH pc <- step

ASSUME TextAssumption ==
  /\ MaxBytes \in Nat /\ Buflen \in Nat
  /\ DNS_MAXLABEL \in Nat \ {0} /\ Headers \subseteq Nat \ {0}
  /\ \A h \in Headers :
       LET most == h + 2 * MaxBytes IN most + most \div DNS_MAXLABEL + 1 < Buflen

Init ==
  /\ header \in Headers
  /\ Data!Init
  /\ len = 0 /\ buf = <<>> /\ reader = 0 /\ writer = 0 /\ pos = 0 /\ dots = 0
  /\ total = 0 /\ step = "none"

Encode ==
  /\ Data!EncodeChar \/ Data!EncodeStop
  /\ UNCHANGED <<header, dotting>>

(* The text is there, without dots.                                        *)
build_hostname ==
  /\ pc = "encoded" /\ step = "none"
  /\ len' = header + Len(enc)
  /\ buf' = [i \in 0..(Buflen - 1) |->
               IF i < len' THEN i + 1 ELSE IF i = len' THEN Text!Nul ELSE Text!Junk]
  /\ step' = "text"
  /\ UNCHANGED <<header, coding, reader, writer, pos, dots, total>>

Dots ==
  /\ Text!Next
  /\ UNCHANGED <<header, coding>>

(* The text has arrived: its characters behind the header are decoded.     *)
unpack_data ==
  /\ pc = "encoded" /\ step = "plain"
  /\ enc' = [i \in 1..(total - header) |-> enc[buf[header + i - 1] - header]]
  /\ step' = "read"
  /\ UNCHANGED <<header, codec, size, buflen, room, iin, iout, used, dec, pc,
                 len, buf, reader, writer, pos, dots, total>>

Decode ==
  /\ step = "read"
  /\ Data!DecodeStart \/ Data!DecodeByte \/ Data!DecodeStop
  /\ UNCHANGED <<header, dotting>>

Next == Encode \/ build_hostname \/ Dots \/ unpack_data \/ Decode

Spec == Init /\ [][Next]_vars

----------------------------------------------------------------------------
(* Properties.                                                             *)

(* What encode reports as used comes back bit for bit, with the dots put    *)
(* in and taken out on the way (base32.c:136, encoding.c:89-95).            *)
RoundTrip == Data!RoundTrip

(* Encode uses all that the characters have room for, and writes as many    *)
(* characters as get_encoded_length says.                                  *)
LengthsAgree == Data!LengthsAgree

(* inline_dotify and inline_undotify overwrite nothing before it was moved, *)
(* the dots are where labels end and nowhere else, and no label of the name *)
(* is empty or too long.                                                    *)
DotsRight == Text!ReadBeforeWritten /\ Text!DotsInPlace /\ Text!LabelsRight

=============================================================================
