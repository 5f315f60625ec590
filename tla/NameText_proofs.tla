--------------------------- MODULE NameText_proofs ---------------------------
(***************************************************************************)
(* Proof that the text of a name arrives as it was built: what a codec      *)
(* reports as used comes back bit for bit, with the dots put in and taken   *)
(* out in place on the way, for every length of the data, of the header, of *)
(* the room for characters and of the room for bytes, and for every length  *)
(* of labels.                                                              *)
(***************************************************************************)
EXTENDS NameText, SequenceTheorems, TLAPS

M == DNS_MAXLABEL

-----------------------------------------------------------------------------
(* The codecs. A character has Width bits; character j of the data, counted *)
(* from 0, has its bits from number Width * j on, and byte i has its bits   *)
(* from number 8 * i on.                                                   *)

Width(c) == (8 * c.raw) \div c.enc

DataBit(g) == IF g < 8 * size THEN g + 1 ELSE Data!Pad
Run(g, n) == [i \in 1 .. n |-> DataBit(g + i - 1)]
CharBits(j) == Run(Width(codec) * j, Width(codec))

Labels == Nat \cup {Data!Pad}

LEMMA CodecFacts ==
    ASSUME NEW c \in Data!Codecs
    PROVE  \/ c.raw = 5 /\ c.enc = 8 /\ Width(c) = 5
                /\ c.chars = Data!Base32Chars /\ c.bytes = Data!Base32Bytes
           \/ c.raw = 3 /\ c.enc = 4 /\ Width(c) = 6
                /\ c.chars = Data!Base64Chars /\ c.bytes = Data!Base64Bytes
           \/ c.raw = 7 /\ c.enc = 8 /\ Width(c) = 7
                /\ c.chars = Data!Base128Chars /\ c.bytes = Data!Base128Bytes
BY DEF Data!Codecs, Width, Data!Base32, Data!Base64, Data!Base64u, Data!Base128,
       Data!Base64uChars, Data!Base64uBytes

(* Before the character with the number o is written, as many bytes are     *)
(* used up as the characters before it fill; its row takes the bits that    *)
(* follow, and says whether it fills another one.                          *)
LEMMA WriteRows ==
    ASSUME NEW c \in Data!Codecs, NEW o \in Nat
    PROVE  LET row == c.chars[(o % c.enc) + 1] IN
           /\ row.first \in 1 .. 8 /\ row.last \in row.first .. 8 /\ row.more \in 0 .. 8
           /\ row.last - row.first + 1 + row.more = Width(c)
           /\ row.more > 0 => row.last = 8
           /\ 8 * ((c.raw * o) \div c.enc) + row.first - 1 = Width(c) * o
           /\ \/ row.done = TRUE
                   /\ (c.raw * (o + 1)) \div c.enc = (c.raw * o) \div c.enc + 1
              \/ row.done = FALSE
                   /\ (c.raw * (o + 1)) \div c.enc = (c.raw * o) \div c.enc
<1> DEFINE row == c.chars[(o % c.enc) + 1]
<1>1. CASE c.raw = 5 /\ c.enc = 8 /\ Width(c) = 5 /\ c.chars = Data!Base32Chars
  <2>0. /\ Data!Base32Chars[1] = Data!Char(1, 5, 0, FALSE)
        /\ Data!Base32Chars[2] = Data!Char(6, 8, 2, TRUE)
        /\ Data!Base32Chars[3] = Data!Char(3, 7, 0, FALSE)
        /\ Data!Base32Chars[4] = Data!Char(8, 8, 4, TRUE)
        /\ Data!Base32Chars[5] = Data!Char(5, 8, 1, TRUE)
        /\ Data!Base32Chars[6] = Data!Char(2, 6, 0, FALSE)
        /\ Data!Base32Chars[7] = Data!Char(7, 8, 3, TRUE)
        /\ Data!Base32Chars[8] = Data!Char(4, 8, 0, TRUE)
    BY DEF Data!Base32Chars
  <2>1. /\ o % 8 = 0 => row = Data!Char(1, 5, 0, FALSE)
        /\ o % 8 = 1 => row = Data!Char(6, 8, 2, TRUE)
        /\ o % 8 = 2 => row = Data!Char(3, 7, 0, FALSE)
        /\ o % 8 = 3 => row = Data!Char(8, 8, 4, TRUE)
        /\ o % 8 = 4 => row = Data!Char(5, 8, 1, TRUE)
        /\ o % 8 = 5 => row = Data!Char(2, 6, 0, FALSE)
        /\ o % 8 = 6 => row = Data!Char(7, 8, 3, TRUE)
        /\ o % 8 = 7 => row = Data!Char(4, 8, 0, TRUE)
    BY <1>1, <2>0 DEF Data!Char
  <2>2. o % 8 \in 0 .. 7
    OBVIOUS
  <2> HIDE DEF row
  <2>3. /\ o % 8 = 0 => 8 * ((5 * o) \div 8) = 5 * o     /\ (5 * (o + 1)) \div 8 = (5 * o) \div 8
        /\ o % 8 = 1 => 8 * ((5 * o) \div 8) = 5 * o - 5 /\ (5 * (o + 1)) \div 8 = (5 * o) \div 8 + 1
        /\ o % 8 = 2 => 8 * ((5 * o) \div 8) = 5 * o - 2 /\ (5 * (o + 1)) \div 8 = (5 * o) \div 8
        /\ o % 8 = 3 => 8 * ((5 * o) \div 8) = 5 * o - 7 /\ (5 * (o + 1)) \div 8 = (5 * o) \div 8 + 1
        /\ o % 8 = 4 => 8 * ((5 * o) \div 8) = 5 * o - 4 /\ (5 * (o + 1)) \div 8 = (5 * o) \div 8 + 1
        /\ o % 8 = 5 => 8 * ((5 * o) \div 8) = 5 * o - 1 /\ (5 * (o + 1)) \div 8 = (5 * o) \div 8
        /\ o % 8 = 6 => 8 * ((5 * o) \div 8) = 5 * o - 6 /\ (5 * (o + 1)) \div 8 = (5 * o) \div 8 + 1
        /\ o % 8 = 7 => 8 * ((5 * o) \div 8) = 5 * o - 3 /\ (5 * (o + 1)) \div 8 = (5 * o) \div 8 + 1
    OBVIOUS
  <2>4. /\ row.first \in 1 .. 8 /\ row.last \in row.first .. 8 /\ row.more \in 0 .. 8
        /\ row.last - row.first + 1 + row.more = 5
        /\ row.more > 0 => row.last = 8
    BY <2>1, <2>2 DEF Data!Char
  <2>5. 8 * ((5 * o) \div 8) + row.first - 1 = 5 * o
    BY <2>1, <2>2, <2>3 DEF Data!Char
  <2>6. \/ row.done = TRUE /\ (5 * (o + 1)) \div 8 = (5 * o) \div 8 + 1
        \/ row.done = FALSE /\ (5 * (o + 1)) \div 8 = (5 * o) \div 8
    BY <2>1, <2>2, <2>3 DEF Data!Char
  <2> QED BY <1>1, <2>4, <2>5, <2>6 DEF row
<1>2. CASE c.raw = 3 /\ c.enc = 4 /\ Width(c) = 6 /\ c.chars = Data!Base64Chars
  <2>0. /\ Data!Base64Chars[1] = Data!Char(1, 6, 0, FALSE)
        /\ Data!Base64Chars[2] = Data!Char(7, 8, 4, TRUE)
        /\ Data!Base64Chars[3] = Data!Char(5, 8, 2, TRUE)
        /\ Data!Base64Chars[4] = Data!Char(3, 8, 0, TRUE)
    BY DEF Data!Base64Chars
  <2>1. /\ o % 4 = 0 => row = Data!Char(1, 6, 0, FALSE)
        /\ o % 4 = 1 => row = Data!Char(7, 8, 4, TRUE)
        /\ o % 4 = 2 => row = Data!Char(5, 8, 2, TRUE)
        /\ o % 4 = 3 => row = Data!Char(3, 8, 0, TRUE)
    BY <1>2, <2>0 DEF Data!Char
  <2>2. o % 4 \in 0 .. 3
    OBVIOUS
  <2> HIDE DEF row
  <2>3. /\ o % 4 = 0 => 4 * ((3 * o) \div 4) = 3 * o     /\ (3 * (o + 1)) \div 4 = (3 * o) \div 4
        /\ o % 4 = 1 => 4 * ((3 * o) \div 4) = 3 * o - 3 /\ (3 * (o + 1)) \div 4 = (3 * o) \div 4 + 1
        /\ o % 4 = 2 => 4 * ((3 * o) \div 4) = 3 * o - 2 /\ (3 * (o + 1)) \div 4 = (3 * o) \div 4 + 1
        /\ o % 4 = 3 => 4 * ((3 * o) \div 4) = 3 * o - 1 /\ (3 * (o + 1)) \div 4 = (3 * o) \div 4 + 1
    OBVIOUS
  <2>4. /\ row.first \in 1 .. 8 /\ row.last \in row.first .. 8 /\ row.more \in 0 .. 8
        /\ row.last - row.first + 1 + row.more = 6
        /\ row.more > 0 => row.last = 8
    BY <2>1, <2>2 DEF Data!Char
  <2>5. 8 * ((3 * o) \div 4) + row.first - 1 = 6 * o
    BY <2>1, <2>2, <2>3 DEF Data!Char
  <2>6. \/ row.done = TRUE /\ (3 * (o + 1)) \div 4 = (3 * o) \div 4 + 1
        \/ row.done = FALSE /\ (3 * (o + 1)) \div 4 = (3 * o) \div 4
    BY <2>1, <2>2, <2>3 DEF Data!Char
  <2> QED BY <1>2, <2>4, <2>5, <2>6 DEF row
<1>3. CASE c.raw = 7 /\ c.enc = 8 /\ Width(c) = 7 /\ c.chars = Data!Base128Chars
  <2>0. /\ Data!Base128Chars[1] = Data!Char(1, 7, 0, FALSE)
        /\ Data!Base128Chars[2] = Data!Char(8, 8, 6, TRUE)
        /\ Data!Base128Chars[3] = Data!Char(7, 8, 5, TRUE)
        /\ Data!Base128Chars[4] = Data!Char(6, 8, 4, TRUE)
        /\ Data!Base128Chars[5] = Data!Char(5, 8, 3, TRUE)
        /\ Data!Base128Chars[6] = Data!Char(4, 8, 2, TRUE)
        /\ Data!Base128Chars[7] = Data!Char(3, 8, 1, TRUE)
        /\ Data!Base128Chars[8] = Data!Char(2, 8, 0, TRUE)
    BY DEF Data!Base128Chars
  <2>1. /\ o % 8 = 0 => row = Data!Char(1, 7, 0, FALSE)
        /\ o % 8 = 1 => row = Data!Char(8, 8, 6, TRUE)
        /\ o % 8 = 2 => row = Data!Char(7, 8, 5, TRUE)
        /\ o % 8 = 3 => row = Data!Char(6, 8, 4, TRUE)
        /\ o % 8 = 4 => row = Data!Char(5, 8, 3, TRUE)
        /\ o % 8 = 5 => row = Data!Char(4, 8, 2, TRUE)
        /\ o % 8 = 6 => row = Data!Char(3, 8, 1, TRUE)
        /\ o % 8 = 7 => row = Data!Char(2, 8, 0, TRUE)
    BY <1>3, <2>0 DEF Data!Char
  <2>2. o % 8 \in 0 .. 7
    OBVIOUS
  <2> HIDE DEF row
  <2>3. /\ o % 8 = 0 => 8 * ((7 * o) \div 8) = 7 * o     /\ (7 * (o + 1)) \div 8 = (7 * o) \div 8
        /\ o % 8 = 1 => 8 * ((7 * o) \div 8) = 7 * o - 7 /\ (7 * (o + 1)) \div 8 = (7 * o) \div 8 + 1
        /\ o % 8 = 2 => 8 * ((7 * o) \div 8) = 7 * o - 6 /\ (7 * (o + 1)) \div 8 = (7 * o) \div 8 + 1
        /\ o % 8 = 3 => 8 * ((7 * o) \div 8) = 7 * o - 5 /\ (7 * (o + 1)) \div 8 = (7 * o) \div 8 + 1
        /\ o % 8 = 4 => 8 * ((7 * o) \div 8) = 7 * o - 4 /\ (7 * (o + 1)) \div 8 = (7 * o) \div 8 + 1
        /\ o % 8 = 5 => 8 * ((7 * o) \div 8) = 7 * o - 3 /\ (7 * (o + 1)) \div 8 = (7 * o) \div 8 + 1
        /\ o % 8 = 6 => 8 * ((7 * o) \div 8) = 7 * o - 2 /\ (7 * (o + 1)) \div 8 = (7 * o) \div 8 + 1
        /\ o % 8 = 7 => 8 * ((7 * o) \div 8) = 7 * o - 1 /\ (7 * (o + 1)) \div 8 = (7 * o) \div 8 + 1
    OBVIOUS
  <2>4. /\ row.first \in 1 .. 8 /\ row.last \in row.first .. 8 /\ row.more \in 0 .. 8
        /\ row.last - row.first + 1 + row.more = 7
        /\ row.more > 0 => row.last = 8
    BY <2>1, <2>2 DEF Data!Char
  <2>5. 8 * ((7 * o) \div 8) + row.first - 1 = 7 * o
    BY <2>1, <2>2, <2>3 DEF Data!Char
  <2>6. \/ row.done = TRUE /\ (7 * (o + 1)) \div 8 = (7 * o) \div 8 + 1
        \/ row.done = FALSE /\ (7 * (o + 1)) \div 8 = (7 * o) \div 8
    BY <2>1, <2>2, <2>3 DEF Data!Char
  <2> QED BY <1>3, <2>4, <2>5, <2>6 DEF row
<1> QED BY <1>1, <1>2, <1>3, CodecFacts

(* Before byte o is read, the characters before the one with its first bit  *)
(* are used up; the parts of its row are the eight bits that follow, from    *)
(* the first of them to the end of a character, and so on.                  *)
LEMMA ReadRows ==
    ASSUME NEW c \in Data!Codecs, NEW o \in Nat
    PROVE  LET row == c.bytes[(o % c.raw) + 1]
               p == row.parts
               w == Width(c)
               at == (8 * o) \div w IN
           /\ Len(p) \in {2, 3}
           /\ p[1][1] \in 1 .. w /\ p[1][2] = w /\ w * at + p[1][1] - 1 = 8 * o
           /\ p[2][1] = 1 /\ p[2][2] \in 1 .. w
           /\ Len(p) = 2 => w + p[2][2] = p[1][1] + 7
           /\ Len(p) = 3 => /\ p[2][2] = w /\ p[3][1] = 1 /\ p[3][2] \in 1 .. w
                            /\ w + w + p[3][2] = p[1][1] + 7
           /\ (8 * (o + 1)) \div w = at + row.next
<1> DEFINE row == c.bytes[(o % c.raw) + 1]
<1>1. CASE c.raw = 5 /\ c.enc = 8 /\ Width(c) = 5 /\ c.bytes = Data!Base32Bytes
  <2>1. /\ o % 5 = 0 => row = Data!Byte(<<<<1, 5>>, <<1, 3>>>>, 1)
        /\ o % 5 = 1 => row = Data!Byte(<<<<4, 5>>, <<1, 5>>, <<1, 1>>>>, 2)
        /\ o % 5 = 2 => row = Data!Byte(<<<<2, 5>>, <<1, 4>>>>, 1)
        /\ o % 5 = 3 => row = Data!Byte(<<<<5, 5>>, <<1, 5>>, <<1, 2>>>>, 2)
        /\ o % 5 = 4 => row = Data!Byte(<<<<3, 5>>, <<1, 5>>>>, 2)
    BY <1>1 DEF Data!Base32Bytes
  <2>2. o % 5 \in 0 .. 4
    OBVIOUS
  <2> HIDE DEF row
  <2>3. /\ o % 5 = 0 => 5 * ((8 * o) \div 5) = 8 * o     /\ (8 * (o + 1)) \div 5 = (8 * o) \div 5 + 1
        /\ o % 5 = 1 => 5 * ((8 * o) \div 5) = 8 * o - 3 /\ (8 * (o + 1)) \div 5 = (8 * o) \div 5 + 2
        /\ o % 5 = 2 => 5 * ((8 * o) \div 5) = 8 * o - 1 /\ (8 * (o + 1)) \div 5 = (8 * o) \div 5 + 1
        /\ o % 5 = 3 => 5 * ((8 * o) \div 5) = 8 * o - 4 /\ (8 * (o + 1)) \div 5 = (8 * o) \div 5 + 2
        /\ o % 5 = 4 => 5 * ((8 * o) \div 5) = 8 * o - 2 /\ (8 * (o + 1)) \div 5 = (8 * o) \div 5 + 2
    OBVIOUS
  <2> QED BY <1>1, <2>1, <2>2, <2>3 DEF row, Data!Byte
<1>2. CASE c.raw = 3 /\ c.enc = 4 /\ Width(c) = 6 /\ c.bytes = Data!Base64Bytes
  <2>1. /\ o % 3 = 0 => row = Data!Byte(<<<<1, 6>>, <<1, 2>>>>, 1)
        /\ o % 3 = 1 => row = Data!Byte(<<<<3, 6>>, <<1, 4>>>>, 1)
        /\ o % 3 = 2 => row = Data!Byte(<<<<5, 6>>, <<1, 6>>>>, 2)
    BY <1>2 DEF Data!Base64Bytes
  <2>2. o % 3 \in 0 .. 2
    OBVIOUS
  <2> HIDE DEF row
  <2>3. /\ o % 3 = 0 => 6 * ((8 * o) \div 6) = 8 * o     /\ (8 * (o + 1)) \div 6 = (8 * o) \div 6 + 1
        /\ o % 3 = 1 => 6 * ((8 * o) \div 6) = 8 * o - 2 /\ (8 * (o + 1)) \div 6 = (8 * o) \div 6 + 1
        /\ o % 3 = 2 => 6 * ((8 * o) \div 6) = 8 * o - 4 /\ (8 * (o + 1)) \div 6 = (8 * o) \div 6 + 2
    OBVIOUS
  <2> QED BY <1>2, <2>1, <2>2, <2>3 DEF row, Data!Byte
<1>3. CASE c.raw = 7 /\ c.enc = 8 /\ Width(c) = 7 /\ c.bytes = Data!Base128Bytes
  <2>1. /\ o % 7 = 0 => row = Data!Byte(<<<<1, 7>>, <<1, 1>>>>, 1)
        /\ o % 7 = 1 => row = Data!Byte(<<<<2, 7>>, <<1, 2>>>>, 1)
        /\ o % 7 = 2 => row = Data!Byte(<<<<3, 7>>, <<1, 3>>>>, 1)
        /\ o % 7 = 3 => row = Data!Byte(<<<<4, 7>>, <<1, 4>>>>, 1)
        /\ o % 7 = 4 => row = Data!Byte(<<<<5, 7>>, <<1, 5>>>>, 1)
        /\ o % 7 = 5 => row = Data!Byte(<<<<6, 7>>, <<1, 6>>>>, 1)
        /\ o % 7 = 6 => row = Data!Byte(<<<<7, 7>>, <<1, 7>>>>, 2)
    BY <1>3 DEF Data!Base128Bytes
  <2>2. o % 7 \in 0 .. 6
    OBVIOUS
  <2> HIDE DEF row
  <2>3. /\ o % 7 < 6 => (8 * (o + 1)) \div 7 = (8 * o) \div 7 + 1
        /\ o % 7 = 6 => (8 * (o + 1)) \div 7 = (8 * o) \div 7 + 2
        /\ 7 * ((8 * o) \div 7) = 8 * o - (o % 7)
    OBVIOUS
  <2> QED BY <1>3, <2>1, <2>2, <2>3 DEF row, Data!Byte
<1> QED BY <1>1, <1>2, <1>3, CodecFacts

-----------------------------------------------------------------------------
(* What a row writes and reads: runs of bits that follow one another.       *)

LEMMA RunType ==
    ASSUME size \in Nat, NEW g \in Nat, NEW n \in Nat
    PROVE  /\ Run(g, n) \in Seq(Labels) /\ Len(Run(g, n)) = n
           /\ \A i \in 1 .. n : Run(g, n)[i] = DataBit(g + i - 1)
<1>1. \A i \in 1 .. n : DataBit(g + i - 1) \in Labels
  BY DEF DataBit, Labels
<1> QED BY <1>1 DEF Run

LEMMA RunJoin ==
    ASSUME size \in Nat, NEW g \in Nat, NEW n \in Nat, NEW m \in Nat
    PROVE  Run(g, n) \o Run(g + n, m) = Run(g, n + m)
<1> DEFINE s == Run(g, n)
           t == Run(g + n, m)
           u == Run(g, n + m)
<1>1. /\ s \in Seq(Labels) /\ Len(s) = n
      /\ \A i \in 1 .. n : s[i] = DataBit(g + i - 1)
  BY RunType
<1>2. /\ t \in Seq(Labels) /\ Len(t) = m
      /\ \A i \in 1 .. m : t[i] = DataBit(g + n + i - 1)
  <2>1. g + n \in Nat
    OBVIOUS
  <2> QED BY <2>1, RunType
<1>3. /\ u \in Seq(Labels) /\ Len(u) = n + m
      /\ \A i \in 1 .. n + m : u[i] = DataBit(g + i - 1)
  <2>1. n + m \in Nat
    OBVIOUS
  <2> QED BY <2>1, RunType
<1> HIDE DEF s, t, u
<1>4. /\ s \o t \in Seq(Labels) /\ Len(s \o t) = n + m
      /\ \A i \in 1 .. n + m : (s \o t)[i] = IF i <= n THEN s[i] ELSE t[i - n]
  BY <1>1, <1>2, ConcatProperties
<1>5. ASSUME NEW i \in 1 .. n + m
      PROVE  (s \o t)[i] = u[i]
  <2>1. CASE i <= n
    BY <1>1, <1>3, <1>4, <2>1
  <2>2. CASE ~ (i <= n)
    <3>1. i - n \in 1 .. m /\ g + n + (i - n) - 1 = g + i - 1
      BY <2>2
    <3> QED BY <1>2, <1>3, <1>4, <2>2, <3>1
  <2> QED BY <2>1, <2>2
<1>6. s \o t = u
  BY <1>3, <1>4, <1>5, SeqEqual
<1> QED BY <1>6 DEF s, t, u

LEMMA RunPart ==
    ASSUME size \in Nat, NEW g \in Nat, NEW n \in Nat,
           NEW a \in 1 .. n, NEW b \in a - 1 .. n
    PROVE  SubSeq(Run(g, n), a, b) = Run(g + a - 1, b - a + 1)
<1> DEFINE s == Run(g, n)
           t == SubSeq(s, a, b)
           u == Run(g + a - 1, b - a + 1)
<1>1. /\ s \in Seq(Labels) /\ Len(s) = n
      /\ \A i \in 1 .. n : s[i] = DataBit(g + i - 1)
  BY RunType
<1>2. g + a - 1 \in Nat /\ b - a + 1 \in Nat
  OBVIOUS
<1>3. /\ u \in Seq(Labels) /\ Len(u) = b - a + 1
      /\ \A i \in 1 .. b - a + 1 : u[i] = DataBit(g + a - 1 + i - 1)
  BY <1>2, RunType
<1> HIDE DEF s, u
<1>4. /\ t \in Seq(Labels) /\ Len(t) = b - a + 1
      /\ \A i \in 1 .. b - a + 1 : t[i] = s[a + i - 1]
  <2>1. \A i \in a .. b : s[i] \in Labels
    BY <1>1, ElementOfSeq
  <2>2. /\ t \in Seq(Labels) /\ Len(t) = IF a <= b THEN b - a + 1 ELSE 0
        /\ \A i \in 1 .. b - a + 1 : t[i] = s[a + i - 1]
    BY <2>1, SubSeqProperties
  <2> QED BY <2>2
<1> HIDE DEF t
<1>5. ASSUME NEW i \in 1 .. b - a + 1
      PROVE  t[i] = u[i]
  <2>1. a + i - 1 \in 1 .. n /\ g + (a + i - 1) - 1 = g + a - 1 + i - 1
    OBVIOUS
  <2> QED BY <1>1, <1>3, <1>4, <2>1
<1>6. t = u
  BY <1>3, <1>4, <1>5, SeqEqual
<1> QED BY <1>6 DEF s, t, u

LEMMA RunHead ==
    ASSUME size \in Nat, NEW g \in Nat, NEW n \in Nat, NEW b \in 0 .. n, n > 0
    PROVE  SubSeq(Run(g, n), 1, b) = Run(g, b)
<1>1. ASSUME NEW a \in {1}
      PROVE  SubSeq(Run(g, n), a, b) = Run(g + a - 1, b - a + 1)
  <2>1. a \in 1 .. n /\ b \in a - 1 .. n
    OBVIOUS
  <2> QED BY <2>1, RunPart
<1>2. SubSeq(Run(g, n), 1, b) = Run(g + 1 - 1, b - 1 + 1)
  BY <1>1
<1>3. g + 1 - 1 = g /\ b - 1 + 1 = b
  OBVIOUS
<1> QED BY <1>2, <1>3

LEMMA ByteIs ==
    ASSUME size \in Nat, NEW i \in Nat
    PROVE  Data!DataByte(i) = Run(8 * i, 8)
<1>1. ASSUME NEW b \in 1 .. 8
      PROVE  Data!Bit(i, b) = DataBit(8 * i + b - 1)
  BY DEF Data!Bit, DataBit
<1> QED BY <1>1 DEF Data!DataByte, Run

(* The row of a character takes from the byte and the next one just the     *)
(* bits of this character.                                                 *)
LEMMA WrittenIs ==
    ASSUME size \in Nat, codec \in Data!Codecs, iout \in Nat,
           iin = (codec.raw * iout) \div codec.enc
    PROVE  Data!Written = CharBits(iout)
<1> DEFINE row == Data!WriteRow
           w == Width(codec)
           x == 8 * iin
<1>1. iin \in Nat /\ x \in Nat /\ w \in 5 .. 7
  BY CodecFacts
<1>2. /\ row.first \in 1 .. 8 /\ row.last \in row.first .. 8 /\ row.more \in 0 .. 8
      /\ row.last - row.first + 1 + row.more = w
      /\ row.more > 0 => row.last = 8
      /\ x + row.first - 1 = w * iout
  BY WriteRows DEF Data!WriteRow
<1>3. PICK f \in 1 .. 8, l \in 1 .. 8, m \in 0 .. 8 :
          /\ f = row.first /\ l = row.last /\ m = row.more
          /\ f <= l /\ l - f + 1 + m = w /\ x + f - 1 = w * iout
          /\ m > 0 => l = 8
  BY <1>2
<1>4. Data!Written = SubSeq(Run(x, 8), f, l) \o SubSeq(Run(x + 8, 8), 1, m)
  <2>1. iin + 1 \in Nat /\ 8 * (iin + 1) = x + 8
    BY <1>1
  <2>2. Data!DataByte(iin) = Run(x, 8) /\ Data!DataByte(iin + 1) = Run(x + 8, 8)
    BY <1>1, <2>1, ByteIs
  <2> QED BY <1>3, <2>2 DEF Data!Written
<1> HIDE DEF row, w, x
<1>5. SubSeq(Run(x, 8), f, l) = Run(x + f - 1, l - f + 1)
  <2>1. l \in f - 1 .. 8
    BY <1>1, <1>3
  <2> QED BY <1>1, <2>1, RunPart
<1>6. SubSeq(Run(x + 8, 8), 1, m) = Run(x + 8, m)
  <2> DEFINE y == x + 8
  <2>1. y \in Nat /\ m \in 0 .. 8 /\ 8 > 0
    BY <1>1
  <2> HIDE DEF y
  <2>2. ASSUME NEW n \in {8}
        PROVE  SubSeq(Run(y, n), 1, m) = Run(y, m)
    BY <2>1, RunHead
  <2> QED BY <2>2 DEF y
<1> DEFINE g == x + f - 1
           n == l - f + 1
<1>7. g \in Nat /\ n \in Nat /\ n + m = w /\ g = w * iout
  BY <1>1, <1>3
<1>8. Run(x + 8, m) = Run(g + n, m)
  <2>1. CASE m > 0
    BY <1>1, <1>3, <2>1
  <2>2. CASE m = 0
    BY <2>2 DEF Run
  <2> QED BY <2>1, <2>2
<1> HIDE DEF g, n
<1>9. Data!Written = Run(g, n + m)
  <2>1. Data!Written = Run(g, n) \o Run(g + n, m)
    BY <1>4, <1>5, <1>6, <1>8 DEF g, n
  <2>2. Run(g, n) \o Run(g + n, m) = Run(g, n + m)
    <3>1. m \in Nat
      OBVIOUS
    <3> QED BY <1>7, <3>1, RunJoin
  <2> QED BY <2>1, <2>2
<1> QED BY <1>7, <1>9 DEF CharBits, w

(* The end of one character and the beginning of the next, or all of the    *)
(* next and the beginning of the one after it, are a run of eight bits.     *)
LEMMA TwoParts ==
    ASSUME size \in Nat, NEW w \in 5 .. 7, NEW x \in Nat, NEW a \in 1 .. w, NEW b \in 1 .. w
    PROVE  SubSeq(Run(x, w), a, w) \o SubSeq(Run(x + w, w), 1, b)
             = Run(x + a - 1, w - a + 1 + b)
<1> DEFINE g == x + a - 1
           r == w - a + 1
<1>1. g \in Nat /\ r \in Nat /\ b \in Nat /\ g + r = x + w /\ w \in Nat
  OBVIOUS
<1>2. SubSeq(Run(x, w), a, w) = Run(g, r)
  <2>1. w \in a - 1 .. w
    OBVIOUS
  <2> QED BY <1>1, <2>1, RunPart
<1>3. SubSeq(Run(x + w, w), 1, b) = Run(x + w, b)
  <2>1. b \in 0 .. w /\ w > 0 /\ x + w \in Nat
    OBVIOUS
  <2> QED BY <1>1, <2>1, RunHead
<1>4. SubSeq(Run(x, w), a, w) \o SubSeq(Run(x + w, w), 1, b) = Run(g, r) \o Run(g + r, b)
  BY <1>1, <1>2, <1>3
<1>5. Run(g, r) \o Run(g + r, b) = Run(g, r + b)
  <2> HIDE DEF g, r
  <2> QED BY <1>1, RunJoin
<1> QED BY <1>4, <1>5

LEMMA ThreeParts ==
    ASSUME size \in Nat, NEW w \in 5 .. 7, NEW x \in Nat, NEW a \in 1 .. w, NEW c \in 1 .. w
    PROVE  (SubSeq(Run(x, w), a, w) \o SubSeq(Run(x + w, w), 1, w))
                \o SubSeq(Run(x + w + w, w), 1, c)
             = Run(x + a - 1, w - a + 1 + w + c)
<1> DEFINE g == x + a - 1
           r == w - a + 1 + w
<1>1. g \in Nat /\ r \in Nat /\ c \in Nat /\ g + r = x + w + w /\ w \in Nat
  OBVIOUS
<1>2. SubSeq(Run(x, w), a, w) \o SubSeq(Run(x + w, w), 1, w) = Run(g, r)
  <2>1. w \in 1 .. w
    OBVIOUS
  <2> QED BY <2>1, TwoParts
<1>3. SubSeq(Run(x + w + w, w), 1, c) = Run(x + w + w, c)
  <2>1. c \in 0 .. w /\ w > 0 /\ x + w + w \in Nat
    OBVIOUS
  <2> QED BY <1>1, <2>1, RunHead
<1>4. (SubSeq(Run(x, w), a, w) \o SubSeq(Run(x + w, w), 1, w))
        \o SubSeq(Run(x + w + w, w), 1, c) = Run(g, r) \o Run(g + r, c)
  BY <1>1, <1>2, <1>3
<1>5. Run(g, r) \o Run(g + r, c) = Run(g, r + c)
  <2> HIDE DEF g, r
  <2> QED BY <1>1, RunJoin
<1> QED BY <1>4, <1>5

(* The characters of the bits of n characters, the one at i and those       *)
(* behind it.                                                              *)
Chars(n) == [j \in 1 .. n |-> CharBits(j - 1)]

LEMMA CharAt ==
    ASSUME codec \in Data!Codecs, NEW n \in Nat, NEW i \in Nat
    PROVE  /\ i + 1 <= n => Chars(n)[i + 1] = Run(Width(codec) * i, Width(codec))
           /\ i + 2 <= n => Chars(n)[i + 2]
                               = Run(Width(codec) * i + Width(codec), Width(codec))
           /\ i + 3 <= n => Chars(n)[i + 3]
                               = Run(Width(codec) * i + Width(codec) + Width(codec), Width(codec))
<1> DEFINE w == Width(codec)
<1>1. w \in 5 .. 7
  BY CodecFacts
<1>2. ASSUME NEW k \in Nat, k + 1 <= n
      PROVE  Chars(n)[k + 1] = Run(w * k, w)
  <2>1. k + 1 \in 1 .. n /\ k + 1 - 1 = k
    BY <1>2
  <2> QED BY <2>1 DEF Chars, CharBits
<1> HIDE DEF w
<1>3. w * (i + 1) = w * i + w /\ w * (i + 2) = w * i + w + w
  BY <1>1
<1>4. i + 1 \in Nat /\ i + 2 \in Nat /\ i + 1 + 1 = i + 2 /\ i + 2 + 1 = i + 3
  OBVIOUS
<1>5. /\ i + 1 <= n => Chars(n)[i + 1] = Run(w * i, w)
      /\ i + 2 <= n => Chars(n)[i + 2] = Run(w * (i + 1), w)
      /\ i + 3 <= n => Chars(n)[i + 3] = Run(w * (i + 2), w)
  BY <1>2, <1>4
<1> QED BY <1>3, <1>5 DEF w

(* The parts of the row of a byte, taken from the characters in turn, are   *)
(* just the bits of this byte.                                             *)
LEMMA ReadIs ==
    ASSUME size \in Nat, codec \in Data!Codecs, iout \in Nat,
           iin = (8 * iout) \div Width(codec),
           NEW n \in Nat, enc = Chars(n), iin + Len(Data!ReadRow.parts) <= n
    PROVE  Data!ReadFrom(Data!ReadRow.parts, iin + 1) = Data!DataByte(iout)
<1> DEFINE p == Data!ReadRow.parts
           w == Width(codec)
           x == w * iin
           P(k) == SubSeq(enc[iin + 1 + k - 1], p[k][1], p[k][2])
           read == Data!ReadFrom(p, iin + 1)
<1>1. iin \in Nat /\ x \in Nat /\ w \in 5 .. 7
  BY CodecFacts
<1>2. /\ Len(p) \in {2, 3}
      /\ p[1][1] \in 1 .. w /\ p[1][2] = w /\ x + p[1][1] - 1 = 8 * iout
      /\ p[2][1] = 1 /\ p[2][2] \in 1 .. w
      /\ Len(p) = 2 => w + p[2][2] = p[1][1] + 7
      /\ Len(p) = 3 => /\ p[2][2] = w /\ p[3][1] = 1 /\ p[3][2] \in 1 .. w
                       /\ w + w + p[3][2] = p[1][1] + 7
  BY ReadRows DEF Data!ReadRow
<1>3. /\ iin + 1 + 1 - 1 = iin + 1
      /\ iin + 1 + 2 - 1 = iin + 2
      /\ iin + 1 + 3 - 1 = iin + 3
  BY <1>1
<1>4. read = (P(1) \o P(2)) \o (IF Len(p) > 2 THEN P(3) ELSE << >>)
  BY DEF Data!ReadFrom
<1>5. CASE Len(p) = 2
  <2>1. PICK a \in 1 .. w, b \in 1 .. w : a = p[1][1] /\ b = p[2][2]
    BY <1>2
  <2>2. x + a - 1 = 8 * iout /\ w + b = a + 7
    BY <1>2, <1>5, <2>1
  <2>3. P(1) = SubSeq(Run(x, w), a, w) /\ P(2) = SubSeq(Run(x + w, w), 1, b)
    <3>1. iin + 1 <= n /\ iin + 2 <= n
      BY <1>1, <1>5
    <3>2. enc[iin + 1] = Run(x, w) /\ enc[iin + 2] = Run(x + w, w)
      BY <1>1, <3>1, CharAt
    <3> HIDE DEF p, w, x
    <3> QED BY <1>2, <1>3, <2>1, <3>2
  <2> HIDE DEF p, w, x, P, read
  <2>4. read = (P(1) \o P(2)) \o << >>
    BY <1>4, <1>5
  <2>a. SubSeq(Run(x, w), a, w) \o SubSeq(Run(x + w, w), 1, b) = Run(x + a - 1, w - a + 1 + b)
    BY <1>1, TwoParts
  <2>5. P(1) \o P(2) = Run(x + a - 1, w - a + 1 + b)
    BY <2>3, <2>a
  <2>6. x + a - 1 \in Nat /\ w - a + 1 + b = 8 /\ 8 \in Nat
    BY <1>1, <2>2
  <2>7. Run(8 * iout, 8) \in Seq(Labels) /\ 8 * iout \in Nat
    BY <2>2, <2>6, RunType
  <2>8. Run(8 * iout, 8) \o << >> = Run(8 * iout, 8)
    BY <2>7, ConcatEmptySeq
  <2>9. read = Run(8 * iout, 8)
    BY <2>2, <2>4, <2>5, <2>6, <2>8
  <2> QED BY <2>9, ByteIs DEF read, p
<1>6. CASE Len(p) = 3
  <2>1. PICK a \in 1 .. w, c \in 1 .. w : a = p[1][1] /\ c = p[3][2]
    BY <1>2, <1>6
  <2>2. x + a - 1 = 8 * iout /\ w + w + c = a + 7 /\ p[2][2] = w /\ p[3][1] = 1
    BY <1>2, <1>6, <2>1
  <2>3. /\ P(1) = SubSeq(Run(x, w), a, w) /\ P(2) = SubSeq(Run(x + w, w), 1, w)
        /\ P(3) = SubSeq(Run(x + w + w, w), 1, c)
    <3>1. iin + 1 <= n /\ iin + 2 <= n /\ iin + 3 <= n
      BY <1>1, <1>6
    <3>2. /\ enc[iin + 1] = Run(x, w) /\ enc[iin + 2] = Run(x + w, w)
          /\ enc[iin + 3] = Run(x + w + w, w)
      BY <1>1, <3>1, CharAt
    <3> HIDE DEF p, w, x
    <3> QED BY <1>2, <1>3, <2>1, <2>2, <3>2
  <2> HIDE DEF p, w, x, P, read
  <2>4. read = (P(1) \o P(2)) \o P(3)
    BY <1>4, <1>6
  <2>a. (SubSeq(Run(x, w), a, w) \o SubSeq(Run(x + w, w), 1, w))
            \o SubSeq(Run(x + w + w, w), 1, c) = Run(x + a - 1, w - a + 1 + w + c)
    BY <1>1, ThreeParts
  <2>5. (P(1) \o P(2)) \o P(3) = Run(x + a - 1, w - a + 1 + w + c)
    BY <2>3, <2>a
  <2>6. w - a + 1 + w + c = 8
    BY <1>1, <2>2
  <2>9. read = Run(8 * iout, 8)
    BY <2>2, <2>4, <2>5, <2>6
  <2> QED BY <2>9, ByteIs DEF read, p
<1> QED BY <1>2, <1>5, <1>6

-----------------------------------------------------------------------------
(* How many characters and bytes there are.                                *)

(* The characters of n bytes are the fewest that hold all their bits.       *)
LEMMA EncodedLength ==
    ASSUME NEW c \in Data!Codecs, NEW u \in Nat
    PROVE  /\ Data!get_encoded_length(c, u) \in Nat
           /\ \A n \in Nat : 8 * u <= Width(c) * n /\ Width(c) * n < 8 * u + Width(c)
                             <=> n = Data!get_encoded_length(c, u)
<1>1. ASSUME NEW m \in Nat, NEW d \in {3, 5, 7}
      PROVE  /\ Data!Ceil(m, d) \in Nat
             /\ m <= d * Data!Ceil(m, d) /\ d * Data!Ceil(m, d) < m + d
  BY DEF Data!Ceil
<1>2. CASE c.raw = 5 /\ c.enc = 8 /\ Width(c) = 5
  <2> DEFINE e == Data!Ceil(8 * u, 5)
  <2>1. e \in Nat /\ 8 * u <= 5 * e /\ 5 * e < 8 * u + 5
    BY <1>1
  <2> HIDE DEF e
  <2>2. \A n \in Nat : 8 * u <= 5 * n /\ 5 * n < 8 * u + 5 <=> n = e
    BY <2>1
  <2> QED BY <1>2, <2>1, <2>2 DEF Data!get_encoded_length, e
<1>3. CASE c.raw = 3 /\ c.enc = 4 /\ Width(c) = 6
  <2> DEFINE e == Data!Ceil(4 * u, 3)
  <2>1. e \in Nat /\ 4 * u <= 3 * e /\ 3 * e < 4 * u + 3
    BY <1>1
  <2> HIDE DEF e
  <2>2. \A n \in Nat : 8 * u <= 6 * n /\ 6 * n < 8 * u + 6 <=> n = e
    BY <2>1
  <2> QED BY <1>3, <2>1, <2>2 DEF Data!get_encoded_length, e
<1>4. CASE c.raw = 7 /\ c.enc = 8 /\ Width(c) = 7
  <2> DEFINE e == Data!Ceil(8 * u, 7)
  <2>1. e \in Nat /\ 8 * u <= 7 * e /\ 7 * e < 8 * u + 7
    BY <1>1
  <2> HIDE DEF e
  <2>2. \A n \in Nat : 8 * u <= 7 * n /\ 7 * n < 8 * u + 7 <=> n = e
    BY <2>1
  <2> QED BY <1>4, <2>1, <2>2 DEF Data!get_encoded_length, e
<1> QED BY <1>2, <1>3, <1>4, CodecFacts

LEMMA MinOfTwo ==
    ASSUME NEW a \in Nat, NEW b \in Nat
    PROVE  Data!Min({a, b}) = IF a <= b THEN a ELSE b
<1> DEFINE m == IF a <= b THEN a ELSE b
<1>1. m \in {a, b} /\ \A y \in {a, b} : m <= y
  OBVIOUS
<1>2. ASSUME NEW x \in {a, b}, \A y \in {a, b} : x <= y
      PROVE  x = m
  BY <1>2
<1> QED BY <1>1, <1>2 DEF Data!Min

(* The bytes that o characters fill.                                       *)
Filled(o) == (codec.raw * o) \div codec.enc

LEMMA FilledFacts ==
    ASSUME codec \in Data!Codecs, NEW o \in Nat
    PROVE  /\ Filled(o) \in Nat
           /\ 8 * Filled(o) <= Width(codec) * o /\ Width(codec) * o < 8 * Filled(o) + 8
           /\ \A k \in Nat : o <= k => Filled(o) <= Filled(k)
BY CodecFacts DEF Filled

(* When the loop ends, without the character that completes nothing there   *)
(* are as many as the bytes used need.                                     *)
LEMMA StoppedLength ==
    ASSUME codec \in Data!Codecs, iout \in Nat
    PROVE  (IF Data!Useless THEN iout - 1 ELSE iout)
             = Data!get_encoded_length(codec, Filled(iout))
<1> DEFINE u == Filled(iout)
           w == Width(codec)
<1>1. /\ u \in Nat /\ w \in 5 .. 7
      /\ 8 * u <= w * iout /\ w * iout < 8 * u + 8
  BY FilledFacts, CodecFacts
<1>2. CASE iout = 0
  <2>1. ~ Data!Useless /\ u = 0
    BY <1>1, <1>2 DEF Data!Useless
  <2>2. 8 * u <= w * 0 /\ w * 0 < 8 * u + w
    BY <1>1, <2>1
  <2> QED BY <1>2, <2>1, <2>2, EncodedLength
<1>3. CASE iout > 0
  <2> DEFINE o == iout - 1
             row == codec.chars[(o % codec.enc) + 1]
  <2>1. o \in Nat /\ o + 1 = iout
    BY <1>3
  <2>2. /\ Filled(o) \in Nat
        /\ 8 * Filled(o) <= w * o /\ w * o < 8 * Filled(o) + 8 /\ w * o = w * iout - w
    <3>1. w * (iout - 1) = w * iout - w
      <4> HIDE DEF w, u
      <4> QED BY <1>1
    <3> QED BY <2>1, <3>1, FilledFacts
  <2>3. \/ row.done = TRUE /\ u = Filled(o) + 1
        \/ row.done = FALSE /\ u = Filled(o)
    BY <2>1, WriteRows DEF Filled
  <2>4. Data!Useless <=> ~ row.done
    BY <1>3 DEF Data!Useless
  <2> HIDE DEF row, o, u, w
  <2>5. CASE row.done = TRUE /\ u = Filled(o) + 1
    <3>1. 8 * u <= w * iout /\ w * iout < 8 * u + w
      BY <1>1, <2>2, <2>5
    <3>2. iout = Data!get_encoded_length(codec, u)
      BY <1>1, <3>1, EncodedLength DEF w
    <3> QED BY <2>4, <2>5, <3>2 DEF u
  <2>6. CASE row.done = FALSE /\ u = Filled(o)
    <3>1. 8 * u <= w * o /\ w * o < 8 * u + w
      BY <1>1, <2>2, <2>6
    <3>2. o = Data!get_encoded_length(codec, u)
      BY <1>1, <2>1, <3>1, EncodedLength DEF w
    <3> QED BY <2>4, <2>6, <3>2 DEF u, o
  <2> QED BY <2>3, <2>5, <2>6
<1> QED BY <1>2, <1>3

(* A byte can be read from the characters of u bytes if it is one of them. *)
LEMMA ShortIs ==
    ASSUME codec \in Data!Codecs, iout \in Nat, NEW u \in Nat,
           iin = (8 * iout) \div Width(codec)
    PROVE  /\ iin + Len(Data!ReadRow.parts) <= Data!get_encoded_length(codec, u) <=> iout < u
           /\ (8 * (iout + 1)) \div Width(codec) = iin + Data!ReadRow.next
<1> DEFINE p == Data!ReadRow.parts
           w == Width(codec)
           n == Data!get_encoded_length(codec, u)
<1>1. iin \in Nat /\ w \in 5 .. 7
  BY CodecFacts
<1>2. /\ Len(p) \in {2, 3}
      /\ p[1][1] \in 1 .. w /\ w * iin + p[1][1] - 1 = 8 * iout
      /\ p[2][2] \in 1 .. w
      /\ Len(p) = 2 => w + p[2][2] = p[1][1] + 7
      /\ Len(p) = 3 => /\ p[3][2] \in 1 .. w
                       /\ w + w + p[3][2] = p[1][1] + 7
      /\ (8 * (iout + 1)) \div w = iin + Data!ReadRow.next
  BY ReadRows DEF Data!ReadRow
<1>3. n \in Nat /\ 8 * u <= w * n /\ w * n < 8 * u + w
  BY EncodedLength
<1> HIDE DEF p, w, n
<1>4. PICK l \in {2, 3}, b \in 1 .. w :
          l = Len(p) /\ w * (iin + l) - w + b = 8 * iout + 8
  <2>1. CASE Len(p) = 2
    <3>1. PICK a \in 1 .. w, b \in 1 .. w : a = p[1][1] /\ b = p[2][2]
      BY <1>2
    <3>2. w * iin + a - 1 = 8 * iout /\ w + b = a + 7
      BY <1>2, <2>1, <3>1
    <3>3. w * (iin + 2) - w + b = 8 * iout + 8
      BY <1>1, <3>2
    <3> QED BY <2>1, <3>3
  <2>2. CASE Len(p) = 3
    <3>1. PICK a \in 1 .. w, b \in 1 .. w : a = p[1][1] /\ b = p[3][2]
      BY <1>2, <2>2
    <3>2. w * iin + a - 1 = 8 * iout /\ w + w + b = a + 7
      BY <1>2, <2>2, <3>1
    <3>3. w * (iin + 3) - w + b = 8 * iout + 8
      BY <1>1, <3>2
    <3> QED BY <2>2, <3>3
  <2> QED BY <1>2, <2>1, <2>2
<1> DEFINE k == iin + l
<1>5. k \in Nat /\ w * k - w + b = 8 * iout + 8
  BY <1>1, <1>4
<1> HIDE DEF k
<1>6. k <= n <=> iout < u
  <2>1. ASSUME k <= n PROVE iout < u
    <3>1. w * k <= w * n
      BY <1>1, <1>3, <1>5, <2>1
    <3> QED BY <1>1, <1>3, <1>5, <3>1
  <2>2. ASSUME ~ (k <= n) PROVE ~ (iout < u)
    <3>1. w * n <= w * (k - 1)
      BY <1>1, <1>3, <1>5, <2>2
    <3>2. w * (k - 1) = w * k - w
      BY <1>1, <1>5
    <3> QED BY <1>1, <1>3, <1>5, <3>1, <3>2
  <2> QED BY <2>1, <2>2
<1>7. k = iin + Len(p)
  BY <1>4 DEF k
<1> QED BY <1>2, <1>6, <1>7 DEF p, w, n

-----------------------------------------------------------------------------
(* The invariant: the data and its characters.                             *)

EncLen == Data!get_encoded_length(codec, used)

(* While the codec writes, and when it has.                                *)
Encoding ==
    /\ iout \in 0 .. buflen /\ iin = Filled(iout) /\ iin <= size
    /\ enc = Chars(iout) /\ dec = << >>

Encoded ==
    /\ used = IF size <= Filled(buflen) THEN size ELSE Filled(buflen)
    /\ EncLen <= buflen /\ enc = Chars(EncLen)

(* While it reads.                                                         *)
Decoding ==
    /\ iout \in 0 .. room /\ iout <= used
    /\ iin = (8 * iout) \div Width(codec)
    /\ dec = [i \in 1 .. iout |-> Data!DataByte(i - 1)]

Coding ==
    /\ codec \in Data!Codecs /\ size \in Nat /\ buflen \in 0 .. 2 * MaxBytes
    /\ room \in Nat
    /\ pc = "encode" => Encoding
    /\ pc # "encode" => Encoded
    /\ pc = "encoded" => dec = << >>
    /\ pc \in {"decode", "done"} => Decoding
    /\ pc = "done" => iout = room \/ iout = used

-----------------------------------------------------------------------------
(* The invariant: the text and its dots. Final is the text with its dots,   *)
(* InName that of the name, which always ends with one.                    *)

DottedLen == len + len \div M
NameLen == IF len % M = 0 THEN DottedLen ELSE DottedLen + 1

Orig(p) == IF p < len THEN p + 1 ELSE Text!Nul
CharOf(p) == IF (p + 1) % (M + 1) = 0 THEN Text!Dot ELSE p + 1 - (p + 1) \div (M + 1)
Final(p) == IF p = DottedLen THEN Text!Nul ELSE CharOf(p)
InName(p) == IF p = NameLen - 1 THEN Text!Dot ELSE CharOf(p)

(* What has not been read is as it was, what has been written is as it      *)
(* will be.                                                                *)
Dotifying ==
    /\ reader \in 0 .. len /\ dots = reader \div M
    /\ writer = reader + dots /\ pos = reader + 1 /\ total = DottedLen
    /\ \A p \in 0 .. reader : buf[p] = Orig(p)
    /\ \A p \in writer + 1 .. total : buf[p] = Final(p)

Dotted == total = DottedLen /\ \A p \in 0 .. total : buf[p] = Final(p)

Named == total = NameLen /\ \A p \in 0 .. total - 1 : buf[p] = InName(p)

Undotifying ==
    /\ total = NameLen /\ reader \in 0 .. total /\ pos = reader
    /\ dots = IF reader = total THEN total - len ELSE reader \div (M + 1)
    /\ writer + dots = reader /\ writer \in Nat
    /\ \A p \in 0 .. writer - 1 : buf[p] = p + 1
    /\ \A p \in reader .. total - 1 : buf[p] = InName(p)

Plain == total = len /\ \A p \in 0 .. len - 1 : buf[p] = p + 1

Dotting ==
    /\ header \in Headers
    /\ step # "none" =>
          /\ len = header + EncLen /\ len \in Nat \ {0}
          /\ DottedLen + 1 < Buflen
          /\ DOMAIN buf = 0 .. Buflen - 1
    /\ step = "text" => \A p \in 0 .. len : buf[p] = Orig(p)
    /\ step = "dotify" => Dotifying
    /\ step = "dotted" => Dotted
    /\ step = "name" => Named
    /\ step = "undotify" => Undotifying
    /\ step \in {"plain", "read"} => Plain

(* The text is made when the data is encoded, and decoded when it is plain. *)
Phases ==
    \/ step = "none" /\ pc \in {"encode", "encoded"}
    \/ /\ step \in {"text", "dotify", "dotted", "name", "undotify", "plain"}
       /\ pc = "encoded"
    \/ step = "read" /\ pc \in {"encoded", "decode", "done"}

IInv == Phases /\ Coding /\ Dotting

-----------------------------------------------------------------------------
(* Division with remainder by a number that is a parameter.                *)

LEMMA Positive == M \in Nat \ {0} /\ M + 1 \in Nat \ {0}
BY TextAssumption DEF M

LEMMA DivMod ==
    ASSUME NEW n \in Nat \ {0}, NEW a \in Nat
    PROVE  a = n * (a \div n) + (a % n) /\ a % n \in 0 .. n - 1 /\ a \div n \in Nat
OBVIOUS

LEMMA DivUnique ==
    ASSUME NEW n \in Nat \ {0}, NEW a \in Nat, NEW q \in Nat, NEW r \in 0 .. n - 1,
           a = n * q + r
    PROVE  a \div n = q /\ a % n = r
<1> DEFINE q2 == a \div n
           r2 == a % n
<1>1. a = n * q2 + r2 /\ r2 \in 0 .. n - 1 /\ q2 \in Nat
  BY DivMod
<1> HIDE DEF q2, r2
<1>2. n * (q - q2) = r2 - r
  BY <1>1
<1>3. q - q2 >= 1 => n * (q - q2) >= n
  BY <1>1
<1>4. q - q2 <= -1 => n * (q - q2) <= -n
  BY <1>1
<1>5. q = q2
  BY <1>1, <1>2, <1>3, <1>4
<1> QED BY <1>1, <1>5 DEF q2, r2

LEMMA DivMonotonic ==
    ASSUME NEW n \in Nat \ {0}, NEW a \in Nat, NEW b \in Nat, a <= b
    PROVE  a \div n <= b \div n
<1> DEFINE q == a \div n
           r == a % n
           q2 == b \div n
           r2 == b % n
<1>1. /\ a = n * q + r /\ r \in 0 .. n - 1 /\ q \in Nat
      /\ b = n * q2 + r2 /\ r2 \in 0 .. n - 1 /\ q2 \in Nat
  BY DivMod
<1> HIDE DEF q, r, q2, r2
<1>2. q2 - q <= -1 => n * (q2 - q) <= -n
  BY <1>1
<1>3. n * (q2 - q) = b - a + r - r2
  BY <1>1
<1>4. q <= q2
  BY <1>1, <1>2, <1>3
<1> QED BY <1>4 DEF q, q2

(* One step up or down.                                                    *)
LEMMA DivStep ==
    ASSUME NEW n \in Nat \ {0}, NEW a \in Nat
    PROVE  /\ (a + 1) % n = 0 => (a + 1) \div n = a \div n + 1
           /\ (a + 1) % n # 0 => (a + 1) \div n = a \div n
<1> DEFINE q == a \div n
           r == a % n
<1>1. a = n * q + r /\ r \in 0 .. n - 1 /\ q \in Nat
  BY DivMod
<1> HIDE DEF q, r
<1>2. CASE r = n - 1
  <2>1. a + 1 = n * (q + 1) + 0 /\ q + 1 \in Nat /\ 0 \in 0 .. n - 1 /\ a + 1 \in Nat
    BY <1>1, <1>2
  <2>2. (a + 1) \div n = q + 1 /\ (a + 1) % n = 0
    BY <2>1, DivUnique
  <2> QED BY <2>2 DEF q
<1>3. CASE r # n - 1
  <2>1. a + 1 = n * q + (r + 1) /\ r + 1 \in 0 .. n - 1 /\ a + 1 \in Nat
    BY <1>1, <1>3
  <2>2. (a + 1) \div n = q /\ (a + 1) % n = r + 1
    BY <1>1, <2>1, DivUnique
  <2> QED BY <1>1, <2>2 DEF q
<1> QED BY <1>2, <1>3

-----------------------------------------------------------------------------
(* Where the characters and dots are.                                      *)

(* What is at a place of the text is a dot behind M characters, or else the *)
(* character with the number of the place less the dots before it.          *)
LEMMA CharFacts ==
    ASSUME NEW p \in Nat
    PROVE  /\ CharOf(p) = Text!Dot <=> (p + 1) % (M + 1) = 0
           /\ CharOf(p) # Text!Dot => /\ CharOf(p) = p + 1 - p \div (M + 1)
                                     /\ (p + 1) \div (M + 1) = p \div (M + 1)
           /\ CharOf(p) \in Nat
<1> DEFINE n == M + 1
           q == p \div n
           r == p % n
<1>1. n \in Nat \ {0} /\ p = n * q + r /\ r \in 0 .. n - 1 /\ q \in Nat
  BY Positive, DivMod
<1>2. /\ (p + 1) % n = 0 => (p + 1) \div n = q + 1
      /\ (p + 1) % n # 0 => (p + 1) \div n = q
  BY <1>1, DivStep
<1> HIDE DEF n, q, r
<1>3. n * q >= q
  BY <1>1
<1>4. p + 1 - q \in Nat \ {0}
  BY <1>1, <1>3
<1>5. CharOf(p) = IF (p + 1) % n = 0 THEN 0 ELSE p + 1 - (p + 1) \div n
  BY DEF CharOf, Text!Dot, n
<1> QED BY <1>2, <1>4, <1>5 DEF Text!Dot, n, q

(* Behind r characters and their dots is character r + 1, and a dot before   *)
(* it if a label ends there.                                               *)
LEMMA PlaceFacts ==
    ASSUME NEW r \in Nat
    PROVE  LET w == r + r \div M IN
           /\ w \in Nat /\ CharOf(w) = r + 1
           /\ r % M = 0 <=> w % (M + 1) = 0
           /\ r > 0 /\ r % M = 0 => w - 1 \in Nat /\ CharOf(w - 1) = Text!Dot
           /\ w \div (M + 1) = r \div M
<1> DEFINE a == r \div M
           b == r % M
           w == r + a
           n == M + 1
<1>1. M \in Nat \ {0} /\ n \in Nat \ {0} /\ r = M * a + b /\ b \in 0 .. M - 1 /\ a \in Nat
  BY Positive, DivMod
<1> HIDE DEF a, b
<1>2. w \in Nat /\ w = n * a + b /\ b \in 0 .. n - 1
  BY <1>1
<1>3. w + 1 \in Nat /\ w + 1 = n * a + (b + 1) /\ b + 1 \in 0 .. n - 1
  BY <1>1, <1>2
<1> HIDE DEF w, n
<1>4. w \div n = a /\ w % n = b
  BY <1>1, <1>2, DivUnique
<1>5. (w + 1) \div n = a /\ (w + 1) % n = b + 1
  BY <1>1, <1>3, DivUnique
<1>6. CharOf(w) = w + 1 - a
  BY <1>1, <1>5 DEF CharOf, n
<1>7. CharOf(w) = r + 1
  BY <1>1, <1>6 DEF w
<1>8. ASSUME r > 0, b = 0
      PROVE  w - 1 \in Nat /\ CharOf(w - 1) = Text!Dot
  <2>1. w - 1 \in Nat /\ w - 1 + 1 = w
    BY <1>1, <1>2, <1>8 DEF w
  <2> QED BY <1>4, <1>8, <2>1 DEF CharOf, n
<1> QED BY <1>2, <1>4, <1>7, <1>8 DEF w, a, b, n

LEMMA LengthFacts ==
    ASSUME len \in Nat \ {0}
    PROVE  /\ DottedLen \in Nat \ {0} /\ NameLen \in {DottedLen, DottedLen + 1}
           /\ DottedLen >= len /\ NameLen - len = (NameLen - 1) \div (M + 1) + 1
           /\ NameLen = DottedLen <=> CharOf(DottedLen - 1) = Text!Dot
           /\ NameLen = DottedLen => NameLen % (M + 1) = 0
           /\ NameLen # DottedLen => NameLen % (M + 1) # 1 /\ DottedLen % (M + 1) # 0
<1> DEFINE a == len \div M
           b == len % M
           n == M + 1
           d == DottedLen
<1>1. M \in Nat \ {0} /\ n \in Nat \ {0} /\ len = M * a + b /\ b \in 0 .. M - 1 /\ a \in Nat
  BY Positive, DivMod
<1>2. d = len + a /\ NameLen = IF b = 0 THEN d ELSE d + 1
  BY DEF DottedLen, NameLen
<1> HIDE DEF a, b, d
<1>3. d = n * a + b /\ b \in 0 .. n - 1 /\ d \in Nat \ {0}
  BY <1>1, <1>2
<1> HIDE DEF n
<1>4. d \div n = a /\ d % n = b
  BY <1>1, <1>3, DivUnique
<1>5. CharOf(d - 1) = Text!Dot <=> b = 0
  <2>1. d - 1 \in Nat /\ d - 1 + 1 = d
    BY <1>3
  <2> QED BY <1>4, <2>1, CharFacts DEF n
<1>6. CASE b = 0
  <2>1. a \in Nat \ {0}
    BY <1>1, <1>3, <1>6
  <2>2. d - 1 = n * (a - 1) + (n - 1) /\ d - 1 \in Nat /\ a - 1 \in Nat /\ n - 1 \in 0 .. n - 1
    BY <1>1, <1>3, <1>6, <2>1
  <2>3. (d - 1) \div n = a - 1
    BY <1>1, <2>2, DivUnique
  <2> QED BY <1>1, <1>2, <1>3, <1>4, <1>5, <1>6, <2>1, <2>3 DEF d, n
<1>7. CASE b # 0
  <2>1. d + 1 = n * a + (b + 1) /\ b + 1 \in 0 .. n - 1 /\ d + 1 \in Nat
    BY <1>1, <1>3 DEF n
  <2>2. (d + 1) % n = b + 1
    BY <1>1, <2>1, DivUnique
  <2>3. NameLen = d + 1 /\ NameLen - 1 = d
    BY <1>2, <1>3, <1>7
  <2> QED BY <1>1, <1>2, <1>3, <1>4, <1>5, <1>7, <2>2, <2>3 DEF d, n
<1> QED BY <1>6, <1>7

-----------------------------------------------------------------------------
(* The steps of the codec.                                                 *)

LEMMA SameData ==
    ASSUME size' = size, codec' = codec
    PROVE  /\ \A n : Chars(n)' = Chars(n)
           /\ \A i : Data!DataByte(i)' = Data!DataByte(i)
           /\ Width(codec)' = Width(codec)
           /\ \A o : Filled(o)' = Filled(o)
BY DEF Chars, CharBits, Run, DataBit, Data!DataByte, Data!Bit, Width, Filled, Data!Pad

LEMMA SameLength ==
    ASSUME used' = used, codec' = codec
    PROVE  EncLen' = EncLen
BY DEF EncLen, Data!get_encoded_length, Data!Ceil

LEMMA CharsFacts ==
    ASSUME codec \in Data!Codecs, size \in Nat, NEW n \in Nat
    PROVE  /\ Chars(n) \in Seq(Seq(Labels)) /\ Len(Chars(n)) = n
           /\ Append(Chars(n), CharBits(n)) = Chars(n + 1)
           /\ n > 0 => SubSeq(Chars(n), 1, n - 1) = Chars(n - 1)
<1>1. ASSUME NEW j \in Nat PROVE CharBits(j) \in Seq(Labels)
  <2>1. Width(codec) * j \in Nat /\ Width(codec) \in Nat
    BY CodecFacts
  <2> QED BY <2>1, RunType DEF CharBits
<1>2. ASSUME NEW m \in Nat
      PROVE  /\ Chars(m) \in Seq(Seq(Labels)) /\ Len(Chars(m)) = m
             /\ \A j \in 1 .. m : Chars(m)[j] = CharBits(j - 1)
  <2>1. ASSUME NEW j \in 1 .. m PROVE CharBits(j - 1) \in Seq(Labels)
    <3>1. j - 1 \in Nat
      OBVIOUS
    <3> QED BY <1>1, <3>1
  <2> QED BY <2>1 DEF Chars
<1>3. Append(Chars(n), CharBits(n)) = Chars(n + 1)
  <2> DEFINE s == Append(Chars(n), CharBits(n))
  <2>a. CharBits(n) \in Seq(Labels) /\ Chars(n) \in Seq(Seq(Labels)) /\ Len(Chars(n)) = n
    BY <1>1, <1>2
  <2>1. /\ s \in Seq(Seq(Labels)) /\ Len(s) = n + 1
        /\ \A j \in 1 .. n : s[j] = Chars(n)[j]
        /\ s[n + 1] = CharBits(n)
    BY <2>a, AppendProperties
  <2> HIDE DEF s
  <2>2. n + 1 \in Nat /\ n + 1 - 1 = n
    OBVIOUS
  <2>3. ASSUME NEW j \in 1 .. n + 1
        PROVE  s[j] = Chars(n + 1)[j]
    <3>1. Chars(n + 1)[j] = CharBits(j - 1)
      BY <1>2, <2>2
    <3>2. CASE j = n + 1
      BY <2>1, <2>2, <3>1, <3>2
    <3>3. CASE j \in 1 .. n
      BY <1>2, <2>1, <3>1, <3>3
    <3> QED BY <3>2, <3>3
  <2>4. s = Chars(n + 1)
    BY <1>2, <2>1, <2>2, <2>3, SeqEqual
  <2> QED BY <2>4 DEF s
<1>4. ASSUME n > 0 PROVE SubSeq(Chars(n), 1, n - 1) = Chars(n - 1)
  <2> DEFINE c == Chars(n)
             s == SubSeq(c, 1, n - 1)
  <2>1. \A i \in 1 .. n - 1 : c[i] \in Seq(Labels)
    BY <1>2, ElementOfSeq
  <2> HIDE DEF c
  <2>2. /\ s \in Seq(Seq(Labels)) /\ Len(s) = IF 1 <= n - 1 THEN n - 1 - 1 + 1 ELSE 0
        /\ \A i \in 1 .. n - 1 - 1 + 1 : s[i] = c[1 + i - 1]
    BY <2>1, SubSeqProperties
  <2>3. n - 1 \in Nat
    BY <1>4
  <2>4. Len(s) = n - 1 /\ \A i \in 1 .. n - 1 : s[i] = c[i]
    BY <1>4, <2>2
  <2>5. \A i \in 1 .. n - 1 : s[i] = Chars(n - 1)[i]
    BY <1>2, <2>3, <2>4 DEF c
  <2>6. s = Chars(n - 1)
    BY <1>2, <2>2, <2>3, <2>4, <2>5, SeqEqual
  <2> QED BY <2>6 DEF s, c
<1> QED BY <1>2, <1>3, <1>4

LEMMA EncodeCharStep ==
    ASSUME IInv, Data!EncodeChar, UNCHANGED <<header, dotting>>
    PROVE  IInv'
<1>1. /\ pc = "encode" /\ iout < buflen /\ iin < size
      /\ enc' = Append(enc, Data!Written) /\ iout' = iout + 1
      /\ iin' = iin + (IF Data!WriteRow.done THEN 1 ELSE 0)
      /\ UNCHANGED <<codec, size, buflen, room, used, dec, pc>>
      /\ UNCHANGED <<header, len, buf, reader, writer, pos, dots, total, step>>
      /\ step = "none"
  <2>1. iout \in Nat /\ buflen \in Nat /\ iin \in Nat /\ size \in Nat
    BY FilledFacts, TextAssumption DEF Data!EncodeChar, IInv, Coding, Encoding
  <2>2. /\ pc = "encode" /\ ~ Data!Full
        /\ enc' = Append(enc, Data!Written) /\ iout' = iout + 1
        /\ iin' = iin + (IF Data!WriteRow.done THEN 1 ELSE 0)
        /\ UNCHANGED <<codec, size, buflen, room, used, dec, pc>>
        /\ UNCHANGED <<header, len, buf, reader, writer, pos, dots, total, step>>
    BY DEF Data!EncodeChar, dotting
  <2> QED BY <2>1, <2>2 DEF Data!Full, IInv, Phases
<1>2. /\ codec \in Data!Codecs /\ size \in Nat /\ buflen \in 0 .. 2 * MaxBytes
      /\ room \in Nat /\ iout \in 0 .. buflen /\ iin = Filled(iout)
      /\ enc = Chars(iout) /\ dec = << >> /\ buflen \in Nat /\ iout \in Nat
  BY <1>1, TextAssumption DEF IInv, Coding, Encoding
<1>3. enc' = Chars(iout + 1)
  BY <1>1, <1>2, WrittenIs, CharsFacts DEF Filled
<1>4. iin' = Filled(iout + 1) /\ iin' <= size
  <2>1. \/ Data!WriteRow.done = TRUE /\ Filled(iout + 1) = Filled(iout) + 1
        \/ Data!WriteRow.done = FALSE /\ Filled(iout + 1) = Filled(iout)
    BY <1>2, WriteRows DEF Data!WriteRow, Filled
  <2>2. Filled(iout) \in Nat
    BY <1>2, FilledFacts
  <2> QED BY <1>1, <1>2, <2>1, <2>2
<1>5. Encoding'
  <2>1. iout + 1 \in 0 .. buflen
    BY <1>1, <1>2
  <2>2. \A n : Chars(n)' = Chars(n) /\ Filled(n)' = Filled(n)
    BY <1>1, SameData
  <2> QED BY <1>1, <1>2, <1>3, <1>4, <2>1, <2>2 DEF Encoding
<1>6. Coding'
  BY <1>1, <1>2, <1>5 DEF Coding
<1>7. Phases'
  BY <1>1 DEF IInv, Phases
<1>8. Dotting'
  BY <1>1 DEF IInv, Dotting
<1> QED BY <1>6, <1>7, <1>8 DEF IInv

LEMMA EncodeStopStep ==
    ASSUME IInv, Data!EncodeStop, UNCHANGED <<header, dotting>>
    PROVE  IInv'
<1>1. /\ pc = "encode" /\ Data!Full /\ pc' = "encoded" /\ used' = iin
      /\ enc' = IF Data!Useless THEN SubSeq(enc, 1, iout - 1) ELSE enc
      /\ UNCHANGED <<codec, size, buflen, room, iin, iout, dec>>
      /\ UNCHANGED <<header, len, buf, reader, writer, pos, dots, total, step>>
  BY DEF Data!EncodeStop, dotting
<1>2. /\ codec \in Data!Codecs /\ size \in Nat /\ buflen \in 0 .. 2 * MaxBytes
      /\ room \in Nat /\ iout \in 0 .. buflen /\ iin = Filled(iout) /\ iin <= size
      /\ enc = Chars(iout) /\ dec = << >> /\ buflen \in Nat /\ iout \in Nat
  BY <1>1, TextAssumption DEF IInv, Coding, Encoding
<1> DEFINE n == IF Data!Useless THEN iout - 1 ELSE iout
<1>3. n = Data!get_encoded_length(codec, iin)
  BY <1>2, StoppedLength
<1>4. enc' = Chars(n) /\ n <= buflen
  <2>1. Data!Useless => iout > 0
    BY DEF Data!Useless
  <2>2. enc' = Chars(n)
    BY <1>1, <1>2, <2>1, CharsFacts
  <2> QED BY <1>2, <2>2
<1>5. iin = IF size <= Filled(buflen) THEN size ELSE Filled(buflen)
  <2>1. Filled(iout) \in Nat /\ Filled(buflen) \in Nat /\ Filled(iout) <= Filled(buflen)
    BY <1>2, FilledFacts
  <2>2. iout = buflen \/ iin >= size
    BY <1>1, <1>2 DEF Data!Full
  <2> QED BY <1>2, <2>1, <2>2
<1>6. EncLen' = n
  BY <1>1, <1>3 DEF EncLen, Data!get_encoded_length, Data!Ceil
<1> HIDE DEF n
<1>7. Encoded'
  <2>1. \A k : Chars(k)' = Chars(k) /\ Filled(k)' = Filled(k)
    BY <1>1, SameData
  <2> QED BY <1>1, <1>4, <1>5, <1>6, <2>1 DEF Encoded
<1>8. Coding'
  BY <1>1, <1>2, <1>7 DEF Coding
<1>9. Phases' /\ step = "none"
  BY <1>1 DEF IInv, Phases
<1>10. Dotting'
  BY <1>1, <1>9 DEF IInv, Dotting
<1> QED BY <1>8, <1>9, <1>10 DEF IInv

(* What is the same while the characters are decoded.                      *)
LEMMA DecodeSame ==
    ASSUME IInv, pc # "encode", pc' # "encode", step' = step,
           UNCHANGED <<codec, size, buflen, enc, used, header, dotting>>
    PROVE  /\ codec' \in Data!Codecs /\ size' \in Nat /\ buflen' \in 0 .. 2 * MaxBytes
           /\ Encoded' /\ used \in Nat /\ enc = Chars(EncLen)
           /\ step = "read" => Dotting'
<1>1. UNCHANGED <<codec, size, buflen, enc, used, header, len, buf, reader, writer,
                  pos, dots, total, step>>
  BY DEF dotting
<1>2. EncLen' = EncLen
  BY <1>1, SameLength
<1>3. \A k : Chars(k)' = Chars(k) /\ Filled(k)' = Filled(k)
  BY <1>1, SameData
<1>4. Encoded
  BY DEF IInv, Coding
<1>5. Encoded'
  BY <1>1, <1>2, <1>3, <1>4 DEF Encoded
<1>6. used \in Nat
  <2>1. size \in Nat /\ Filled(buflen) \in Nat
    BY TextAssumption, FilledFacts DEF IInv, Coding
  <2> QED BY <1>4, <2>1 DEF Encoded
<1>7. ASSUME step = "read" PROVE Dotting'
  BY <1>1, <1>2, <1>7 DEF IInv, Dotting, Plain, DottedLen
<1> QED BY <1>1, <1>4, <1>5, <1>6, <1>7 DEF IInv, Coding, Encoded

LEMMA DecodeStartStep ==
    ASSUME IInv, step = "read", Data!DecodeStart, UNCHANGED <<header, dotting>>
    PROVE  IInv'
<1>1. /\ pc = "encoded" /\ room' \in 0 .. MaxBytes /\ iin' = 0 /\ iout' = 0
      /\ pc' = "decode" /\ UNCHANGED <<codec, size, buflen, enc, used, dec>> /\ step' = step
  BY DEF Data!DecodeStart, dotting
<1>2. /\ codec' \in Data!Codecs /\ size' \in Nat /\ buflen' \in 0 .. 2 * MaxBytes
      /\ Encoded' /\ used \in Nat /\ Dotting'
  BY <1>1, DecodeSame
<1>3. Decoding'
  <2>1. dec = << >>
    BY <1>1 DEF IInv, Coding
  <2>2. dec' = [i \in 1 .. iout' |-> Data!DataByte(i - 1)']
    BY <1>1, <2>1
  <2>3. Width(codec)' \in 5 .. 7
    <3>1. Width(codec)' = Width(codec) /\ codec \in Data!Codecs
      BY <1>1, SameData DEF IInv, Coding
    <3> QED BY <3>1, CodecFacts
  <2>4. iin' = (8 * iout') \div Width(codec)'
    <3> DEFINE w == Width(codec)'
    <3>1. \A v \in 5 .. 7 : (8 * 0) \div v = 0
      OBVIOUS
    <3> HIDE DEF w
    <3> QED BY <1>1, <2>3, <3>1 DEF w
  <2>5. iout' \in 0 .. room' /\ iout' <= used'
    BY <1>1, <1>2, TextAssumption
  <2> QED BY <2>2, <2>4, <2>5 DEF Decoding
<1>4. Coding'
  BY <1>1, <1>2, <1>3, TextAssumption DEF Coding
<1>5. Phases'
  BY <1>1 DEF IInv, Phases
<1> QED BY <1>2, <1>4, <1>5 DEF IInv

LEMMA DecodeByteStep ==
    ASSUME IInv, step = "read", Data!DecodeByte, UNCHANGED <<header, dotting>>
    PROVE  IInv'
<1>1. /\ pc = "decode" /\ ~ Data!Short
      /\ dec' = Append(dec, Data!ReadFrom(Data!ReadRow.parts, iin + 1))
      /\ iin' = iin + Data!ReadRow.next /\ iout' = iout + 1
      /\ UNCHANGED <<codec, size, buflen, room, enc, used, pc>> /\ step' = step
  BY DEF Data!DecodeByte, dotting
<1>2. /\ codec' \in Data!Codecs /\ size' \in Nat /\ buflen' \in 0 .. 2 * MaxBytes
      /\ Encoded' /\ used \in Nat /\ enc = Chars(EncLen) /\ Dotting'
  BY <1>1, DecodeSame
<1>3. /\ codec \in Data!Codecs /\ size \in Nat /\ room \in Nat
      /\ iout \in 0 .. room /\ iout \in Nat /\ iout <= used
      /\ iin = (8 * iout) \div Width(codec)
      /\ dec = [i \in 1 .. iout |-> Data!DataByte(i - 1)]
  BY <1>1 DEF IInv, Coding, Decoding
<1>4. EncLen \in Nat /\ Len(enc) = EncLen
  <2>1. EncLen \in Nat
    BY <1>2, <1>3, EncodedLength DEF EncLen
  <2> QED BY <1>2, <1>3, <2>1, CharsFacts
<1>5. iout < room /\ iin + Len(Data!ReadRow.parts) <= EncLen
  <2>1. iin \in Nat /\ Len(Data!ReadRow.parts) \in Nat
    <3>1. iin \in Nat
      BY <1>3, CodecFacts
    <3>2. Len(Data!ReadRow.parts) \in {2, 3}
      BY <1>3, ReadRows DEF Data!ReadRow
    <3> QED BY <3>1, <3>2
  <2> QED BY <1>1, <1>3, <1>4, <2>1 DEF Data!Short
<1>6. iout < used /\ iin' = (8 * (iout + 1)) \div Width(codec)
  BY <1>1, <1>2, <1>3, <1>5, ShortIs DEF EncLen
<1>7. dec' = [i \in 1 .. iout + 1 |-> Data!DataByte(i - 1)]
  <2>1. dec' = Append(dec, Data!DataByte(iout))
    BY <1>1, <1>2, <1>3, <1>4, <1>5, ReadIs
  <2>2. \A i \in Nat : Data!DataByte(i) \in Seq(Labels)
    <3>1. \A i \in Nat : 8 * i \in Nat /\ 8 \in Nat
      OBVIOUS
    <3> QED BY <1>3, <3>1, ByteIs, RunType
  <2> DEFINE f == [i \in 1 .. iout + 1 |-> Data!DataByte(i - 1)]
             s == Append(dec, Data!DataByte(iout))
  <2>3. dec \in Seq(Seq(Labels)) /\ Len(dec) = iout
    <3>1. \A i \in 1 .. iout : Data!DataByte(i - 1) \in Seq(Labels)
      <4>1. \A i \in 1 .. iout : i - 1 \in Nat
        BY <1>3
      <4> QED BY <2>2, <4>1
    <3> QED BY <1>3, <3>1
  <2>4. f \in Seq(Seq(Labels)) /\ Len(f) = iout + 1
    <3>1. \A i \in 1 .. iout + 1 : Data!DataByte(i - 1) \in Seq(Labels)
      <4>1. \A i \in 1 .. iout + 1 : i - 1 \in Nat
        BY <1>3
      <4> QED BY <2>2, <4>1
    <3> QED BY <1>3, <3>1
  <2>5. Data!DataByte(iout) \in Seq(Labels)
    BY <1>3, <2>2
  <2>6. /\ s \in Seq(Seq(Labels)) /\ Len(s) = iout + 1
        /\ \A j \in 1 .. iout : s[j] = dec[j]
        /\ s[iout + 1] = Data!DataByte(iout)
    BY <2>3, <2>5, AppendProperties
  <2> HIDE DEF s
  <2>7. ASSUME NEW j \in 1 .. iout + 1
        PROVE  s[j] = f[j]
    <3>1. f[j] = Data!DataByte(j - 1)
      OBVIOUS
    <3> HIDE DEF f
    <3>2. CASE j = iout + 1
      <4>1. j - 1 = iout
        BY <1>3, <3>2
      <4> QED BY <2>6, <3>1, <3>2, <4>1
    <3>3. CASE j \in 1 .. iout
      BY <1>3, <2>6, <3>1, <3>3
    <3> QED BY <1>3, <3>2, <3>3
  <2> HIDE DEF f
  <2>8. s = f
    BY <2>4, <2>6, <2>7, SeqEqual
  <2> QED BY <2>1, <2>8 DEF s, f
<1>8. Decoding'
  <2>1. \A i : Data!DataByte(i)' = Data!DataByte(i)
    BY <1>1, SameData
  <2>2. Width(codec)' = Width(codec)
    BY <1>1, SameData
  <2>3. iout' \in 0 .. room' /\ iout' <= used'
    BY <1>1, <1>2, <1>3, <1>5, <1>6
  <2>4. dec' = [i \in 1 .. iout' |-> Data!DataByte(i - 1)']
    BY <1>1, <1>7, <2>1
  <2>5. iin' = (8 * iout') \div Width(codec)'
    BY <1>1, <1>6, <2>2
  <2> QED BY <2>3, <2>4, <2>5 DEF Decoding
<1>9. Coding'
  BY <1>1, <1>2, <1>3, <1>8 DEF Coding
<1>10. Phases'
  BY <1>1 DEF IInv, Phases
<1> QED BY <1>2, <1>9, <1>10 DEF IInv

LEMMA DecodeStopStep ==
    ASSUME IInv, step = "read", Data!DecodeStop, UNCHANGED <<header, dotting>>
    PROVE  IInv'
<1>1. /\ pc = "decode" /\ Data!Short /\ pc' = "done"
      /\ UNCHANGED <<codec, size, buflen, room, iin, iout, enc, used, dec>> /\ step' = step
  BY DEF Data!DecodeStop, dotting
<1>2. /\ codec' \in Data!Codecs /\ size' \in Nat /\ buflen' \in 0 .. 2 * MaxBytes
      /\ Encoded' /\ used \in Nat /\ enc = Chars(EncLen) /\ Dotting'
  BY <1>1, DecodeSame
<1>3. /\ codec \in Data!Codecs /\ size \in Nat /\ room \in Nat
      /\ iout \in 0 .. room /\ iout \in Nat /\ iout <= used
      /\ iin = (8 * iout) \div Width(codec)
      /\ Decoding
  BY <1>1 DEF IInv, Coding, Decoding
<1>4. EncLen \in Nat /\ Len(enc) = EncLen
  <2>1. EncLen \in Nat
    BY <1>2, <1>3, EncodedLength DEF EncLen
  <2> QED BY <1>2, <1>3, <2>1, CharsFacts
<1>5. iout = room \/ iout = used
  <2>1. iin \in Nat /\ Len(Data!ReadRow.parts) \in Nat
    <3>1. iin \in Nat
      BY <1>3, CodecFacts
    <3>2. Len(Data!ReadRow.parts) \in {2, 3}
      BY <1>3, ReadRows DEF Data!ReadRow
    <3> QED BY <3>1, <3>2
  <2>2. iout >= room \/ ~ (iin + Len(Data!ReadRow.parts) <= EncLen)
    BY <1>1, <1>4, <2>1 DEF Data!Short
  <2>3. iin + Len(Data!ReadRow.parts) <= EncLen <=> iout < used
    BY <1>2, <1>3, ShortIs DEF EncLen
  <2> QED BY <1>2, <1>3, <2>2, <2>3
<1>6. Decoding'
  <2>1. \A i : Data!DataByte(i)' = Data!DataByte(i)
    BY <1>1, SameData
  <2>2. Width(codec)' = Width(codec)
    BY <1>1, SameData
  <2> QED BY <1>1, <1>3, <2>1, <2>2 DEF Decoding
<1>7. Coding'
  BY <1>1, <1>2, <1>3, <1>5, <1>6 DEF Coding
<1>8. Phases'
  BY <1>1 DEF IInv, Phases
<1> QED BY <1>2, <1>7, <1>8 DEF IInv

-----------------------------------------------------------------------------
(* The steps of the text. While its characters are moved, the data stays    *)
(* as it is.                                                               *)

LEMMA CodingSame ==
    ASSUME Coding, UNCHANGED coding
    PROVE  Coding' /\ EncLen' = EncLen
<1>1. UNCHANGED <<codec, size, buflen, room, iin, iout, enc, used, dec, pc>>
  BY DEF coding
<1>2. EncLen' = EncLen
  BY <1>1, SameLength
<1>3. /\ \A k : Chars(k)' = Chars(k) /\ Filled(k)' = Filled(k)
      /\ \A i : Data!DataByte(i)' = Data!DataByte(i)
      /\ Width(codec)' = Width(codec)
  BY <1>1, SameData
<1>4. Encoding => Encoding'
  BY <1>1, <1>3 DEF Encoding
<1>5. Encoded => Encoded'
  BY <1>1, <1>2, <1>3 DEF Encoded
<1>6. Decoding => Decoding'
  BY <1>1, <1>3 DEF Decoding
<1> QED BY <1>1, <1>2, <1>4, <1>5, <1>6 DEF Coding

LEMMA SameText ==
    ASSUME len' = len
    PROVE  /\ DottedLen' = DottedLen /\ NameLen' = NameLen
           /\ \A p : Orig(p)' = Orig(p)
           /\ \A p : Final(p)' = Final(p)
           /\ \A p : InName(p)' = InName(p)
BY DEF DottedLen, NameLen, Orig, Final, InName, CharOf

(* The text is given its length and its characters.                        *)
LEMMA BuildStep ==
    ASSUME IInv, build_hostname
    PROVE  IInv'
<1>1. /\ pc = "encoded" /\ step = "none" /\ step' = "text"
      /\ len' = header + Len(enc)
      /\ buf' = [i \in 0 .. (Buflen - 1) |->
                   IF i < len' THEN i + 1 ELSE IF i = len' THEN Text!Nul ELSE Text!Junk]
      /\ header' = header /\ UNCHANGED coding
  BY DEF build_hostname
<1>2. Coding' /\ EncLen' = EncLen
  BY <1>1, CodingSame DEF IInv
<1>3. /\ codec \in Data!Codecs /\ size \in Nat /\ used \in Nat /\ buflen \in 0 .. 2 * MaxBytes
      /\ EncLen <= buflen /\ enc = Chars(EncLen) /\ header \in Headers
  <2>1. /\ codec \in Data!Codecs /\ size \in Nat /\ buflen \in 0 .. 2 * MaxBytes
        /\ Encoded /\ header \in Headers
    BY <1>1 DEF IInv, Coding, Dotting
  <2>2. Filled(buflen) \in Nat
    BY <2>1, FilledFacts, TextAssumption
  <2> QED BY <2>1, <2>2 DEF Encoded
<1>4. EncLen \in Nat /\ Len(enc) = EncLen
  <2>1. EncLen \in Nat
    BY <1>3, EncodedLength DEF EncLen
  <2> QED BY <1>3, <2>1, CharsFacts
<1>5. len' = header + EncLen /\ len' \in Nat \ {0}
  BY <1>1, <1>3, <1>4, TextAssumption
<1>6. len' + len' \div M + 1 < Buflen
  <2> DEFINE most == header + 2 * MaxBytes
             n == len'
  <2>1. most + most \div M + 1 < Buflen
    BY <1>3, TextAssumption DEF M
  <2>2. most \in Nat /\ n \in Nat /\ n <= most
    BY <1>3, <1>4, <1>5, TextAssumption
  <2> HIDE DEF most, n
  <2>3. n \div M <= most \div M
    BY <2>2, Positive, DivMonotonic
  <2>4. n \div M \in Nat /\ most \div M \in Nat
    BY <2>2, Positive, DivMod
  <2>5. n + n \div M + 1 < Buflen
    BY <2>1, <2>2, <2>3, <2>4, TextAssumption
  <2> QED BY <2>5 DEF n
<1>7. \A p \in 0 .. len' : buf'[p] = Orig(p)'
  <2> DEFINE n == len'
  <2>1. n \in Nat /\ n < Buflen
    <3>1. n \div M \in Nat
      BY <1>5, Positive, DivMod
    <3> QED BY <1>5, <1>6, <3>1, TextAssumption
  <2>2. buf' = [i \in 0 .. (Buflen - 1) |->
                  IF i < n THEN i + 1 ELSE IF i = n THEN Text!Nul ELSE Text!Junk]
    BY <1>1
  <2>3. \A p : Orig(p)' = IF p < n THEN p + 1 ELSE Text!Nul
    BY DEF Orig, Text!Nul
  <2> HIDE DEF n
  <2>4. \A p \in 0 .. n : buf'[p] = Orig(p)'
    BY <2>1, <2>2, <2>3, TextAssumption
  <2> QED BY <2>4 DEF n
<1>8. Dotting'
  BY <1>1, <1>2, <1>3, <1>5, <1>6, <1>7 DEF Dotting, DottedLen
<1>9. Phases'
  BY <1>1 DEF coding, Phases
<1> QED BY <1>2, <1>8, <1>9 DEF IInv

(* What every step of the text keeps.                                      *)
LEMMA TextFacts ==
    ASSUME IInv, step # "none"
    PROVE  /\ len \in Nat \ {0} /\ DottedLen \in Nat \ {0} /\ NameLen \in Nat \ {0}
           /\ len <= DottedLen /\ DottedLen <= NameLen /\ NameLen < Buflen
           /\ DottedLen + 1 < Buflen /\ DOMAIN buf = 0 .. Buflen - 1 /\ header \in Headers
           /\ len = header + EncLen
<1>1. /\ len \in Nat \ {0} /\ DottedLen + 1 < Buflen /\ DOMAIN buf = 0 .. Buflen - 1
      /\ header \in Headers /\ len = header + EncLen
  BY DEF IInv, Dotting
<1> QED BY <1>1, LengthFacts, TextAssumption

LEMMA StepSame ==
    ASSUME IInv, step # "none", UNCHANGED <<header, coding>>, len' = len,
           DOMAIN buf' = DOMAIN buf
    PROVE  /\ Coding' /\ header' \in Headers
           /\ len' = header' + EncLen' /\ len' \in Nat \ {0}
           /\ DottedLen' + 1 < Buflen /\ DOMAIN buf' = 0 .. Buflen - 1
<1>1. Coding' /\ EncLen' = EncLen
  BY CodingSame DEF IInv
<1>2. DottedLen' = DottedLen
  BY SameText
<1> QED BY <1>1, <1>2, TextFacts

LEMMA DotifyStartStep ==
    ASSUME IInv, Text!DotifyStart, UNCHANGED <<header, coding>>
    PROVE  IInv'
<1>1. /\ step = "text" /\ step' = "dotify" /\ dots' = len \div M
      /\ total' = (IF len + dots' > Buflen THEN Buflen ELSE len + dots')
      /\ writer' = total' /\ reader' = writer' - dots' /\ pos' = reader' + 1
      /\ len' = len /\ buf' = buf
  BY DEF Text!DotifyStart, M
<1>2. /\ Coding' /\ header' \in Headers /\ len' = header' + EncLen' /\ len' \in Nat \ {0}
      /\ DottedLen' + 1 < Buflen /\ DOMAIN buf' = 0 .. Buflen - 1
  BY <1>1, StepSame
<1>3. /\ len \in Nat \ {0} /\ DottedLen \in Nat /\ DottedLen + 1 < Buflen
      /\ \A p \in 0 .. len : buf[p] = Orig(p)
  BY <1>1, TextFacts DEF IInv, Dotting
<1>4. len \div M \in Nat /\ DottedLen = len + len \div M
  BY <1>3, Positive, DivMod DEF DottedLen
<1>5. total' = DottedLen /\ reader' = len /\ writer' = reader' + dots'
  <2> DEFINE d == len \div M
  <2> HIDE DEF d
  <2> QED BY <1>1, <1>3, <1>4, TextAssumption DEF d
<1>6. Dotifying'
  <2>1. DottedLen' = DottedLen /\ \A p : Orig(p)' = Orig(p)
    BY <1>1, SameText
  <2>2. \A p \in 0 .. reader' : buf'[p] = Orig(p)'
    BY <1>1, <1>3, <1>5, <2>1
  <2>3. writer' + 1 .. total' = {}
    BY <1>1, <1>3, <1>5
  <2>4. reader' \in 0 .. len' /\ dots' = reader' \div M
    BY <1>1, <1>3, <1>5
  <2> QED BY <1>1, <1>5, <2>1, <2>2, <2>3, <2>4 DEF Dotifying, M
<1>7. Dotting'
  BY <1>1, <1>2, <1>6 DEF Dotting
<1>8. Phases'
  BY <1>1 DEF IInv, Phases, coding
<1> QED BY <1>2, <1>7, <1>8 DEF IInv

LEMMA DotifyEndStep ==
    ASSUME IInv, Text!DotifyEnd, UNCHANGED <<header, coding>>
    PROVE  IInv'
<1>1. /\ step = "dotify" /\ step' = "dotted" /\ dots = 0
      /\ UNCHANGED <<len, buf, reader, writer, pos, dots, total>>
  BY DEF Text!DotifyEnd
<1>2. /\ Coding' /\ header' \in Headers /\ len' = header' + EncLen' /\ len' \in Nat \ {0}
      /\ DottedLen' + 1 < Buflen /\ DOMAIN buf' = 0 .. Buflen - 1
  BY <1>1, StepSame
<1>3. /\ reader \in 0 .. len /\ 0 = reader \div M /\ writer = reader /\ total = DottedLen
      /\ \A p \in 0 .. reader : buf[p] = Orig(p)
      /\ \A p \in writer + 1 .. total : buf[p] = Final(p)
      /\ len \in Nat /\ DottedLen \in Nat /\ len <= DottedLen
  <2>1. /\ reader \in 0 .. len /\ dots = reader \div M /\ writer = reader + dots
        /\ total = DottedLen
        /\ \A p \in 0 .. reader : buf[p] = Orig(p)
        /\ \A p \in writer + 1 .. total : buf[p] = Final(p)
        /\ len \in Nat /\ DottedLen \in Nat /\ len <= DottedLen
    BY <1>1, TextFacts DEF IInv, Dotting, Dotifying
  <2> QED BY <1>1, <2>1
<1>4. ASSUME NEW p \in 0 .. reader PROVE buf[p] = Final(p)
  <2>1. p \in Nat /\ p <= reader /\ reader \in Nat
    BY <1>3
  <2>2. p \div M = 0
    <3>1. p \div M <= reader \div M /\ p \div M \in Nat
      BY <2>1, Positive, DivMonotonic, DivMod
    <3> QED BY <1>3, <3>1
  <2>3. CharOf(p) = p + 1
    <3>1. p + p \div M = p
      BY <2>1, <2>2
    <3> QED BY <2>1, <3>1, PlaceFacts
  <2>4. CASE p = len
    <3>1. reader = len
      BY <1>3, <2>1, <2>4
    <3>2. DottedLen = len
      BY <1>3, <3>1 DEF DottedLen
    <3> QED BY <1>3, <2>4, <3>2 DEF Orig, Final
  <2>5. CASE p # len
    BY <1>3, <2>1, <2>3, <2>5 DEF Orig, Final
  <2> QED BY <2>4, <2>5
<1>5. Dotted
  <2>1. \A p \in 0 .. total : p \in 0 .. reader \/ p \in writer + 1 .. total
    BY <1>3
  <2> QED BY <1>3, <1>4, <2>1 DEF Dotted
<1>6. Dotted'
  BY <1>1, <1>5, SameText DEF Dotted
<1>7. Dotting'
  BY <1>1, <1>2, <1>6 DEF Dotting
<1>8. Phases'
  BY <1>1 DEF IInv, Phases, coding
<1> QED BY <1>2, <1>7, <1>8 DEF IInv

LEMMA EndNameStep ==
    ASSUME IInv, Text!EndName, UNCHANGED <<header, coding>>
    PROVE  IInv'
<1>1. /\ step = "dotted" /\ step' = "name" /\ UNCHANGED <<len, reader, writer, pos, dots>>
      /\ IF buf[total - 1] = Text!Dot
           THEN buf' = buf /\ total' = total
           ELSE buf' = [buf EXCEPT ![total] = Text!Dot] /\ total' = total + 1
  BY DEF Text!EndName
<1>2. /\ Coding' /\ header' \in Headers /\ len' = header' + EncLen' /\ len' \in Nat \ {0}
      /\ DottedLen' + 1 < Buflen /\ DOMAIN buf' = 0 .. Buflen - 1
  <2>1. DOMAIN buf' = DOMAIN buf
    BY <1>1
  <2> QED BY <1>1, <2>1, StepSame
<1>3. /\ total = DottedLen /\ \A p \in 0 .. total : buf[p] = Final(p)
      /\ total \in Nat \ {0} /\ total + 1 < Buflen /\ DOMAIN buf = 0 .. Buflen - 1
  BY <1>1, TextFacts DEF IInv, Dotting, Dotted
<1>4. \A p \in 0 .. total - 1 : buf[p] = CharOf(p)
  BY <1>3 DEF Final
<1>5. /\ NameLen \in {total, total + 1}
      /\ NameLen = total <=> CharOf(total - 1) = Text!Dot
  <2>1. len \in Nat \ {0}
    BY <1>1, TextFacts
  <2> QED BY <1>3, <2>1, LengthFacts
<1>6. buf[total - 1] = CharOf(total - 1)
  BY <1>3, <1>4
<1>7. total' = NameLen /\ \A p \in 0 .. NameLen - 1 : buf'[p] = InName(p)
  <2>1. CASE buf[total - 1] = Text!Dot
    <3>1. total' = NameLen /\ NameLen = total /\ CharOf(total - 1) = Text!Dot /\ buf' = buf
      BY <1>1, <1>5, <1>6, <2>1
    <3> QED BY <1>4, <3>1 DEF InName
  <2>2. CASE buf[total - 1] # Text!Dot
    <3>1. /\ NameLen = total + 1 /\ total' = NameLen
          /\ buf' = [buf EXCEPT ![total] = Text!Dot]
      BY <1>1, <1>5, <1>6, <2>2
    <3>2. ASSUME NEW p \in 0 .. NameLen - 1 PROVE buf'[p] = InName(p)
      <4>1. CASE p = total
        <5>1. total \in DOMAIN buf
          BY <1>3, TextAssumption
        <5> QED BY <1>3, <3>1, <4>1, <5>1 DEF InName
      <4>2. CASE p # total
        BY <1>3, <1>4, <3>1, <4>2 DEF InName
      <4> QED BY <4>1, <4>2
    <3> QED BY <3>1, <3>2
  <2> QED BY <2>1, <2>2
<1>8. Named'
  <2>1. NameLen' = NameLen /\ \A p : InName(p)' = InName(p)
    BY <1>1, SameText
  <2> QED BY <1>7, <2>1 DEF Named
<1>9. Dotting'
  BY <1>1, <1>2, <1>8 DEF Dotting
<1>10. Phases'
  BY <1>1 DEF IInv, Phases, coding
<1> QED BY <1>2, <1>9, <1>10 DEF IInv

LEMMA UndotifyStartStep ==
    ASSUME IInv, Text!UndotifyStart, UNCHANGED <<header, coding>>
    PROVE  IInv'
<1>1. /\ step = "name" /\ step' = "undotify" /\ UNCHANGED <<len, buf, total>>
      /\ reader' = 0 /\ writer' = 0 /\ pos' = 0 /\ dots' = 0
  BY DEF Text!UndotifyStart
<1>2. /\ Coding' /\ header' \in Headers /\ len' = header' + EncLen' /\ len' \in Nat \ {0}
      /\ DottedLen' + 1 < Buflen /\ DOMAIN buf' = 0 .. Buflen - 1
  BY <1>1, StepSame
<1>3. /\ total = NameLen /\ \A p \in 0 .. total - 1 : buf[p] = InName(p)
      /\ total \in Nat \ {0}
  BY <1>1, TextFacts DEF IInv, Dotting, Named
<1>4. Undotifying'
  <2>1. NameLen' = NameLen /\ \A p : InName(p)' = InName(p)
    BY <1>1, SameText
  <2>2. 0 \div (M + 1) = 0
    <3>1. \A n \in Nat \ {0} : 0 \div n = 0
      OBVIOUS
    <3> QED BY <3>1, Positive
  <2>3. /\ total' = NameLen' /\ reader' \in 0 .. total' /\ pos' = reader'
        /\ reader' # total' /\ dots' = reader' \div (M + 1)
        /\ writer' + dots' = reader' /\ writer' \in Nat
    BY <1>1, <1>3, <2>1, <2>2
  <2>4. \A p \in 0 .. writer' - 1 : buf'[p] = p + 1
    BY <1>1
  <2>5. \A p \in reader' .. total' - 1 : buf'[p] = InName(p)'
    BY <1>1, <1>3, <2>1
  <2> QED BY <2>3, <2>4, <2>5 DEF Undotifying, M
<1>5. Dotting'
  BY <1>1, <1>2, <1>4 DEF Dotting
<1>6. Phases'
  BY <1>1 DEF IInv, Phases, coding
<1> QED BY <1>2, <1>5, <1>6 DEF IInv

LEMMA UndotifyEndStep ==
    ASSUME IInv, Text!UndotifyEnd, UNCHANGED <<header, coding>>
    PROVE  IInv'
<1>1. /\ step = "undotify" /\ step' = "plain" /\ pos = total /\ total' = total - dots
      /\ UNCHANGED <<len, buf>>
  BY DEF Text!UndotifyEnd
<1>2. /\ Coding' /\ header' \in Headers /\ len' = header' + EncLen' /\ len' \in Nat \ {0}
      /\ DottedLen' + 1 < Buflen /\ DOMAIN buf' = 0 .. Buflen - 1
  BY <1>1, StepSame
<1>3. /\ total \in Nat /\ pos = reader /\ writer + dots = reader /\ writer \in Nat
      /\ reader = total => dots = total - len
      /\ \A p \in 0 .. writer - 1 : buf[p] = p + 1
      /\ len \in Nat
  BY <1>1, TextFacts DEF IInv, Dotting, Undotifying
<1>4. dots = total - len
  BY <1>1, <1>3
<1>5. writer = len /\ total' = len
  BY <1>1, <1>3, <1>4
<1>6. Plain'
  BY <1>1, <1>3, <1>5 DEF Plain
<1>7. Dotting'
  BY <1>1, <1>2, <1>6 DEF Dotting
<1>8. Phases'
  BY <1>1 DEF IInv, Phases, coding
<1> QED BY <1>2, <1>7, <1>8 DEF IInv

(* A character moves up, with a dot below it where a label ends.            *)
LEMMA DotifyRoundStep ==
    ASSUME IInv, Text!DotifyRound, UNCHANGED <<header, coding>>
    PROVE  IInv'
<1>1. /\ step = "dotify" /\ step' = "dotify" /\ dots > 0 /\ pos' = pos - 1
      /\ reader' = reader - 1 /\ len' = len /\ total' = total
      /\ IF pos' % M = 0
           THEN /\ buf' = [buf EXCEPT ![writer] = buf[reader], ![writer - 1] = Text!Dot]
                /\ writer' = writer - 2 /\ dots' = dots - 1
           ELSE /\ buf' = [buf EXCEPT ![writer] = buf[reader]]
                /\ writer' = writer - 1 /\ dots' = dots
  BY DEF Text!DotifyRound, M
<1>2. /\ Coding' /\ header' \in Headers /\ len' = header' + EncLen' /\ len' \in Nat \ {0}
      /\ DottedLen' + 1 < Buflen /\ DOMAIN buf' = 0 .. Buflen - 1
  <2>1. DOMAIN buf' = DOMAIN buf
    BY <1>1
  <2> QED BY <1>1, <2>1, StepSame
<1>3. /\ reader \in 0 .. len /\ dots = reader \div M /\ writer = reader + dots
      /\ pos = reader + 1 /\ total = DottedLen
      /\ \A p \in 0 .. reader : buf[p] = Orig(p)
      /\ \A p \in writer + 1 .. total : buf[p] = Final(p)
      /\ len \in Nat /\ DottedLen \in Nat /\ DottedLen + 1 < Buflen
      /\ DOMAIN buf = 0 .. Buflen - 1
  BY <1>1, TextFacts DEF IInv, Dotting, Dotifying
<1>4. /\ reader \in Nat /\ dots \in Nat \ {0} /\ writer \in Nat /\ writer <= DottedLen
      /\ len \div M \in Nat /\ DottedLen = len + len \div M
      /\ reader < len => writer < DottedLen
      /\ reader = len => writer = DottedLen
  <2>1. reader \in Nat /\ len \in Nat /\ reader <= len
    BY <1>3
  <2>2. reader \div M <= len \div M /\ reader \div M \in Nat /\ len \div M \in Nat
    BY <2>1, Positive, DivMonotonic, DivMod
  <2>3. DottedLen = len + len \div M
    BY DEF DottedLen
  <2> DEFINE a == reader \div M
             b == len \div M
  <2>4. a <= b /\ a \in Nat /\ b \in Nat /\ dots = a /\ DottedLen = len + b
        /\ (reader = len => a = b)
    BY <1>3, <2>2, <2>3
  <2> HIDE DEF a, b
  <2>5. /\ dots \in Nat \ {0} /\ writer \in Nat /\ writer <= DottedLen
        /\ reader < len => writer < DottedLen
        /\ reader = len => writer = DottedLen
    <3>1. writer = reader + dots /\ dots > 0 /\ DottedLen = len + b /\ dots = a
      BY <1>1, <1>3, <2>4
    <3> QED BY <2>1, <2>4, <3>1
  <2> QED BY <2>1, <2>2, <2>3, <2>5
<1>5. reader > 0 /\ writer > reader
  <2>1. 0 \div M = 0
    <3>1. \A n \in Nat \ {0} : 0 \div n = 0
      OBVIOUS
    <3> QED BY <3>1, Positive
  <2>2. reader # 0
    BY <1>1, <1>3, <2>1
  <2> QED BY <1>3, <1>4, <2>2
<1>a. /\ reader \in Nat /\ reader > 0 /\ reader <= len /\ len \in Nat
      /\ writer \in Nat /\ writer > reader /\ writer <= DottedLen /\ writer = reader + dots
      /\ dots \in Nat \ {0} /\ total = DottedLen /\ DottedLen \in Nat
      /\ DottedLen + 1 < Buflen /\ Buflen \in Nat /\ DOMAIN buf = 0 .. Buflen - 1
  <2>1. reader <= len
    BY <1>3
  <2> QED BY <1>3, <1>4, <1>5, <2>1, TextAssumption
<1>6. /\ CharOf(writer) = reader + 1
      /\ reader % M = 0 => writer - 1 \in Nat /\ CharOf(writer - 1) = Text!Dot
  BY <1>3, <1>4, <1>5, PlaceFacts
<1>7. /\ reader % M = 0 => dots = (reader - 1) \div M + 1
      /\ reader % M # 0 => dots = (reader - 1) \div M
  <2> DEFINE r == reader - 1
  <2>1. r \in Nat /\ r + 1 = reader
    BY <1>4, <1>5
  <2> HIDE DEF r
  <2>2. /\ (r + 1) % M = 0 => (r + 1) \div M = r \div M + 1
        /\ (r + 1) % M # 0 => (r + 1) \div M = r \div M
    BY <2>1, Positive, DivStep
  <2> QED BY <1>3, <2>1, <2>2 DEF r
<1>8. buf[reader] = Final(writer)
  <2>1. buf[reader] = Orig(reader)
    BY <1>3, <1>4
  <2>2. CASE reader = len
    BY <1>4, <2>1, <2>2, <1>3 DEF Orig, Final
  <2>3. CASE reader # len
    <3>1. reader < len /\ writer < DottedLen
      BY <1>3, <1>4, <2>3
    <3> QED BY <1>3, <1>4, <1>6, <2>1, <3>1 DEF Orig, Final
  <2> QED BY <2>2, <2>3
<1>9. pos' = reader
  BY <1>1, <1>3, <1>4
<1>10. writer \in DOMAIN buf
  BY <1>3, <1>4, TextAssumption
<1>11. (reader - 1) \div M \in Nat
  <2>1. reader - 1 \in Nat
    BY <1>4, <1>5
  <2> QED BY <2>1, Positive, DivMod
<1>12. /\ dots' = (reader - 1) \div M /\ writer' = reader' + dots' /\ writer' \in Nat
       /\ \A p \in 0 .. reader - 1 : buf'[p] = Orig(p)
       /\ \A p \in writer' + 1 .. DottedLen : buf'[p] = Final(p)
  <2> DEFINE d == (reader - 1) \div M
  <2>a. d \in Nat
    BY <1>11
  <2>1. CASE reader % M = 0
    <3>1. /\ buf' = [buf EXCEPT ![writer] = buf[reader], ![writer - 1] = Text!Dot]
          /\ writer' = writer - 2 /\ dots' = dots - 1 /\ dots = d + 1
      BY <1>1, <1>7, <1>9, <2>1
    <3> HIDE DEF d
    <3>2. writer - 1 \in DOMAIN buf /\ writer - 1 # writer /\ writer - 1 > reader - 1
      BY <1>a
    <3>3. buf'[writer] = buf[reader] /\ buf'[writer - 1] = Text!Dot
      BY <1>10, <3>1, <3>2
    <3>4. Final(writer - 1) = Text!Dot
      <4>1. writer - 1 # DottedLen
        BY <1>4
      <4> QED BY <1>6, <2>1, <4>1 DEF Final
    <3>5. ASSUME NEW p \in 0 .. reader - 1 PROVE buf'[p] = Orig(p)
      <4>1. p # writer /\ p # writer - 1 /\ p \in DOMAIN buf /\ p \in 0 .. reader
        BY <1>a, <3>2
      <4> QED BY <1>3, <3>1, <4>1
    <3>6. ASSUME NEW p \in writer' + 1 .. DottedLen PROVE buf'[p] = Final(p)
      <4>1. CASE p = writer
        BY <1>8, <3>3, <4>1
      <4>2. CASE p = writer - 1
        BY <3>3, <3>4, <4>2
      <4>3. CASE p # writer /\ p # writer - 1
        <5>a. writer' + 1 = writer - 1
          BY <1>a, <3>1
        <5>b. p >= writer - 1 /\ p <= DottedLen /\ p \in Nat
          BY <1>a, <5>a
        <5>1. p \in writer + 1 .. total /\ p \in DOMAIN buf
          BY <1>a, <5>b, <4>3
        <5> QED BY <1>3, <3>1, <4>3, <5>1
      <4> QED BY <4>1, <4>2, <4>3
    <3>7. dots' = d /\ writer' = reader' + dots' /\ writer' \in Nat
      <4>1. reader' = reader - 1
        BY <1>1
      <4>2. writer' = writer - 2 /\ dots' = dots - 1 /\ dots = d + 1
        BY <3>1
      <4>3. writer = reader + dots /\ reader > 0 /\ reader \in Nat /\ dots \in Nat
        BY <1>a
      <4> QED BY <2>a, <4>1, <4>2, <4>3
    <3> QED BY <3>5, <3>6, <3>7 DEF d
  <2>2. CASE reader % M # 0
    <3>1. /\ buf' = [buf EXCEPT ![writer] = buf[reader]]
          /\ writer' = writer - 1 /\ dots' = dots /\ dots = d
      BY <1>1, <1>7, <1>9, <2>2
    <3> HIDE DEF d
    <3>2. buf'[writer] = buf[reader]
      BY <1>10, <3>1
    <3>3. ASSUME NEW p \in 0 .. reader - 1 PROVE buf'[p] = Orig(p)
      <4>1. p # writer /\ p \in DOMAIN buf /\ p \in 0 .. reader
        BY <1>a
      <4> QED BY <1>3, <3>1, <4>1
    <3>4. ASSUME NEW p \in writer' + 1 .. DottedLen PROVE buf'[p] = Final(p)
      <4>1. CASE p = writer
        BY <1>8, <3>2, <4>1
      <4>2. CASE p # writer
        <5>1. p \in writer + 1 .. total /\ p \in DOMAIN buf
          BY <1>a, <3>1, <4>2
        <5> QED BY <1>3, <3>1, <4>2, <5>1
      <4> QED BY <4>1, <4>2
    <3>5. dots' = d /\ writer' = reader' + dots' /\ writer' \in Nat
      <4>1. reader' = reader - 1
        BY <1>1
      <4> QED BY <1>a, <2>a, <3>1, <4>1
    <3> QED BY <3>3, <3>4, <3>5 DEF d
  <2> QED BY <2>1, <2>2
<1>13. Dotifying'
  <2>1. /\ DottedLen' = DottedLen /\ \A p : Orig(p)' = Orig(p)
        /\ \A p : Final(p)' = Final(p)
    BY <1>1, SameText
  <2>2. reader' \in 0 .. len' /\ pos' = reader' + 1 /\ total' = DottedLen'
    BY <1>1, <1>3, <1>4, <1>5, <1>9, <2>1
  <2>3. dots' = reader' \div M
    BY <1>1, <1>12
  <2>4. \A p \in 0 .. reader' : buf'[p] = Orig(p)'
    BY <1>1, <1>12, <2>1
  <2>5. \A p \in writer' + 1 .. total' : buf'[p] = Final(p)'
    BY <1>12, <2>1, <2>2
  <2> QED BY <1>12, <2>2, <2>3, <2>4, <2>5 DEF Dotifying, M
<1>14. Dotting'
  BY <1>1, <1>2, <1>13 DEF Dotting
<1>15. Phases'
  BY <1>1 DEF IInv, Phases, coding
<1> QED BY <1>2, <1>14, <1>15 DEF IInv

(* A character moves down, or a dot is left out.                            *)
LEMMA UndotifyRoundStep ==
    ASSUME IInv, Text!UndotifyRound, UNCHANGED <<header, coding>>
    PROVE  IInv'
<1>1. /\ step = "undotify" /\ step' = "undotify" /\ pos < total /\ pos' = pos + 1
      /\ reader' = reader + 1 /\ len' = len /\ total' = total
      /\ IF buf[reader] = Text!Dot
           THEN dots' = dots + 1 /\ buf' = buf /\ writer' = writer
           ELSE /\ buf' = [buf EXCEPT ![writer] = buf[reader]]
                /\ writer' = writer + 1 /\ dots' = dots
  BY DEF Text!UndotifyRound
<1>2. /\ Coding' /\ header' \in Headers /\ len' = header' + EncLen' /\ len' \in Nat \ {0}
      /\ DottedLen' + 1 < Buflen /\ DOMAIN buf' = 0 .. Buflen - 1
  <2>1. DOMAIN buf' = DOMAIN buf
    BY <1>1
  <2> QED BY <1>1, <2>1, StepSame
<1>3. /\ total = NameLen /\ reader \in 0 .. total /\ pos = reader
      /\ dots = (IF reader = total THEN total - len ELSE reader \div (M + 1))
      /\ writer + dots = reader /\ writer \in Nat
      /\ \A p \in 0 .. writer - 1 : buf[p] = p + 1
      /\ \A p \in reader .. total - 1 : buf[p] = InName(p)
      /\ len \in Nat \ {0} /\ total \in Nat /\ total < Buflen
      /\ DOMAIN buf = 0 .. Buflen - 1
  BY <1>1, TextFacts DEF IInv, Dotting, Undotifying
<1>4. reader \in Nat /\ reader < total /\ dots = reader \div (M + 1) /\ dots \in Nat
  <2>1. reader \in Nat /\ reader < total
    BY <1>1, <1>3
  <2>2. reader \div (M + 1) \in Nat
    BY <2>1, Positive, DivMod
  <2> QED BY <1>3, <2>1, <2>2
<1>5. buf[reader] = InName(reader) /\ writer <= reader
  BY <1>3, <1>4
<1>6. /\ CharOf(reader) = Text!Dot <=> (reader + 1) % (M + 1) = 0
      /\ CharOf(reader) # Text!Dot => /\ CharOf(reader) = reader + 1 - dots
                                     /\ (reader + 1) \div (M + 1) = dots
      /\ (reader + 1) % (M + 1) = 0 => (reader + 1) \div (M + 1) = dots + 1
  BY <1>4, Positive, CharFacts, DivStep
<1>7. /\ dots' = (IF reader + 1 = total THEN total - len ELSE (reader + 1) \div (M + 1))
      /\ writer' + dots' = reader' /\ writer' \in Nat
      /\ \A p \in 0 .. writer' - 1 : buf'[p] = p + 1
      /\ \A p \in reader' .. total - 1 : buf'[p] = InName(p)
  <2>1. CASE buf[reader] = Text!Dot
    <3>1. dots' = dots + 1 /\ buf' = buf /\ writer' = writer
      BY <1>1, <2>1
    <3>2. CASE reader + 1 = total
      <4>1. total - len = dots + 1
        <5>1. NameLen - 1 = reader
          BY <1>3, <1>4, <3>2
        <5>2. NameLen - len = (NameLen - 1) \div (M + 1) + 1
          BY <1>3, LengthFacts
        <5> QED BY <1>3, <1>4, <5>1, <5>2
      <4> QED BY <1>1, <1>3, <1>4, <3>1, <3>2, <4>1
    <3>3. CASE reader + 1 # total
      <4>1. reader # NameLen - 1
        BY <1>3, <1>4, <3>3
      <4>2. CharOf(reader) = Text!Dot
        BY <1>5, <2>1, <4>1 DEF InName
      <4> DEFINE e == (reader + 1) \div (M + 1)
      <4>3. e = dots + 1
        BY <1>6, <4>2
      <4> HIDE DEF e
      <4>4. dots' = e /\ writer' + dots' = reader' /\ writer' \in Nat
        BY <1>1, <1>3, <1>4, <3>1, <4>3
      <4>5. \A p \in reader' .. total - 1 : buf'[p] = InName(p)
        BY <1>1, <1>3, <1>4, <3>1
      <4>6. \A p \in 0 .. writer' - 1 : buf'[p] = p + 1
        BY <1>3, <3>1
      <4> QED BY <3>3, <4>4, <4>5, <4>6 DEF e
    <3> QED BY <3>2, <3>3
  <2>2. CASE buf[reader] # Text!Dot
    <3>1. /\ buf' = [buf EXCEPT ![writer] = buf[reader]]
          /\ writer' = writer + 1 /\ dots' = dots
      BY <1>1, <2>2
    <3>2. reader # NameLen - 1 /\ reader + 1 # total
      <4>1. reader # NameLen - 1
        BY <1>5, <2>2 DEF InName
      <4> QED BY <1>3, <1>4, <4>1
    <3>3. CharOf(reader) # Text!Dot /\ buf[reader] = CharOf(reader)
      BY <1>5, <2>2, <3>2 DEF InName
    <3>4. buf[reader] = writer + 1
      <4>1. buf[reader] = reader + 1 - dots
        BY <1>6, <3>3
      <4> QED BY <1>3, <1>4, <4>1
    <3>5. writer \in DOMAIN buf
      BY <1>3, <1>4, <1>5, TextAssumption
    <3>6. ASSUME NEW p \in 0 .. writer' - 1 PROVE buf'[p] = p + 1
      <4>1. p \in 0 .. writer
        BY <1>3, <3>1
      <4>2. CASE p = writer
        BY <3>1, <3>4, <3>5, <4>2
      <4>3. CASE p # writer
        <5>1. p \in 0 .. writer - 1 /\ p \in DOMAIN buf
          BY <1>3, <1>4, <1>5, <4>1, <4>3, TextAssumption
        <5> QED BY <1>3, <3>1, <4>3, <5>1
      <4> QED BY <4>2, <4>3
    <3>7. ASSUME NEW p \in reader' .. total - 1 PROVE buf'[p] = InName(p)
      <4>1. p # writer /\ p \in DOMAIN buf /\ p \in reader .. total - 1
        BY <1>1, <1>3, <1>4, <1>5, TextAssumption
      <4> QED BY <1>3, <3>1, <4>1
    <3> DEFINE e == (reader + 1) \div (M + 1)
    <3>8. dots = e
      BY <1>6, <3>3
    <3> HIDE DEF e
    <3>9. dots' = e /\ writer' + dots' = reader' /\ writer' \in Nat
      BY <1>1, <1>3, <1>4, <3>1, <3>8
    <3> QED BY <3>2, <3>6, <3>7, <3>9 DEF e
  <2> QED BY <2>1, <2>2
<1>8. Undotifying'
  <2>1. NameLen' = NameLen /\ \A p : InName(p)' = InName(p)
    BY <1>1, SameText
  <2>2. total' = NameLen' /\ reader' \in 0 .. total' /\ pos' = reader'
    BY <1>1, <1>3, <1>4, <2>1
  <2>3. dots' = IF reader' = total' THEN total' - len' ELSE reader' \div (M + 1)
    BY <1>1, <1>7
  <2>4. \A p \in reader' .. total' - 1 : buf'[p] = InName(p)'
    BY <1>1, <1>7, <2>1
  <2> QED BY <1>7, <2>2, <2>3, <2>4 DEF Undotifying, M
<1>9. Dotting'
  BY <1>1, <1>2, <1>8 DEF Dotting
<1>10. Phases'
  BY <1>1 DEF IInv, Phases, coding
<1> QED BY <1>2, <1>9, <1>10 DEF IInv

(* The characters that arrive are those that were written.                  *)
LEMMA UnpackStep ==
    ASSUME IInv, unpack_data
    PROVE  IInv'
<1>1. /\ pc = "encoded" /\ step = "plain" /\ step' = "read"
      /\ enc' = [i \in 1 .. (total - header) |-> enc[buf[header + i - 1] - header]]
      /\ UNCHANGED <<header, codec, size, buflen, room, iin, iout, used, dec, pc,
                     len, buf, reader, writer, pos, dots, total>>
  BY DEF unpack_data
<1>2. /\ total = len /\ len = header + EncLen /\ \A p \in 0 .. len - 1 : buf[p] = p + 1
      /\ header \in Nat \ {0} /\ enc = Chars(EncLen)
  <2>1. header \in Headers /\ Plain /\ Encoded /\ len = header + EncLen
    BY <1>1, TextFacts DEF IInv, Dotting, Coding
  <2> QED BY <2>1, TextAssumption DEF Plain, Encoded
<1>3. EncLen \in Nat
  <2>1. /\ codec \in Data!Codecs /\ size \in Nat /\ buflen \in 0 .. 2 * MaxBytes
        /\ Encoded
    BY <1>1 DEF IInv, Coding
  <2>2. Filled(buflen) \in Nat
    BY <2>1, FilledFacts, TextAssumption
  <2>3. used \in Nat
    BY <2>1, <2>2 DEF Encoded
  <2> QED BY <2>1, <2>3, EncodedLength DEF EncLen
<1>4. enc' = enc
  <2>1. total - header = EncLen
    BY <1>2, <1>3
  <2>2. ASSUME NEW i \in 1 .. EncLen
        PROVE  enc[buf[header + i - 1] - header] = enc[i]
    <3>1. header + i - 1 \in 0 .. len - 1 /\ header + i - 1 + 1 = header + i
          /\ header + i - header = i
      BY <1>2, <1>3
    <3>2. buf[header + i - 1] = header + i
      BY <1>2, <3>1
    <3>3. buf[header + i - 1] - header = i
      BY <1>2, <3>2
    <3> QED BY <3>3
  <2>3. enc' = [i \in 1 .. EncLen |-> enc[i]]
    BY <1>1, <2>1, <2>2
  <2>4. enc = [i \in 1 .. EncLen |-> enc[i]]
    BY <1>2 DEF Chars
  <2> QED BY <2>3, <2>4
<1>5. Coding' /\ EncLen' = EncLen
  <2>1. UNCHANGED coding
    BY <1>1, <1>4 DEF coding
  <2> QED BY <2>1, CodingSame DEF IInv
<1>6. Dotting'
  <2>1. DottedLen' = DottedLen
    BY <1>1, SameText
  <2> QED BY <1>1, <1>5, <2>1, TextFacts DEF IInv, Dotting, Plain
<1>7. Phases'
  BY <1>1 DEF Phases
<1> QED BY <1>5, <1>6, <1>7 DEF IInv

-----------------------------------------------------------------------------
(* The invariant is inductive.                                             *)

LEMMA InitIInv ==
    ASSUME Init
    PROVE  IInv
<1>1. /\ header \in Headers /\ step = "none" /\ pc = "encode" /\ codec \in Data!Codecs
      /\ size \in 0 .. MaxBytes /\ buflen \in 0 .. 2 * MaxBytes /\ room = 0
      /\ iin = 0 /\ iout = 0 /\ enc = << >> /\ dec = << >>
  BY DEF Init, Data!Init
<1>2. Encoding
  <2>1. Filled(0) = 0
    <3>1. /\ 0 \in Nat /\ Filled(iout) \in Nat /\ Width(codec) \in Nat
          /\ 8 * Filled(iout) <= Width(codec) * iout
      <4>1. iout \in Nat
        BY <1>1
      <4>2. Width(codec) \in Nat
        BY <1>1, CodecFacts
      <4> QED BY <1>1, <4>1, <4>2, FilledFacts
    <3>2. Width(codec) * 0 = 0
      BY <3>1
    <3> QED BY <1>1, <3>1, <3>2
  <2>2. enc = Chars(0)
    BY <1>1 DEF Chars
  <2> QED BY <1>1, <2>1, <2>2, TextAssumption DEF Encoding
<1>3. Coding
  BY <1>1, <1>2, TextAssumption DEF Coding
<1> QED BY <1>1, <1>3 DEF IInv, Phases, Dotting

LEMMA NextIInv ==
    ASSUME IInv, [Next]_vars
    PROVE  IInv'
<1>1. CASE Encode
  BY <1>1, EncodeCharStep, EncodeStopStep DEF Encode
<1>2. CASE build_hostname
  BY <1>2, BuildStep
<1>3. CASE Dots
  BY <1>3, DotifyStartStep, DotifyRoundStep, DotifyEndStep, EndNameStep,
     UndotifyStartStep, UndotifyRoundStep, UndotifyEndStep DEF Dots, Text!Next
<1>4. CASE unpack_data
  BY <1>4, UnpackStep
<1>5. CASE Decode
  BY <1>5, DecodeStartStep, DecodeByteStep, DecodeStopStep DEF Decode
<1>6. CASE UNCHANGED vars
  <2>1. UNCHANGED <<header, coding>> /\ UNCHANGED dotting
    BY <1>6 DEF vars
  <2>2. Coding' /\ EncLen' = EncLen
    BY <2>1, CodingSame DEF IInv
  <2>3. UNCHANGED <<header, pc, len, buf, reader, writer, pos, dots, total, step>>
    BY <2>1 DEF coding, dotting
  <2>4. /\ DottedLen' = DottedLen /\ NameLen' = NameLen
        /\ \A p : Orig(p)' = Orig(p)
        /\ \A p : Final(p)' = Final(p)
        /\ \A p : InName(p)' = InName(p)
    BY <2>3, SameText
  <2>5. /\ Dotifying => Dotifying'
        /\ Dotted => Dotted'
        /\ Named => Named'
        /\ Undotifying => Undotifying'
        /\ Plain => Plain'
    BY <2>3, <2>4 DEF Dotifying, Dotted, Named, Undotifying, Plain, M
  <2>6. (\A p \in 0 .. len : buf[p] = Orig(p)) => (\A p \in 0 .. len : buf[p] = Orig(p))'
    BY <2>3, <2>4
  <2>7. Dotting'
    BY <2>2, <2>3, <2>4, <2>5, <2>6 DEF IInv, Dotting
  <2> QED BY <2>2, <2>3, <2>7 DEF IInv, Phases
<1> QED BY <1>1, <1>2, <1>3, <1>4, <1>5, <1>6 DEF Next

(***************************************************************************)
(* The invariant of encode, decode, inline_dotify and inline_undotify: what *)
(* each loop has written and read so far, after any number of rounds.       *)
(***************************************************************************)
THEOREM SpecIInv == Spec => []IInv
<1>1. Init => IInv
  BY InitIInv
<1>2. IInv /\ [Next]_vars => IInv'
  BY NextIInv
<1> QED BY <1>1, <1>2, PTL DEF Spec

-----------------------------------------------------------------------------
(* The properties.                                                         *)

LEMMA IInvRoundTrip ==
    ASSUME IInv
    PROVE  RoundTrip
<1> SUFFICES ASSUME pc = "done"
             PROVE  /\ Len(dec) = Data!Min({used, room})
                    /\ \A i \in 1 .. Len(dec) : dec[i] = Data!DataByte(i - 1)
  BY DEF RoundTrip, Data!RoundTrip
<1>1. /\ codec \in Data!Codecs /\ size \in Nat /\ buflen \in 0 .. 2 * MaxBytes
      /\ room \in Nat /\ iout \in 0 .. room /\ iout <= used
      /\ dec = [i \in 1 .. iout |-> Data!DataByte(i - 1)]
      /\ iout = room \/ iout = used
      /\ used = IF size <= Filled(buflen) THEN size ELSE Filled(buflen)
  BY DEF IInv, Coding, Decoding, Encoded
<1>2. used \in Nat /\ iout \in Nat
  <2>1. Filled(buflen) \in Nat
    <3>1. codec \in Data!Codecs /\ buflen \in Nat
      BY <1>1, TextAssumption
    <3> QED BY <3>1, FilledFacts
  <2> QED BY <1>1, <2>1
<1>3. Data!Min({used, room}) = iout
  <2>1. Data!Min({used, room}) = IF used <= room THEN used ELSE room
    BY <1>1, <1>2, MinOfTwo
  <2> QED BY <1>1, <1>2, <2>1
<1>4. Len(dec) = iout
  BY <1>1, <1>2
<1> QED BY <1>1, <1>3, <1>4

LEMMA IInvLengthsAgree ==
    ASSUME IInv
    PROVE  LengthsAgree
<1> SUFFICES ASSUME pc # "encode"
             PROVE  /\ used = Data!Min({size, (codec.raw * buflen) \div codec.enc})
                    /\ Len(enc) = Data!get_encoded_length(codec, used)
  BY DEF LengthsAgree, Data!LengthsAgree
<1>1. /\ codec \in Data!Codecs /\ size \in Nat /\ buflen \in 0 .. 2 * MaxBytes
      /\ used = IF size <= Filled(buflen) THEN size ELSE Filled(buflen)
      /\ enc = Chars(EncLen)
  BY DEF IInv, Coding, Encoded
<1>2. Filled(buflen) \in Nat
  <2>1. buflen \in Nat
    BY <1>1, TextAssumption
  <2> QED BY <1>1, <2>1, FilledFacts
<1>3. used = Data!Min({size, Filled(buflen)})
  BY <1>1, <1>2, MinOfTwo
<1>4. EncLen \in Nat
  <2>1. used \in Nat
    BY <1>1, <1>2
  <2> QED BY <1>1, <2>1, EncodedLength DEF EncLen
<1>5. Len(enc) = EncLen
  BY <1>1, <1>4, CharsFacts
<1> QED BY <1>3, <1>5 DEF EncLen, Filled

LEMMA IInvReadBeforeWritten ==
    ASSUME IInv
    PROVE  Text!ReadBeforeWritten
<1>1. ASSUME step = "dotify" PROVE reader >= 0 /\ writer = reader + dots /\ writer < Buflen
  <2>1. /\ reader \in 0 .. len /\ dots = reader \div M /\ writer = reader + dots
        /\ len \in Nat /\ DottedLen \in Nat /\ DottedLen + 1 < Buflen
    BY <1>1, TextFacts DEF IInv, Dotting, Dotifying
  <2>2. reader \in Nat /\ reader <= len
    BY <2>1
  <2>3. /\ reader \div M <= len \div M /\ reader \div M \in Nat /\ len \div M \in Nat
        /\ DottedLen = len + len \div M
    BY <2>1, <2>2, Positive, DivMonotonic, DivMod DEF DottedLen
  <2> DEFINE a == reader \div M
             b == len \div M
  <2>4. a <= b /\ a \in Nat /\ b \in Nat /\ dots = a /\ DottedLen = len + b
    BY <2>1, <2>3
  <2> HIDE DEF a, b
  <2>5. writer = reader + a /\ DottedLen + 1 < Buflen /\ len \in Nat
    BY <2>1, <2>4
  <2> QED BY <2>1, <2>2, <2>4, <2>5, TextAssumption
<1>2. ASSUME step = "undotify" PROVE writer + dots = reader /\ reader = pos
  BY <1>2 DEF IInv, Dotting, Undotifying
<1> QED BY <1>1, <1>2 DEF Text!ReadBeforeWritten

LEMMA IInvDotsInPlace ==
    ASSUME IInv
    PROVE  Text!DotsInPlace
<1> SUFFICES ASSUME step = "dotted"
             PROVE  /\ total = len + len \div M
                    /\ buf[total] = Text!Nul
                    /\ \A i \in 1 .. total : buf[i - 1] = Text!Dot <=> i % (M + 1) = 0
                    /\ \A c \in 1 .. len : buf[c - 1 + (c - 1) \div M] = c
  BY DEF Text!DotsInPlace, M
<1>1. /\ total = DottedLen /\ \A p \in 0 .. total : buf[p] = Final(p)
      /\ total \in Nat \ {0} /\ len \in Nat \ {0} /\ total + 1 < Buflen
      /\ len <= DottedLen
  BY TextFacts DEF IInv, Dotting, Dotted
<1>2. \A p \in 0 .. total - 1 : buf[p] = CharOf(p)
  BY <1>1 DEF Final
<1>3. ASSUME NEW i \in 1 .. total
      PROVE  buf[i - 1] = Text!Dot <=> i % (M + 1) = 0
  <2>1. i - 1 \in Nat /\ i - 1 \in 0 .. total - 1 /\ i - 1 + 1 = i
    BY <1>1
  <2>2. CharOf(i - 1) = Text!Dot <=> (i - 1 + 1) % (M + 1) = 0
    BY <2>1, CharFacts
  <2> QED BY <1>2, <2>1, <2>2
<1>4. ASSUME NEW c \in 1 .. len
      PROVE  buf[c - 1 + (c - 1) \div M] = c
  <2> DEFINE r == c - 1
             w == r + r \div M
  <2>1. r \in Nat /\ r + 1 = c /\ r < len
    BY <1>1
  <2>2. CharOf(w) = r + 1 /\ w \in Nat
    BY <2>1, PlaceFacts
  <2>3. w \in 0 .. total - 1
    <3> HIDE DEF r
    <3>a. r \in Nat /\ len \in Nat /\ r <= len
      BY <1>1, <2>1
    <3>1. r \div M <= len \div M /\ r \div M \in Nat /\ len \div M \in Nat
      BY <3>a, Positive, DivMonotonic, DivMod
    <3> DEFINE a == r \div M
               b == len \div M
    <3>2. a <= b /\ a \in Nat /\ b \in Nat /\ w = r + a /\ total = len + b
      BY <1>1, <3>1 DEF DottedLen
    <3> HIDE DEF a, b, w
    <3> QED BY <1>1, <2>1, <3>2
  <2> QED BY <1>2, <2>1, <2>2, <2>3
<1>5. total = len + len \div M /\ buf[total] = Text!Nul
  BY <1>1 DEF Final, DottedLen
<1> QED BY <1>3, <1>4, <1>5

(* The labels of a name end behind every M characters, and at its end.      *)
LEMMA IInvLabelsRight ==
    ASSUME IInv
    PROVE  Text!LabelsRight
<1> DEFINE n == M + 1
           ends == {0} \cup {i \in 1 .. total : buf[i - 1] = Text!Dot}
<1> SUFFICES ASSUME step = "name"
             PROVE  /\ total \in ends
                    /\ \A i \in ends \ {total} :
                         \E j \in ends : j - i \in 2 .. n /\ (i .. j) \cap ends = {i, j}
  BY DEF Text!LabelsRight, M
<1>1. /\ total = NameLen /\ \A p \in 0 .. total - 1 : buf[p] = InName(p)
      /\ total \in Nat \ {0} /\ len \in Nat \ {0}
  BY TextFacts DEF IInv, Dotting, Named
<1>2. n \in Nat \ {0} /\ n >= 2
  BY Positive
<1>3. \A i : i \in ends <=> i \in 0 .. total /\ (i % n = 0 \/ i = total)
  <2>1. ASSUME NEW i \in 1 .. total
        PROVE  buf[i - 1] = Text!Dot <=> i % n = 0 \/ i = total
    <3>1. i - 1 \in Nat /\ i - 1 \in 0 .. total - 1 /\ i - 1 + 1 = i
      BY <1>1
    <3>2. CharOf(i - 1) = Text!Dot <=> (i - 1 + 1) % n = 0
      BY <3>1, CharFacts
    <3>3. buf[i - 1] = IF i - 1 = NameLen - 1 THEN Text!Dot ELSE CharOf(i - 1)
      BY <1>1, <3>1 DEF InName
    <3>4. i - 1 = NameLen - 1 <=> i = total
      BY <1>1
    <3> QED BY <3>1, <3>2, <3>3, <3>4
  <2>2. 0 % n = 0
    <3>1. \A k \in Nat \ {0} : 0 % k = 0
      OBVIOUS
    <3> QED BY <1>2, <3>1
  <2>3. \A i : i \in 0 .. total <=> i = 0 \/ i \in 1 .. total
    BY <1>1
  <2> QED BY <2>1, <2>2, <2>3
<1>4. total % n # 1
  <2>1. n = M + 1
    OBVIOUS
  <2> HIDE DEF n
  <2>2. NameLen = DottedLen => total % n = 0
    BY <1>1, <2>1, LengthFacts
  <2>3. NameLen # DottedLen => total % n # 1
    BY <1>1, <2>1, LengthFacts
  <2> QED BY <2>2, <2>3
<1> HIDE DEF n, ends
<1>5. ASSUME NEW i \in ends \ {total}
      PROVE  \E j \in ends : j - i \in 2 .. n /\ (i .. j) \cap ends = {i, j}
  <2>1. i \in 0 .. total /\ i % n = 0 /\ i # total /\ i \in Nat /\ i < total
    BY <1>1, <1>3, <1>5
  <2> DEFINE q == i \div n
  <2>2. i = n * q /\ q \in Nat
    <3>1. i = n * (i \div n) + (i % n) /\ i \div n \in Nat
      BY <1>2, <2>1, DivMod
    <3> QED BY <1>2, <2>1, <3>1
  <2> HIDE DEF q
  <2>3. ASSUME NEW k \in Nat, i < k, k < i + n
        PROVE  k % n = k - i
    <3>1. k = n * q + (k - i) /\ k - i \in 0 .. n - 1
      BY <1>2, <2>1, <2>2, <2>3
    <3> QED BY <1>2, <2>2, <3>1, DivUnique
  <2>4. CASE i + n <= total
    <3> DEFINE j == i + n
    <3>1. j \in ends
      <4>1. j = n * (q + 1) + 0 /\ q + 1 \in Nat /\ 0 \in 0 .. n - 1 /\ j \in Nat
        BY <1>2, <2>1, <2>2
      <4>2. j % n = 0
        BY <1>2, <4>1, DivUnique
      <4> QED BY <1>2, <1>3, <2>1, <2>4, <4>2
    <3>2. j - i \in 2 .. n
      BY <1>2, <2>1
    <3>3. ASSUME NEW k \in i .. j, k \in ends PROVE k \in {i, j}
      <4>1. k \in Nat /\ i <= k /\ k <= j
        BY <2>1, <1>2
      <4>2. CASE i < k /\ k < j
        <5>1. k < i + n /\ k # total
          BY <1>1, <1>2, <2>1, <2>4, <4>1, <4>2
        <5>2. k % n = k - i
          BY <2>3, <4>1, <4>2, <5>1
        <5>3. k - i # 0
          BY <2>1, <4>1, <4>2
        <5> QED BY <1>3, <3>3, <5>1, <5>2, <5>3
      <4>3. CASE ~ (i < k /\ k < j)
        BY <1>2, <2>1, <4>1, <4>3
      <4> QED BY <4>2, <4>3
    <3>4. i \in i .. j /\ j \in i .. j /\ i \in ends
      BY <1>2, <1>5, <2>1
    <3>5. (i .. j) \cap ends = {i, j}
      BY <3>1, <3>3, <3>4
    <3> QED BY <3>1, <3>2, <3>5
  <2>5. CASE total < i + n
    <3>1. total \in ends
      BY <1>1, <1>3
    <3>2. total - i \in 2 .. n
      <4>1. total % n = total - i
        BY <1>1, <2>1, <2>3, <2>5
      <4> QED BY <1>1, <1>2, <1>4, <2>1, <2>5, <4>1
    <3>3. ASSUME NEW k \in i .. total, k \in ends PROVE k \in {i, total}
      <4>1. k \in Nat /\ i <= k /\ k <= total
        BY <1>1, <2>1
      <4>2. CASE i < k /\ k < total
        <5>1. k < i + n /\ k # total
          BY <1>1, <1>2, <2>1, <2>5, <4>1, <4>2
        <5>2. k % n = k - i
          BY <2>3, <4>1, <4>2, <5>1
        <5>3. k - i # 0
          BY <2>1, <4>1, <4>2
        <5> QED BY <1>3, <3>3, <5>1, <5>2, <5>3
      <4>3. CASE ~ (i < k /\ k < total)
        BY <1>1, <2>1, <4>1, <4>3
      <4> QED BY <4>2, <4>3
    <3>4. i \in i .. total /\ total \in i .. total /\ i \in ends
      BY <1>1, <1>5, <2>1
    <3>5. (i .. total) \cap ends = {i, total}
      BY <3>1, <3>3, <3>4
    <3> QED BY <3>1, <3>2, <3>5
  <2> QED BY <1>1, <1>2, <2>1, <2>4, <2>5
<1>6. total \in ends
  BY <1>1, <1>3
<1> QED BY <1>5, <1>6

(* What a codec reports as used of the data comes back bit for bit, as far  *)
(* as the reader has room for it, with the dots put in and taken out of the *)
(* text on the way (base32.c:136, encoding.c:89-95).                        *)
THEOREM SpecRoundTrip == Spec => []RoundTrip
<1>1. IInv => RoundTrip
  BY IInvRoundTrip
<1> QED BY <1>1, SpecIInv, PTL

(* A codec uses all of the data that the characters have room for, and      *)
(* writes as many characters as get_encoded_length says: a break in the     *)
(* middle of a byte leaves nothing behind.                                  *)
THEOREM SpecLengthsAgree == Spec => []LengthsAgree
<1>1. IInv => LengthsAgree
  BY IInvLengthsAgree
<1> QED BY <1>1, SpecIInv, PTL

(* inline_dotify and inline_undotify, which work in place, overwrite nothing *)
(* that they have not moved; the dots are behind every label's worth of      *)
(* characters and nowhere else, and no label of the name is empty or longer  *)
(* than a label may be.                                                      *)
THEOREM SpecDotsRight == Spec => []DotsRight
<1>1. IInv => DotsRight
  BY IInvReadBeforeWritten, IInvDotsInPlace, IInvLabelsRight DEF DotsRight
<1> QED BY <1>1, SpecIInv, PTL

=============================================================================
