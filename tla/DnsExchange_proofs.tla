------------------------- MODULE DnsExchange_proofs -------------------------
(***************************************************************************)
(* Two proofs about names and the messages they travel in.                  *)
(*                                                                         *)
(* Part 1, Hostname: the names fit, for every length of names and topdomain *)
(* and every data: the room that build_hostname leaves for dots is enough   *)
(* although it counts them without the header and inline_dotify counts them *)
(* with it. And with the limit and the codec of the start nothing is cut,   *)
(* for every topdomain of up to 83 characters and every message that is     *)
(* sent.                                                                   *)
(*                                                                         *)
(* Part 2, DnsExchange: the server reads the names as they were built, and   *)
(* the client reads of an answer the parts before the first gap, all of     *)
(* them if all arrive, whatever a relay makes of the order of the records:  *)
(* for every size of answer, every codec and every length of the names in   *)
(* the answer.                                                             *)
(***************************************************************************)
EXTENDS DnsExchange, SequenceTheorems, FiniteSetTheorems, WellFoundedInduction, TLAPS

-----------------------------------------------------------------------------
(* Part 1: the names.                                                      *)

AllCodecs == {Base32, Base64, Base128}
Headers == {VERSION_HDR, PACKET_HDR, UPSTREAM_HDR}

(***************************************************************************)
(* What encode uses of the data needs no more characters than there is     *)
(* room for.                                                               *)
(***************************************************************************)
LEMMA EncodedFits ==
  ASSUME NEW c \in AllCodecs, NEW space \in Nat, NEW n \in Nat
  PROVE  /\ Used(c, space, n) \in Nat
         /\ get_encoded_length(c, Used(c, space, n)) \in Nat
         /\ get_encoded_length(c, Used(c, space, n)) <= space
<1>1. CASE c = Base32
  <2>1. /\ Used(c, space, n) \in Nat
        /\ Used(c, space, n) <= (5 * space) \div 8
    BY <1>1 DEF Used, Smaller, Base32
  <2>2. ASSUME NEW u \in Nat, u <= (5 * space) \div 8
        PROVE  /\ (8 * u) \div 5 + (IF (8 * u) % 5 > 0 THEN 1 ELSE 0) \in Nat
               /\ (8 * u) \div 5 + (IF (8 * u) % 5 > 0 THEN 1 ELSE 0) <= space
    BY <2>2
  <2>. QED  BY <1>1, <2>1, <2>2 DEF get_encoded_length, Base32
<1>2. CASE c = Base64
  <2>1. /\ Used(c, space, n) \in Nat
        /\ Used(c, space, n) <= (3 * space) \div 4
    BY <1>2 DEF Used, Smaller, Base64
  <2>2. ASSUME NEW u \in Nat, u <= (3 * space) \div 4
        PROVE  /\ (4 * u) \div 3 + (IF (4 * u) % 3 > 0 THEN 1 ELSE 0) \in Nat
               /\ (4 * u) \div 3 + (IF (4 * u) % 3 > 0 THEN 1 ELSE 0) <= space
    BY <2>2
  <2>. QED  BY <1>2, <2>1, <2>2 DEF get_encoded_length, Base64
<1>3. CASE c = Base128
  <2>1. /\ Used(c, space, n) \in Nat
        /\ Used(c, space, n) <= (7 * space) \div 8
    BY <1>3 DEF Used, Smaller, Base128
  <2>2. ASSUME NEW u \in Nat, u <= (7 * space) \div 8
        PROVE  /\ (8 * u) \div 7 + (IF (8 * u) % 7 > 0 THEN 1 ELSE 0) \in Nat
               /\ (8 * u) \div 7 + (IF (8 * u) % 7 > 0 THEN 1 ELSE 0) <= space
    BY <2>2
  <2>. QED  BY <1>3, <2>1, <2>2 DEF get_encoded_length, Base128
<1>. QED  BY <1>1, <1>2, <1>3 DEF AllCodecs

----------------------------------------------------------------------------
(***************************************************************************)
(* The arithmetic of build_hostname: with e characters of data, at most as *)
(* many as there is room for, the dots of header and data, one more dot    *)
(* and the topdomain stay below the limit.                                 *)
(***************************************************************************)
LEMMA DottedFits ==
  ASSUME NEW L \in 65..255, NEW T \in 3..128, NEW h \in Headers,
         L - h >= T + (L - h) \div DNS_MAXLABEL + 2,
         NEW e \in Nat, e <= Space(L - h, T)
  PROVE  /\ Ended(h + e) \in Nat
         /\ Ended(h + e) + T < L
<1>1. Space(L - h, T) = L - h - (T + (L - h) \div 59 + 2)
  BY DEF Space, Minus, DNS_MAXLABEL, Headers, VERSION_HDR, PACKET_HDR, UPSTREAM_HDR
<1>2. (L - h) \div 59 >= 1
  BY DEF Headers, VERSION_HDR, PACKET_HDR, UPSTREAM_HDR
<1>3. h + e <= L - h
  BY <1>1, <1>2 DEF Headers, VERSION_HDR, PACKET_HDR, UPSTREAM_HDR
<1>4. (h + e) \div 59 <= (L - h) \div 59
  BY <1>3 DEF Headers, VERSION_HDR, PACKET_HDR, UPSTREAM_HDR
<1>5. /\ Ended(h + e) \in Nat
      /\ Ended(h + e) <= h + e + (h + e) \div 59 + 1
  BY DEF Ended, Dotted, DNS_MAXLABEL, Headers, VERSION_HDR, PACKET_HDR, UPSTREAM_HDR
<1>. QED  BY <1>1, <1>4, <1>5 DEF Headers, VERSION_HDR, PACKET_HDR, UPSTREAM_HDR

LEMMA BuiltFits ==
  ASSUME NEW L \in 65..255, NEW T \in 3..128, NEW h \in Headers,
         NEW c \in AllCodecs, NEW n \in Nat
  PROVE  /\ build_hostname(n, T, c, L, h) \in [data : Nat, used : Nat, length : Nat]
         /\ L - h >= T + (L - h) \div DNS_MAXLABEL + 2
              => build_hostname(n, T, c, L, h).length < L
         /\ \E x \in Nat : x >= 1 /\ build_hostname(n, T, c, L, h).length = Ended(x) + T
<1>. DEFINE space == Space(L - h, T)
            used == Used(c, space, n)
            e == get_encoded_length(c, used)
<1>1. space \in Nat
  BY DEF Space, Minus, Huge, DNS_MAXLABEL, Headers, VERSION_HDR, PACKET_HDR, UPSTREAM_HDR
<1>2. used \in Nat /\ e \in Nat /\ e <= space
  BY <1>1, EncodedFits
<1>3. Ended(h + e) \in Nat
  BY <1>2 DEF Ended, Dotted, DNS_MAXLABEL, Headers, VERSION_HDR, PACKET_HDR, UPSTREAM_HDR
<1>4. build_hostname(n, T, c, L, h)
        = [data |-> n, used |-> used, length |-> Ended(h + e) + T]
  BY DEF build_hostname
<1>5. ASSUME L - h >= T + (L - h) \div DNS_MAXLABEL + 2
      PROVE  Ended(h + e) + T < L
  <2>. HIDE DEF e
  <2>. QED  BY <1>2, <1>5, DottedFits
<1>. HIDE DEF space, used, e
<1>6. Ended(h + e) + T \in Nat
  BY <1>3
<1>7. h + e \in Nat /\ h + e >= 1
  BY <1>2 DEF Headers, VERSION_HDR, PACKET_HDR, UPSTREAM_HDR
<1>. QED  BY <1>2, <1>4, <1>5, <1>6, <1>7

----------------------------------------------------------------------------
(***************************************************************************)
(* The sizes kept are natural numbers, even where a difference wraps.      *)
(***************************************************************************)
LEMMA FragsizeType ==
  ASSUME NEW L \in 65..255, NEW T \in 3..128, NEW c \in AllCodecs
  PROVE  get_raw_length_from_dns(L - UPSTREAM_HDR, c, T) \in Nat
<1>1. ASSUME NEW a \in Nat, NEW b \in Nat
      PROVE  Minus(a, b) \in Nat
  BY DEF Minus, Huge
<1>2. ASSUME NEW k \in Nat
      PROVE  get_raw_length(c, k) \in Nat
  BY DEF get_raw_length, AllCodecs, Base32, Base64, Base128
<1>3. L - UPSTREAM_HDR \in Nat /\ T + 2 \in Nat
  BY DEF UPSTREAM_HDR
<1>. DEFINE d == Minus(L - UPSTREAM_HDR, T + 2)
<1>4. d \in Nat
  BY <1>1, <1>3
<1>. HIDE DEF d
<1>5. 1 + d \div DNS_MAXLABEL \in Nat
  BY <1>4 DEF DNS_MAXLABEL
<1>6. Minus(d, 1 + d \div DNS_MAXLABEL) \in Nat
  BY <1>1, <1>4, <1>5
<1>7. get_raw_length(c, Minus(d, 1 + d \div DNS_MAXLABEL)) \in Nat
  BY <1>2, <1>6
<1>. QED  BY <1>7 DEF get_raw_length_from_dns, d

(***************************************************************************)
(* Where a name has room for 164 characters behind the header of a message, *)
(* it has for 160 behind that of a fragment, which is four longer.         *)
(***************************************************************************)
LEMMA RoomWhenWide ==
  ASSUME NEW L \in 65..255, NEW T \in 3..128,
         L - PACKET_HDR >= T + (L - PACKET_HDR) \div DNS_MAXLABEL + 2 + 164,
         NEW h \in Headers
  PROVE  /\ Space(L - h, T) \in Nat
         /\ Space(L - h, T) >= IF h = UPSTREAM_HDR THEN 160 ELSE 164
<1>1. /\ L - 2 >= T + (L - 2) \div 59 + 166
      /\ h \in {1, 2, 6}
  BY DEF PACKET_HDR, DNS_MAXLABEL, Headers, VERSION_HDR, UPSTREAM_HDR
<1>2. /\ L - 2 \in Nat /\ L - 6 \in Nat /\ (L - 6) \div 59 <= (L - 2) \div 59
      /\ (L - 1) \div 59 <= (L - 2) \div 59 + 1
  OBVIOUS
<1>3. CASE h = 1
  <2>1. L - 1 - (T + (L - 1) \div 59 + 2) >= 164
    BY <1>1, <1>2
  <2>. QED  BY <1>3, <2>1 DEF Space, Minus, DNS_MAXLABEL, UPSTREAM_HDR
<1>4. CASE h = 2
  <2>1. L - 2 - (T + (L - 2) \div 59 + 2) >= 164
    BY <1>1, <1>2
  <2>. QED  BY <1>4, <2>1 DEF Space, Minus, DNS_MAXLABEL, UPSTREAM_HDR
<1>5. CASE h = 6
  <2>1. L - 6 - (T + (L - 6) \div 59 + 2) >= 160
    BY <1>1, <1>2
  <2>. QED  BY <1>5, <2>1 DEF Space, Minus, DNS_MAXLABEL, UPSTREAM_HDR
<1>. QED  BY <1>1, <1>3, <1>4, <1>5

(***************************************************************************)
(* With that room and Base32, 102 bytes fit behind a short header and 100   *)
(* behind that of a fragment.                                              *)
(***************************************************************************)
LEMMA WholeByDefault ==
  ASSUME NEW space \in Nat, NEW h \in Headers, NEW n \in Nat,
         space >= IF h = UPSTREAM_HDR THEN 160 ELSE 164,
         n <= 102, h = UPSTREAM_HDR => n <= 100
  PROVE  Used(Base32, space, n) = n
<1>1. (5 * space) \div 8 >= n
  BY DEF Headers, UPSTREAM_HDR, PACKET_HDR, VERSION_HDR
<1>. QED  BY <1>1 DEF Used, Smaller, Base32

(* Of a probe, the size that it asks for goes into the name.               *)
LEMMA ProbeByDefault ==
  ASSUME NEW space \in Nat, space >= 160
  PROVE  Used(Base32, space, PROBE_DATA) >= 2
<1>1. (5 * space) \div 8 >= 2
  OBVIOUS
<1>. QED  BY <1>1 DEF Used, Smaller, Base32, PROBE_DATA

----------------------------------------------------------------------------
(***************************************************************************)
(* The size of fragments is the start value until a switch, which leaves    *)
(* Base32 for good.                                                        *)
(***************************************************************************)
StartSize ==
  dataenc = Base32 => maxfragsize_up = 100 /\ maxfraglen \in {NoBuffer, 100}

Inv == TypeOK /\ NameFits /\ StartSize /\ DefaultWhole

LEMMA InitInv == Init => Inv
<1>. SUFFICES ASSUME Init PROVE Inv
  OBVIOUS
<1>1. NameFits
  BY MaxlensAssumption DEF Init, NameFits, NoName
<1>2. TypeOK
  BY DEF Init, TypeOK, NoBuffer, NoName
<1>3. StartSize /\ DefaultWhole
  BY DEF Init, StartSize, DefaultWhole, Probe, PROBE_DATA, NoName
<1>. QED  BY <1>1, <1>2, <1>3 DEF Inv

LEMMA NextInv == Inv /\ [Next]_vars => Inv'
<1>. SUFFICES ASSUME Inv, [Next]_vars PROVE Inv'
  OBVIOUS
<1>0. /\ hostname_maxlen \in 65..255 /\ topdomain \in 3..128
      /\ dataenc \in AllCodecs /\ Base32 \in AllCodecs
      /\ maxfragsize_up \in Nat /\ maxfraglen \in Nat
      /\ Messages \subseteq 2..102
  BY MaxlensAssumption, TopdomainsAssumption, SwitchedAssumption, MessagesAssumption
     DEF Inv, TypeOK, AllCodecs
<1>1. ASSUME handshake_switch_codec PROVE Inv'
  <2>1. dataenc' \in AllCodecs /\ dataenc' # Base32
    BY <1>1, SwitchedAssumption DEF handshake_switch_codec, AllCodecs, Base32, Base64, Base128
  <2>2. maxfragsize_up' \in Nat
    BY <1>0, <1>1, <2>1, FragsizeType DEF handshake_switch_codec
  <2>3. TypeOK'
    BY <1>1, <2>2 DEF handshake_switch_codec, Inv, TypeOK
  <2>4. NameFits'
    BY <1>1 DEF handshake_switch_codec, Inv, NameFits, Roomy
  <2>5. StartSize' /\ DefaultWhole'
    BY <2>1 DEF StartSize, DefaultWhole
  <2>. QED  BY <2>3, <2>4, <2>5 DEF Inv
<1>2. ASSUME window_buffer_init PROVE Inv'
  <2>1. TypeOK'
    BY <1>0, <1>2 DEF window_buffer_init, Inv, TypeOK
  <2>2. NameFits'
    BY <1>2 DEF window_buffer_init, Inv, NameFits, Roomy
  <2>3. StartSize' /\ DefaultWhole'
    BY <1>2 DEF window_buffer_init, Inv, StartSize, DefaultWhole, Wide, Probe
  <2>. QED  BY <2>1, <2>2, <2>3 DEF Inv
<1>3. ASSUME NEW n \in Nat, NEW c \in AllCodecs, NEW h \in Headers, Send(n, c, h),
             dataenc = Base32 => c = Base32,
             dataenc = Base32 => \/ n <= 102 /\ (h = UPSTREAM_HDR => n <= 100)
                                 \/ n = PROBE_DATA /\ h = PACKET_HDR
      PROVE  Inv'
  <2>1. TypeOK'
    BY <1>0, <1>3, BuiltFits DEF Send, Inv, TypeOK
  <2>2. Roomy => hostname_maxlen - h >= topdomain + (hostname_maxlen - h) \div DNS_MAXLABEL + 2
    BY <1>0 DEF Roomy, Headers, VERSION_HDR, PACKET_HDR, UPSTREAM_HDR, DNS_MAXLABEL
  <2>3. Roomy => name'.length <= hostname_maxlen
    <3>1. Roomy => name'.length < hostname_maxlen
      BY <1>0, <1>3, <2>2, BuiltFits DEF Send
    <3>2. name'.length \in Nat
      BY <2>1 DEF TypeOK
    <3> QED BY <1>0, <3>1, <3>2
  <2>4. NameFits'
    BY <1>3, <2>3 DEF Send, NameFits, Roomy
  <2>5. StartSize'
    BY <1>3 DEF Send, Inv, StartSize
  <2>6. DefaultWhole'
    <3>1. SUFFICES ASSUME Wide, dataenc = Base32
                   PROVE  IF n = PROBE_DATA THEN name'.used >= 2 ELSE name'.used = n
      BY <1>3 DEF Send, DefaultWhole, Wide, Probe, build_hostname
    <3>. DEFINE space == Space(hostname_maxlen - h, topdomain)
    <3>2. space \in Nat /\ space >= IF h = UPSTREAM_HDR THEN 160 ELSE 164
      BY <1>0, <3>1, RoomWhenWide DEF Wide
    <3>3. c = Base32 /\ name'.used = Used(Base32, space, n)
      BY <1>3, <3>1 DEF Send, build_hostname
    <3>. HIDE DEF space
    <3>4. CASE n <= 102 /\ (h = UPSTREAM_HDR => n <= 100)
      BY <3>2, <3>3, <3>4, WholeByDefault DEF PROBE_DATA
    <3>5. CASE n = PROBE_DATA /\ h = PACKET_HDR
      BY <3>2, <3>3, <3>5, ProbeByDefault
    <3>. QED  BY <1>3, <3>1, <3>4, <3>5
  <2>. QED  BY <2>1, <2>4, <2>5, <2>6 DEF Inv
<1>4. ASSUME send_version PROVE Inv'
  BY <1>0, <1>3, <1>4 DEF send_version, VERSION_DATA, VERSION_HDR, UPSTREAM_HDR, Headers
<1>5. ASSUME send_downenctest PROVE Inv'
  BY <1>0, <1>3, <1>5 DEF send_downenctest, DOWNENC_DATA, PACKET_HDR, UPSTREAM_HDR, Headers
<1>6. ASSUME send_packet PROVE Inv'
  BY <1>0, <1>3, <1>6 DEF send_packet, PACKET_HDR, UPSTREAM_HDR, Headers
<1>7. ASSUME send_fragsize_probe PROVE Inv'
  BY <1>0, <1>3, <1>7 DEF send_fragsize_probe, PROBE_DATA, Headers
<1>8. ASSUME send_next_frag PROVE Inv'
  <2>1. PICK n \in 1..Smaller(maxfraglen, MaxData) : Send(n, dataenc, UPSTREAM_HDR)
    BY <1>8 DEF send_next_frag
  <2>2. n \in Nat /\ n <= maxfraglen
    BY <1>0 DEF Smaller, MaxData
  <2>3. dataenc = Base32 => n <= 100
    BY <2>2 DEF Inv, StartSize, NoBuffer
  <2>. QED  BY <1>0, <1>3, <2>1, <2>2, <2>3 DEF Headers
<1>9. ASSUME UNCHANGED vars PROVE Inv'
  BY <1>9 DEF vars, Inv, TypeOK, NameFits, Roomy, StartSize, DefaultWhole, Wide, Probe
<1>. QED  BY <1>1, <1>2, <1>4, <1>5, <1>6, <1>7, <1>8, <1>9 DEF Next

LEMMA SpecInv == Spec => []Inv
BY InitInv, NextInv, PTL DEF Spec

(***************************************************************************)
(* No name the client builds is longer than hostname_maxlen, for every     *)
(* limit, topdomain, codec and message or fragment (build_hostname).       *)
(***************************************************************************)
THEOREM NamesFit == Spec => [](TypeOK /\ NameFits)
<1>1. Inv => TypeOK /\ NameFits
  BY DEF Inv
<1>. QED  BY SpecInv, <1>1, PTL

(***************************************************************************)
(* With the codec of the start and room for 164 characters (Wide),          *)
(* build_hostname encodes all of every message and of every fragment that   *)
(* the start value of maxfragsize_up allows: for every limit, and every     *)
(* topdomain that leaves that room.                                        *)
(***************************************************************************)
THEOREM NothingCutByDefault == Spec => []DefaultWhole
<1>1. Inv => DefaultWhole
  BY DEF Inv
<1>. QED  BY SpecInv, <1>1, PTL
-----------------------------------------------------------------------------
(* Part 2: the exchange.                                                   *)

-----------------------------------------------------------------------------
(* Sums.                                                                   *)

LEMMA LeastElement ==
    ASSUME NEW T, T \subseteq Nat, T # {}
    PROVE  \E x \in T : \A y \in T : x <= y
<1> DEFINE R == {p \in Nat \X Nat : p[1] < p[2]}
<1>1. IsWellFoundedOn(R, Nat)
  BY NatLessThanWellFounded DEF OpToRel
<1>2. PICK x \in T : \A y \in T : ~ (<<y, x>> \in R)
  <2> HIDE DEF R
  <2> QED BY <1>1, WFMin
<1>3. ASSUME NEW y \in T PROVE x <= y
  <2>1. x \in Nat /\ y \in Nat /\ ~ (<<y, x>> \in R)
    BY <1>2
  <2> QED BY <2>1
<1> QED BY <1>2, <1>3

(* The functions that the recursive definition of SumTo asks for.           *)
Adds(f, s, n) == f = [k \in 0 .. n |-> IF k = 0 THEN 0 ELSE f[k - 1] + s[k]]

LEMMA AddsFacts ==
    ASSUME NEW f, NEW s, NEW n \in Nat, Adds(f, s, n)
    PROVE  f[0] = 0 /\ \A k \in 1 .. n : f[k] = f[k - 1] + s[k]
<1>1. \A k \in 0 .. n : f[k] = IF k = 0 THEN 0 ELSE f[k - 1] + s[k]
  BY DEF Adds
<1> QED BY <1>1

(* There is one up to every place, and two agree as far as both go.         *)
LEMMA AddsExists ==
    ASSUME NEW s, NEW n \in Nat, \A i \in 1 .. n : s[i] \in Nat
    PROVE  \E f \in [0 .. n -> Nat] : Adds(f, s, n)
<1> DEFINE T == {k \in 0 .. n : ~ \E f \in [0 .. k -> Nat] : Adds(f, s, k)}
<1>1. ASSUME T # {} PROVE FALSE
  <2>1. T \subseteq Nat
    OBVIOUS
  <2>2. PICK k \in T : \A y \in T : k <= y
    <3> HIDE DEF T
    <3> QED BY <1>1, <2>1, LeastElement
  <2>3. k \in 0 .. n /\ ~ \E f \in [0 .. k -> Nat] : Adds(f, s, k)
    OBVIOUS
  <2>4. CASE k = 0
    <3> DEFINE g == [j \in 0 .. 0 |-> 0]
    <3>1. g \in [0 .. 0 -> Nat] /\ Adds(g, s, 0)
      BY DEF Adds
    <3> QED BY <2>3, <2>4, <3>1
  <2>5. CASE k # 0
    <3>1. k - 1 \in 0 .. n /\ k - 1 \notin T /\ k - 1 \in Nat /\ k \in 1 .. n
      <4>1. k - 1 \in 0 .. n /\ ~ (k <= k - 1)
        BY <2>3, <2>5
      <4>2. k - 1 \notin T
        <5> HIDE DEF T
        <5> QED BY <2>2, <4>1
      <4> QED BY <2>3, <2>5, <4>1, <4>2
    <3>2. PICK f \in [0 .. k - 1 -> Nat] : Adds(f, s, k - 1)
      BY <3>1
    <3>3. f[0] = 0 /\ \A j \in 1 .. k - 1 : f[j] = f[j - 1] + s[j]
      <4> DEFINE l == k - 1
      <4>1. l \in Nat /\ Adds(f, s, l)
        BY <3>1, <3>2
      <4> HIDE DEF l
      <4>2. f[0] = 0 /\ \A j \in 1 .. l : f[j] = f[j - 1] + s[j]
        BY <4>1, AddsFacts
      <4> QED BY <4>2 DEF l
    <3> DEFINE g == [j \in 0 .. k |-> IF j = k THEN f[k - 1] + s[k] ELSE f[j]]
    <3>4. f[k - 1] + s[k] \in Nat
      <4>1. f[k - 1] \in Nat /\ s[k] \in Nat
        BY <3>1
      <4> QED BY <4>1
    <3>5. g \in [0 .. k -> Nat]
      BY <3>1, <3>4
    <3>6. ASSUME NEW j \in 0 .. k
          PROVE  g[j] = IF j = 0 THEN 0 ELSE g[j - 1] + s[j]
      <4>1. CASE j = 0
        BY <3>1, <3>3, <4>1
      <4>2. CASE j = k /\ j # 0
        <5>1. g[j] = f[k - 1] + s[k] /\ g[j - 1] = f[k - 1]
          BY <3>1, <4>2
        <5> QED BY <4>2, <5>1
      <4>3. CASE j # 0 /\ j # k
        <5>1. j \in 1 .. k - 1 /\ j - 1 \in 0 .. k - 1 /\ j - 1 # k /\ j - 1 \in 0 .. k
          BY <3>1, <4>3
        <5>2. g[j] = f[j] /\ g[j - 1] = f[j - 1]
          BY <4>3, <5>1
        <5> QED BY <3>3, <4>3, <5>1, <5>2
      <4> QED BY <4>1, <4>2, <4>3
    <3>7. Adds(g, s, k)
      <4>1. g = [j \in 0 .. k |-> g[j]]
        OBVIOUS
      <4> HIDE DEF g
      <4> QED BY <3>6, <4>1 DEF Adds
    <3> HIDE DEF g
    <3> QED BY <2>3, <3>5, <3>7
  <2> QED BY <2>4, <2>5
<1> QED BY <1>1

LEMMA AddsAgree ==
    ASSUME NEW s, NEW n \in Nat, NEW f, NEW k \in 0 .. n, NEW g,
           Adds(f, s, n), Adds(g, s, k)
    PROVE  f[k] = g[k]
<1> DEFINE T == {j \in 0 .. k : f[j] # g[j]}
<1>1. /\ f[0] = 0 /\ \A j \in 1 .. n : f[j] = f[j - 1] + s[j]
      /\ g[0] = 0 /\ \A j \in 1 .. k : g[j] = g[j - 1] + s[j]
  BY AddsFacts
<1>2. ASSUME T # {} PROVE FALSE
  <2>1. T \subseteq Nat
    OBVIOUS
  <2>2. PICK j \in T : \A y \in T : j <= y
    <3> HIDE DEF T
    <3> QED BY <1>2, <2>1, LeastElement
  <2>3. j \in 0 .. k /\ f[j] # g[j] /\ j # 0
    BY <1>1
  <2>4. j - 1 \in 0 .. k /\ ~ (j <= j - 1) /\ j \in 1 .. k /\ j \in 1 .. n
    BY <2>3
  <2>5. j - 1 \notin T
    <3> HIDE DEF T
    <3> QED BY <2>2, <2>4
  <2> QED BY <1>1, <2>3, <2>4, <2>5
<1> QED BY <1>2

(* The sum of no numbers, and of one more.                                 *)
LEMMA SumFacts ==
    ASSUME NEW s, NEW n \in Nat, \A i \in 1 .. n : s[i] \in Nat
    PROVE  /\ SumTo(s, n) \in Nat
           /\ n = 0 => SumTo(s, n) = 0
           /\ n > 0 => SumTo(s, n) = SumTo(s, n - 1) + s[n]
<1> DEFINE sum(k) == CHOOSE f : Adds(f, s, k)
<1>1. ASSUME NEW k \in 0 .. n
      PROVE  Adds(sum(k), s, k) /\ SumTo(s, k) = sum(k)[k]
  <2>1. SumTo(s, k) = sum(k)[k]
    BY DEF SumTo, Adds
  <2>2. \E f \in [0 .. k -> Nat] : Adds(f, s, k)
    <3>1. k \in Nat /\ \A i \in 1 .. k : s[i] \in Nat
      OBVIOUS
    <3> QED BY <3>1, AddsExists
  <2> QED BY <2>1, <2>2
<1> HIDE DEF sum
<1>2. PICK f \in [0 .. n -> Nat] : Adds(f, s, n)
  BY AddsExists
<1>3. ASSUME NEW k \in 0 .. n PROVE SumTo(s, k) = f[k]
  BY <1>1, <1>2, AddsAgree
<1>4. f[0] = 0 /\ \A k \in 1 .. n : f[k] = f[k - 1] + s[k]
  BY <1>2, AddsFacts
<1>5. SumTo(s, n) \in Nat
  BY <1>3
<1>6. ASSUME n > 0 PROVE SumTo(s, n) = SumTo(s, n - 1) + s[n]
  <2>1. n \in 0 .. n /\ n - 1 \in 0 .. n /\ n \in 1 .. n
    BY <1>6
  <2> QED BY <1>3, <1>4, <2>1
<1>7. ASSUME n = 0 PROVE SumTo(s, n) = 0
  BY <1>3, <1>4, <1>7
<1> QED BY <1>5, <1>6, <1>7

(* What holds at the start and from each place to the next holds up to the  *)
(* end.                                                                    *)
Climbs(T, a, b) == a \in T /\ \A k \in a .. b : k < b /\ k \in T => k + 1 \in T
Holds(T, a, b) == \A k \in a .. b : k \in T

LEMMA UpTo ==
    ASSUME NEW a \in Nat, NEW b \in Nat, NEW T, Climbs(T, a, b)
    PROVE  Holds(T, a, b)
<1> DEFINE Bad == {k \in a .. b : k \notin T}
<1>1. ASSUME Bad # {} PROVE FALSE
  <2>1. Bad \subseteq Nat
    OBVIOUS
  <2>2. PICK k \in Bad : \A y \in Bad : k <= y
    <3> HIDE DEF Bad
    <3> QED BY <1>1, <2>1, LeastElement
  <2>3. k \in a .. b /\ k \notin T
    OBVIOUS
  <2>4. k # a
    BY <2>3 DEF Climbs
  <2>5. k - 1 \in a .. b /\ k - 1 < b /\ ~ (k <= k - 1) /\ k - 1 + 1 = k
    BY <2>3, <2>4
  <2>6. k - 1 \notin Bad
    <3> HIDE DEF Bad
    <3> QED BY <2>2, <2>5
  <2> QED BY <2>3, <2>5, <2>6 DEF Climbs
<1> QED BY <1>1 DEF Holds

-----------------------------------------------------------------------------
(* Words.                                                                  *)

LEMMA StartFacts ==
    ASSUME NEW w, NEW n \in Nat, \A i \in 1 .. n : w[i] \in Nat
    PROVE  /\ Start(w, 1) = 0
           /\ \A i \in 1 .. n + 1 : Start(w, i) \in Nat
           /\ \A i \in 1 .. n : Start(w, i + 1) = Start(w, i) + w[i] + 1
<1>1. ASSUME NEW k \in 0 .. n
      PROVE  /\ SumTo(w, k) \in Nat
             /\ k = 0 => SumTo(w, k) = 0
             /\ k > 0 => SumTo(w, k) = SumTo(w, k - 1) + w[k]
  <2>1. k \in Nat /\ \A i \in 1 .. k : w[i] \in Nat
    OBVIOUS
  <2> QED BY <2>1, SumFacts
<1>2. Start(w, 1) = 0
  <2>1. SumTo(w, 0) = 0
    BY <1>1
  <2> QED BY <2>1 DEF Start
<1>3. ASSUME NEW i \in 1 .. n + 1 PROVE Start(w, i) \in Nat
  <2>1. i - 1 \in 0 .. n
    OBVIOUS
  <2>2. SumTo(w, i - 1) \in Nat
    BY <1>1, <2>1
  <2> QED BY <2>2 DEF Start
<1>4. ASSUME NEW i \in 1 .. n PROVE Start(w, i + 1) = Start(w, i) + w[i] + 1
  <2>1. i \in 0 .. n /\ i > 0 /\ i + 1 - 1 = i
    OBVIOUS
  <2>2. SumTo(w, i) = SumTo(w, i - 1) + w[i]
    BY <1>1, <2>1
  <2>3. SumTo(w, i - 1) \in Nat /\ w[i] \in Nat
    <3>1. i - 1 \in 0 .. n
      OBVIOUS
    <3> QED BY <1>1, <3>1
  <2>4. Start(w, i + 1) = SumTo(w, i) + i /\ Start(w, i) = SumTo(w, i - 1) + i - 1
    BY <2>1 DEF Start
  <2> QED BY <2>2, <2>3, <2>4
<1> QED BY <1>2, <1>3, <1>4

(* A word ends before the next ones begin.                                 *)
LEMMA WordsApart ==
    ASSUME NEW w, NEW n \in Nat, \A i \in 1 .. n : w[i] \in Nat, NEW i \in 1 .. n
    PROVE  \A j \in i + 1 .. n + 1 : Start(w, i) + w[i] + 1 <= Start(w, j)
<1> DEFINE T == {j \in i + 1 .. n + 1 : Start(w, i) + w[i] + 1 <= Start(w, j)}
<1>1. /\ \A j \in 1 .. n + 1 : Start(w, j) \in Nat
      /\ \A j \in 1 .. n : Start(w, j + 1) = Start(w, j) + w[j] + 1
  BY StartFacts
<1>2. i + 1 \in T
  <2>1. i + 1 \in i + 1 .. n + 1 /\ Start(w, i + 1) \in Nat
    BY <1>1
  <2>2. Start(w, i + 1) = Start(w, i) + w[i] + 1
    BY <1>1
  <2> QED BY <2>1, <2>2
<1>3. ASSUME NEW k \in i + 1 .. n + 1, k < n + 1, k \in T PROVE k + 1 \in T
  <2>1. k \in 1 .. n /\ k \in 1 .. n + 1 /\ k + 1 \in i + 1 .. n + 1
    BY <1>3
  <2>2. Start(w, k + 1) = Start(w, k) + w[k] + 1 /\ w[k] \in Nat /\ Start(w, k) \in Nat
    BY <1>1, <2>1
  <2>3. Start(w, i) + w[i] + 1 <= Start(w, k) /\ Start(w, i) \in Nat /\ w[i] \in Nat
    BY <1>1, <1>3
  <2>4. Start(w, i) + w[i] + 1 <= Start(w, k + 1)
    BY <2>2, <2>3
  <2> QED BY <2>1, <2>4
<1>4. i + 1 \in Nat /\ n + 1 \in Nat
  OBVIOUS
<1> HIDE DEF T
<1>5. Climbs(T, i + 1, n + 1)
  BY <1>2, <1>3 DEF Climbs
<1>6. Holds(T, i + 1, n + 1)
  BY <1>4, <1>5, UpTo
<1> QED BY <1>6 DEF Holds, T

(* Where words begin depends on the words before them.                     *)
LEMMA SameStarts ==
    ASSUME NEW v, NEW w, NEW n \in Nat, \A i \in 1 .. n : w[i] \in Nat /\ v[i] = w[i]
    PROVE  \A i \in 1 .. n + 1 : Start(v, i) = Start(w, i)
<1> DEFINE T == {i \in 1 .. n + 1 : Start(v, i) = Start(w, i)}
<1>1. /\ Start(w, 1) = 0 /\ Start(v, 1) = 0
      /\ \A i \in 1 .. n : Start(w, i + 1) = Start(w, i) + w[i] + 1
      /\ \A i \in 1 .. n : Start(v, i + 1) = Start(v, i) + w[i] + 1
  BY StartFacts
<1>2. 1 \in T
  BY <1>1
<1>3. ASSUME NEW k \in 1 .. n + 1, k < n + 1, k \in T PROVE k + 1 \in T
  <2>1. k \in 1 .. n /\ k + 1 \in 1 .. n + 1
    BY <1>3
  <2> QED BY <1>1, <1>3, <2>1
<1>4. 1 \in Nat /\ n + 1 \in Nat
  OBVIOUS
<1> HIDE DEF T
<1>5. Climbs(T, 1, n + 1)
  BY <1>2, <1>3 DEF Climbs
<1>6. Holds(T, 1, n + 1)
  BY <1>4, <1>5, UpTo
<1> QED BY <1>6 DEF Holds, T

LEMMA FullWords ==
    ASSUME NEW w, NEW q \in Nat, \A i \in 1 .. q : w[i] = 59
    PROVE  \A i \in 1 .. q + 1 : Start(w, i) = 60 * (i - 1)
<1> DEFINE T == {i \in 1 .. q + 1 : Start(w, i) = 60 * (i - 1)}
<1>1. Start(w, 1) = 0 /\ \A i \in 1 .. q : Start(w, i + 1) = Start(w, i) + w[i] + 1
  BY StartFacts
<1>2. 1 \in T
  BY <1>1
<1>3. ASSUME NEW k \in 1 .. q + 1, k < q + 1, k \in T PROVE k + 1 \in T
  <2>1. k \in 1 .. q /\ k + 1 \in 1 .. q + 1
    BY <1>3
  <2>2. Start(w, k + 1) = 60 * (k - 1) + 59 + 1
    BY <1>1, <1>3, <2>1
  <2> QED BY <2>1, <2>2
<1>4. 1 \in Nat /\ q + 1 \in Nat
  OBVIOUS
<1> HIDE DEF T
<1>5. Climbs(T, 1, q + 1)
  BY <1>2, <1>3 DEF Climbs
<1>6. Holds(T, 1, q + 1)
  BY <1>4, <1>5, UpTo
<1> QED BY <1>6 DEF Holds, T

(* A text that ends with a dot: n characters, a dot behind every 59 and at  *)
(* the end, then more words.                                               *)
Whole(n)  == n \div 60
Rest(n)   == n % 60
Blocks(n) == IF Rest(n) > 0 THEN Whole(n) + 1 ELSE Whole(n)

LEMMA BlocksFacts ==
    ASSUME NEW n \in Nat
    PROVE  Whole(n) \in Nat /\ Rest(n) \in 0 .. 59 /\ n = 60 * Whole(n) + Rest(n)
           /\ Blocks(n) \in Nat
BY DEF Whole, Rest, Blocks

LEMMA Joined ==
    ASSUME NEW s \in Seq(Nat), NEW t \in Seq(Nat)
    PROVE  /\ s \o t \in Seq(Nat) /\ Len(s \o t) = Len(s) + Len(t)
           /\ \A i \in 1 .. Len(s) : (s \o t)[i] = s[i]
           /\ \A i \in 1 .. Len(t) : (s \o t)[Len(s) + i] = t[i]
OBVIOUS

AsWords(w, n, tail) ==
    /\ w \in Seq(Nat) /\ Len(w) = Blocks(n) + Len(tail)
    /\ \A i \in 1 .. Whole(n) : w[i] = 59
    /\ Rest(n) > 0 => w[Whole(n) + 1] = Rest(n) - 1
    /\ \A j \in 1 .. Len(tail) : w[Blocks(n) + j] = tail[j]

LEMMA WordsAre ==
    ASSUME NEW n \in Nat, NEW tail \in Seq(Nat)
    PROVE  AsWords(Words(n, tail), n, tail)
<1> DEFINE q == Whole(n)
           r == Rest(n)
           b == IF r > 0 THEN 1 ELSE 0
           f == [i \in 1 .. q |-> 59]
           g == IF r > 0 THEN <<r - 1>> ELSE << >>
           h == f \o g
           w == h \o tail
<1>1. q \in Nat /\ r \in 0 .. 59 /\ b \in {0, 1} /\ Blocks(n) = q + b
  <2>1. q \in Nat /\ r \in 0 .. 59
    BY BlocksFacts
  <2>2. Blocks(n) = IF r > 0 THEN q + 1 ELSE q
    BY DEF Blocks
  <2> HIDE DEF q, r
  <2> QED BY <2>1, <2>2
<1>2. Words(n, tail) = w
  <2>1. DNS_MAXLABEL + 1 = 60 /\ DNS_MAXLABEL = 59
    BY DEF DNS_MAXLABEL
  <2> QED BY <2>1 DEF Words, Whole, Rest
<1> HIDE DEF q, r
<1>3. f \in Seq(Nat) /\ Len(f) = q /\ \A i \in 1 .. q : f[i] = 59
  BY <1>1
<1>4. g \in Seq(Nat) /\ Len(g) = b /\ (r > 0 => b = 1 /\ g[1] = r - 1)
  <2>1. CASE r > 0
    <3>1. r - 1 \in Nat /\ b = 1 /\ g = <<r - 1>>
      BY <1>1, <2>1
    <3> HIDE DEF g, b
    <3> QED BY <3>1
  <2>2. CASE ~ (r > 0)
    BY <2>2
  <2> QED BY <2>1, <2>2
<1> HIDE DEF f, g, b
<1>5. /\ h \in Seq(Nat) /\ Len(h) = q + b
      /\ \A i \in 1 .. q : h[i] = f[i]
      /\ \A i \in 1 .. b : h[q + i] = g[i]
  <2>1. /\ h \in Seq(Nat) /\ Len(h) = Len(f) + Len(g)
        /\ \A i \in 1 .. Len(f) : h[i] = f[i]
        /\ \A i \in 1 .. Len(g) : h[Len(f) + i] = g[i]
    BY <1>3, <1>4, Joined
  <2> QED BY <1>3, <1>4, <2>1
<1> HIDE DEF h
<1>6. /\ w \in Seq(Nat) /\ Len(w) = q + b + Len(tail)
      /\ \A i \in 1 .. q + b : w[i] = h[i]
      /\ \A i \in 1 .. Len(tail) : w[q + b + i] = tail[i]
  <2>1. /\ w \in Seq(Nat) /\ Len(w) = Len(h) + Len(tail)
        /\ \A i \in 1 .. Len(h) : w[i] = h[i]
        /\ \A i \in 1 .. Len(tail) : w[Len(h) + i] = tail[i]
    BY <1>5, Joined
  <2> QED BY <1>5, <2>1
<1> HIDE DEF w
<1>7. ASSUME NEW i \in 1 .. q PROVE w[i] = 59
  <2>1. i \in 1 .. q + b
    BY <1>1
  <2> QED BY <1>3, <1>5, <1>6, <2>1
<1>8. ASSUME r > 0 PROVE w[q + 1] = r - 1
  <2>1. b = 1 /\ 1 \in 1 .. b /\ q + 1 \in 1 .. q + b
    BY <1>1, <1>4, <1>8
  <2> QED BY <1>4, <1>5, <1>6, <1>8, <2>1
<1>9. AsWords(w, n, tail)
  BY <1>1, <1>6, <1>7, <1>8 DEF AsWords, q, r
<1> QED BY <1>2, <1>9

LEMMA BlocksStart ==
    ASSUME NEW n \in Nat, NEW tail \in Seq(Nat)
    PROVE  /\ Start(Words(n, tail), Blocks(n) + 1) = n
           /\ \A i \in 1 .. Blocks(n) : Start(Words(n, tail), i) = 60 * (i - 1)
<1>a. /\ \A i \in 1 .. Whole(n) : Words(n, tail)[i] = 59
      /\ Rest(n) > 0 => Words(n, tail)[Whole(n) + 1] = Rest(n) - 1
  <2>1. AsWords(Words(n, tail), n, tail)
    BY WordsAre
  <2> QED BY <2>1 DEF AsWords
<1> DEFINE q == Whole(n)
           r == Rest(n)
           w == Words(n, tail)
<1>1. q \in Nat /\ r \in 0 .. 59 /\ n = 60 * q + r
      /\ Blocks(n) = IF r > 0 THEN q + 1 ELSE q
  BY BlocksFacts DEF Blocks
<1>2. /\ \A i \in 1 .. q : w[i] = 59
      /\ r > 0 => w[q + 1] = r - 1
  BY <1>a
<1> HIDE DEF q, r, w
<1>3. \A i \in 1 .. q + 1 : Start(w, i) = 60 * (i - 1)
  BY <1>1, <1>2, FullWords
<1>4. Start(w, q + 1) = 60 * q
  <2>1. q + 1 \in 1 .. q + 1 /\ q + 1 - 1 = q
    BY <1>1
  <2>2. Start(w, q + 1) = 60 * (q + 1 - 1)
    BY <1>1, <1>3, <2>1
  <2> QED BY <2>1, <2>2
<1>5. ASSUME r > 0
      PROVE  /\ Start(w, Blocks(n) + 1) = n
             /\ \A i \in 1 .. Blocks(n) : Start(w, i) = 60 * (i - 1)
  <2> DEFINE m == q + 1
  <2>1. \A i \in 1 .. m : w[i] \in Nat
    <3>1. \A i \in 1 .. m : i \in 1 .. q \/ i = q + 1
      BY <1>1
    <3>2. r - 1 \in Nat
      BY <1>1, <1>5
    <3> QED BY <1>2, <1>5, <3>1, <3>2
  <2>2. m \in Nat /\ m \in 1 .. m
    BY <1>1
  <2>3. Start(w, m + 1) = Start(w, m) + w[m] + 1
    <3> HIDE DEF m
    <3> QED BY <2>1, <2>2, StartFacts
  <2>4. Start(w, m + 1) = 60 * q + (r - 1) + 1
    BY <1>2, <1>4, <1>5, <2>3
  <2>5. Start(w, Blocks(n) + 1) = n
    BY <1>1, <1>5, <2>4
  <2>6. \A i \in 1 .. Blocks(n) : Start(w, i) = 60 * (i - 1)
    BY <1>1, <1>3, <1>5
  <2> QED BY <2>5, <2>6
<1>6. ASSUME ~ (r > 0)
      PROVE  /\ Start(w, Blocks(n) + 1) = n
             /\ \A i \in 1 .. Blocks(n) : Start(w, i) = 60 * (i - 1)
  <2>1. \A i \in 1 .. q : i \in 1 .. q + 1
    BY <1>1
  <2>2. Start(w, Blocks(n) + 1) = n
    BY <1>1, <1>4, <1>6
  <2>3. \A i \in 1 .. Blocks(n) : Start(w, i) = 60 * (i - 1)
    BY <1>1, <1>3, <1>6, <2>1
  <2> QED BY <2>2, <2>3
<1> QED BY <1>5, <1>6 DEF w

(* What readname and putname may count on: words that are neither empty nor *)
(* too long.                                                               *)
Legal(w) ==
    /\ w \in Seq(Nat) /\ Len(w) >= 1
    /\ \A i \in 1 .. Len(w) : w[i] \in Nat /\ 1 <= w[i] /\ w[i] <= 63

(* A word ends in the text, and the last one with the text.                 *)
LEMMA WordsEnd ==
    ASSUME NEW w, Legal(w)
    PROVE  /\ \A i \in 1 .. Len(w) : Start(w, i) \in Nat /\ Start(w, i) + w[i] <= TextLength(w)
           /\ \A i \in 1 .. Len(w) : Start(w, i) <= Start(w, Len(w))
           /\ TextLength(w) = Start(w, Len(w)) + w[Len(w)] /\ TextLength(w) \in Nat
<1> DEFINE n == Len(w)
<1>1. n \in Nat /\ n >= 1 /\ \A i \in 1 .. n : w[i] \in Nat /\ 1 <= w[i] /\ w[i] <= 63
  BY DEF Legal
<1>2. \A i \in 1 .. n : w[i] \in Nat
  BY <1>1
<1>3. TextLength(w) = Start(w, n + 1) - 1
  BY DEF TextLength
<1> HIDE DEF n
<1>4. /\ \A i \in 1 .. n + 1 : Start(w, i) \in Nat
      /\ \A i \in 1 .. n : Start(w, i + 1) = Start(w, i) + w[i] + 1
  BY <1>1, <1>2, StartFacts
<1>5. n \in 1 .. n /\ n + 1 \in 1 .. n + 1 /\ n \in 1 .. n + 1
  BY <1>1
<1>6. TextLength(w) = Start(w, n) + w[n] /\ TextLength(w) \in Nat
  <2>1. Start(w, n + 1) = Start(w, n) + w[n] + 1 /\ Start(w, n) \in Nat /\ w[n] \in Nat
    BY <1>2, <1>4, <1>5
  <2> QED BY <1>3, <2>1
<1>7. ASSUME NEW i \in 1 .. n
      PROVE  Start(w, i) \in Nat /\ Start(w, i) + w[i] <= TextLength(w) /\ Start(w, i) <= Start(w, n)
  <2>1. \A j \in i + 1 .. n + 1 : Start(w, i) + w[i] + 1 <= Start(w, j)
    BY <1>1, <1>2, WordsApart
  <2>2. Start(w, i) \in Nat /\ w[i] \in Nat /\ Start(w, n) \in Nat /\ Start(w, n + 1) \in Nat
    BY <1>1, <1>2, <1>4, <1>5
  <2>3. Start(w, i) + w[i] + 1 <= Start(w, n + 1)
    BY <1>1, <2>1
  <2>4. Start(w, i) + w[i] <= TextLength(w)
    BY <1>3, <2>2, <2>3
  <2>5. Start(w, i) <= Start(w, n)
    <3>1. CASE i = n
      BY <2>2, <3>1
    <3>2. CASE i # n
      <4>1. n \in i + 1 .. n + 1
        BY <1>1, <3>2
      <4> QED BY <2>1, <2>2, <4>1
    <3> QED BY <3>1, <3>2
  <2> QED BY <2>2, <2>4, <2>5
<1> QED BY <1>6, <1>7 DEF n

(***************************************************************************)
(* A name that fits the buffer of readname is read as it was written: the   *)
(* last word begins where readname still begins words, and no word is cut.  *)
(***************************************************************************)
LEMMA ReadWhole ==
    ASSUME NEW w, Legal(w), NEW room \in Nat,
           TextLength(w) <= 254, TextLength(w) <= room,
           TextLength(w) < 254 \/ w[Len(w)] > 1
    PROVE  readname(putname(w, room), 255) = w
<1> DEFINE n == Len(w)
           wire == Append(w, 0)
<1>1. n \in Nat /\ n >= 1 /\ w \in Seq(Nat) /\ \A i \in 1 .. n : w[i] \in Nat /\ 1 <= w[i] /\ w[i] <= 63
  BY DEF Legal
<1>2. /\ \A i \in 1 .. n : Start(w, i) \in Nat /\ Start(w, i) + w[i] <= TextLength(w)
      /\ \A i \in 1 .. n : Start(w, i) <= Start(w, n)
      /\ TextLength(w) = Start(w, n) + w[n] /\ TextLength(w) \in Nat
  BY WordsEnd
<1>3. /\ Len(wire) = n + 1 /\ \A i \in 1 .. n : wire[i] = w[i]
      /\ w = [i \in 1 .. n |-> w[i]]
  BY <1>1
<1>4. putname(w, room) = wire
  <2>1. \A i \in 1 .. n : w[i] <= MAXWORD /\ Start(w, i) + w[i] <= room
    <3>1. ASSUME NEW i \in 1 .. n PROVE w[i] <= MAXWORD /\ Start(w, i) + w[i] <= room
      <4>1. w[i] \in Nat /\ w[i] <= 63 /\ Start(w, i) \in Nat /\ Start(w, i) + w[i] <= TextLength(w)
        BY <1>1, <1>2
      <4> QED BY <1>2, <4>1 DEF MAXWORD
    <3> QED BY <3>1
  <2> QED BY <2>1 DEF putname
<1> HIDE DEF n, wire
<1>5. \A i \in 1 .. n : Start(wire, i) = Start(w, i)
  <2>1. \A i \in 1 .. n : w[i] \in Nat /\ wire[i] = w[i]
    BY <1>1, <1>3
  <2>2. \A i \in 1 .. n + 1 : Start(wire, i) = Start(w, i)
    BY <1>1, <2>1, SameStarts
  <2> QED BY <1>1, <2>2
<1>6. Start(w, n) <= 252
  <2>1. Start(w, n) \in Nat /\ w[n] \in Nat /\ w[n] >= 1 /\ w[n] = w[Len(w)]
    BY <1>1, <1>2 DEF n
  <2> QED BY <1>2, <2>1
<1> DEFINE begun == {i \in 1 .. Len(wire) - 1 : Start(wire, i) < 255 - 2}
           words == [i \in begun |-> Smaller(wire[i], 255 - 1 - Start(wire, i))]
<1>7. begun = 1 .. n
  <2>1. Len(wire) - 1 = n
    BY <1>1, <1>3
  <2>2. ASSUME NEW i \in 1 .. n PROVE Start(wire, i) < 255 - 2
    <3>1. Start(w, i) \in Nat /\ Start(w, i) <= Start(w, n) /\ Start(w, n) \in Nat
      BY <1>1, <1>2
    <3> QED BY <1>5, <1>6, <3>1
  <2> QED BY <2>1, <2>2
<1>8. ASSUME NEW i \in 1 .. n
      PROVE  Smaller(wire[i], 255 - 1 - Start(wire, i)) = w[i]
  <2>1. w[i] \in Nat /\ w[i] <= 63 /\ Start(w, i) \in Nat /\ Start(w, i) + w[i] <= TextLength(w)
    BY <1>1, <1>2
  <2>2. w[i] <= 255 - 1 - Start(w, i)
    BY <1>2, <2>1
  <2>3. wire[i] = w[i] /\ Start(wire, i) = Start(w, i)
    BY <1>3, <1>5
  <2> QED BY <2>2, <2>3 DEF Smaller
<1>9. words = w
  BY <1>3, <1>7, <1>8
<1>10. ~ (Cardinality(begun) < Len(wire) - 1)
  <2>1. Cardinality(1 .. n) = n
    BY <1>1, FS_Interval
  <2>2. Cardinality(begun) = n
    <3> HIDE DEF begun
    <3> QED BY <1>7, <2>1
  <2>3. Len(wire) - 1 = n
    BY <1>1, <1>3
  <2> HIDE DEF begun
  <2> QED BY <1>1, <2>2, <2>3
<1>11. readname(wire, 255) = words \o <<>>
  BY <1>10 DEF readname
<1>12. w \o <<>> = w
  BY <1>1
<1> QED BY <1>4, <1>9, <1>11, <1>12

(* A text with its last dot, of x characters without the dots.             *)
LEMMA EndedFacts ==
    ASSUME NEW x \in Nat, x >= 1
    PROVE  /\ Ended(x) \in Nat /\ Rest(Ended(x)) # 1 /\ Blocks(Ended(x)) >= 1
           /\ Ended(x) = x + Blocks(Ended(x)) /\ Ended(x) <= x + x \div 59 + 1
<1> DEFINE a == x \div 59
           b == x % 59
<1>1. a \in Nat /\ b \in 0 .. 58 /\ x = 59 * a + b
  OBVIOUS
<1>2. Ended(x) = IF b = 0 THEN x + a ELSE x + a + 1
  BY DEF Ended, Dotted, DNS_MAXLABEL
<1> HIDE DEF a, b
<1>3. CASE b = 0
  <2>1. Ended(x) = 60 * a /\ Ended(x) = x + a /\ a >= 1
    BY <1>1, <1>2, <1>3
  <2>2. (60 * a) \div 60 = a /\ (60 * a) % 60 = 0
    BY <1>1
  <2>3. Whole(Ended(x)) = a /\ Rest(Ended(x)) = 0
    BY <2>1, <2>2 DEF Whole, Rest
  <2>4. Blocks(Ended(x)) = a
    BY <2>3 DEF Blocks
  <2>5. Ended(x) \in Nat /\ Ended(x) <= x + a + 1
    BY <1>1, <2>1
  <2> QED BY <2>1, <2>3, <2>4, <2>5 DEF a
<1>4. CASE b # 0
  <2>1. Ended(x) = 60 * a + (b + 1) /\ Ended(x) = x + a + 1 /\ b + 1 \in 2 .. 59
    BY <1>1, <1>2, <1>4
  <2>2. ASSUME NEW c \in 2 .. 59
        PROVE  (60 * a + c) \div 60 = a /\ (60 * a + c) % 60 = c
    BY <1>1
  <2>3. Whole(Ended(x)) = a /\ Rest(Ended(x)) = b + 1
    BY <2>1, <2>2 DEF Whole, Rest
  <2>4. Blocks(Ended(x)) = a + 1
    BY <2>1, <2>3 DEF Blocks
  <2>5. Ended(x) \in Nat /\ Ended(x) <= x + a + 1 /\ b + 1 # 1 /\ a + 1 >= 1 /\ x + (a + 1) = x + a + 1
    BY <1>1, <1>4, <2>1
  <2> QED BY <2>1, <2>3, <2>4, <2>5 DEF a
<1> QED BY <1>3, <1>4

(* The words behind the last dot begin n characters later.                 *)
LEMMA TailStart ==
    ASSUME NEW n \in Nat, NEW tail \in Seq(Nat)
    PROVE  \A j \in 1 .. Len(tail) + 1 :
               Start(Words(n, tail), Blocks(n) + j) = n + Start(tail, j)
<1> DEFINE w == Words(n, tail)
           B == Blocks(n)
           m == Len(tail)
           T == {j \in 1 .. m + 1 : Start(w, B + j) = n + Start(tail, j)}
<1>1. /\ w \in Seq(Nat) /\ Len(w) = B + m /\ B \in Nat /\ m \in Nat
      /\ \A j \in 1 .. m : w[B + j] = tail[j]
      /\ Start(w, B + 1) = n
  <2>1. AsWords(w, n, tail)
    BY WordsAre
  <2>2. B \in Nat
    BY BlocksFacts
  <2>4. m \in Nat
    OBVIOUS
  <2> HIDE DEF w, B
  <2>3. Start(w, B + 1) = n
    BY BlocksStart DEF w, B
  <2>5. /\ w \in Seq(Nat) /\ Len(w) = B + m
        /\ \A j \in 1 .. m : w[B + j] = tail[j]
    BY <2>1 DEF AsWords, B
  <2> QED BY <2>2, <2>3, <2>4, <2>5
<1> HIDE DEF w, B
<1>2. \A i \in 1 .. B + m : w[i] \in Nat
  BY <1>1
<1>3. \A i \in 1 .. m : tail[i] \in Nat
  OBVIOUS
<1> HIDE DEF m
<1>4. \A i \in 1 .. B + m : Start(w, i + 1) = Start(w, i) + w[i] + 1
  <2>1. B + m \in Nat
    BY <1>1
  <2> QED BY <1>2, <2>1, StartFacts
<1>5. /\ Start(tail, 1) = 0 /\ \A i \in 1 .. m + 1 : Start(tail, i) \in Nat
      /\ \A i \in 1 .. m : Start(tail, i + 1) = Start(tail, i) + tail[i] + 1
  BY <1>1, <1>3, StartFacts
<1>6. 1 \in T
  BY <1>1, <1>5
<1>7. ASSUME NEW k \in 1 .. m + 1, k < m + 1, k \in T PROVE k + 1 \in T
  <2>1. k \in 1 .. m /\ k + 1 \in 1 .. m + 1 /\ B + k \in 1 .. B + m /\ B + k + 1 = B + (k + 1)
    BY <1>1, <1>7
  <2>2. Start(w, B + k) = n + Start(tail, k)
    BY <1>7
  <2>3. Start(w, B + k + 1) = Start(w, B + k) + w[B + k] + 1
    BY <1>4, <2>1
  <2>4. w[B + k] = tail[k] /\ tail[k] \in Nat /\ Start(tail, k) \in Nat
        /\ Start(tail, k + 1) = Start(tail, k) + tail[k] + 1
    BY <1>1, <1>3, <1>5, <2>1
  <2>5. Start(w, B + (k + 1)) = n + Start(tail, k + 1)
    <3>1. Start(w, B + (k + 1)) = (n + Start(tail, k)) + tail[k] + 1
      BY <2>1, <2>2, <2>3, <2>4
    <3> QED BY <2>4, <3>1
  <2> QED BY <2>1, <2>5
<1>8. 1 \in Nat /\ m + 1 \in Nat
  BY <1>1
<1> HIDE DEF T
<1>9. Climbs(T, 1, m + 1)
  BY <1>6, <1>7 DEF Climbs
<1>10. Holds(T, 1, m + 1)
  BY <1>8, <1>9, UpTo
<1> QED BY <1>10 DEF Holds, T, m, w, B

LEMMA WordsLegal ==
    ASSUME NEW n \in Nat, NEW tail, Legal(tail), Rest(n) # 1
    PROVE  /\ Legal(Words(n, tail))
           /\ TextLength(Words(n, tail)) = n + TextLength(tail)
           /\ Words(n, tail)[Len(Words(n, tail))] = tail[Len(tail)]
<1> DEFINE w == Words(n, tail)
           B == Blocks(n)
           m == Len(tail)
<1>1. tail \in Seq(Nat) /\ m \in Nat /\ m >= 1
      /\ \A i \in 1 .. m : tail[i] \in Nat /\ 1 <= tail[i] /\ tail[i] <= 63
  BY DEF Legal
<1>2. /\ Whole(n) \in Nat /\ Rest(n) \in 0 .. 59 /\ B \in Nat
      /\ B = IF Rest(n) > 0 THEN Whole(n) + 1 ELSE Whole(n)
  BY BlocksFacts DEF Blocks
<1>3. AsWords(w, n, tail)
  BY <1>1, WordsAre
<1>4. \A j \in 1 .. m + 1 : Start(w, B + j) = n + Start(tail, j)
  BY <1>1, TailStart
<1>8. \A i \in 1 .. m + 1 : Start(tail, i) \in Nat
  <2>1. \A i \in 1 .. m : tail[i] \in Nat
    BY <1>1
  <2> HIDE DEF m
  <2> QED BY <1>1, <2>1, StartFacts
<1>9. TextLength(w) = Start(w, Len(w) + 1) - 1 /\ TextLength(tail) = Start(tail, m + 1) - 1
  BY DEF TextLength
<1>a. /\ w \in Seq(Nat) /\ Len(w) = B + m
      /\ \A i \in 1 .. Whole(n) : w[i] = 59
      /\ Rest(n) > 0 => w[Whole(n) + 1] = Rest(n) - 1
      /\ \A j \in 1 .. m : w[B + j] = tail[j]
  BY <1>3 DEF AsWords
<1>b. w[Len(w)] = tail[m]
  <2> HIDE DEF w, B, m
  <2>1. m \in 1 .. m
    BY <1>1
  <2> QED BY <1>a, <2>1
<1> HIDE DEF w, B, m
<1>5. ASSUME NEW i \in 1 .. B + m
      PROVE  w[i] \in Nat /\ 1 <= w[i] /\ w[i] <= 63
  <2>1. CASE i <= Whole(n)
    <3>1. i \in 1 .. Whole(n)
      BY <1>2, <2>1
    <3> QED BY <1>a, <3>1
  <2>2. CASE i = Whole(n) + 1 /\ Rest(n) > 0
    <3>1. Rest(n) - 1 \in Nat /\ 1 <= Rest(n) - 1 /\ Rest(n) - 1 <= 63
      BY <1>2, <2>2
    <3>2. w[i] = Rest(n) - 1
      BY <1>a, <2>2
    <3> QED BY <3>1, <3>2
  <2>3. CASE i > B
    <3> DEFINE j == i - B
    <3>1. j \in 1 .. m /\ B + j = i
      BY <1>1, <1>2, <2>3
    <3> HIDE DEF j
    <3>2. w[i] = tail[j]
      BY <1>a, <3>1
    <3> QED BY <1>1, <3>1, <3>2
  <2>4. i <= Whole(n) \/ (i = Whole(n) + 1 /\ Rest(n) > 0) \/ i > B
    BY <1>1, <1>2
  <2> QED BY <2>1, <2>2, <2>3, <2>4
<1>6. Legal(w)
  BY <1>1, <1>2, <1>5, <1>a DEF Legal
<1>7. TextLength(w) = n + TextLength(tail)
  <2>1. m + 1 \in 1 .. m + 1
    BY <1>1
  <2>2. Start(w, B + (m + 1)) = n + Start(tail, m + 1) /\ Start(tail, m + 1) \in Nat
    BY <1>4, <1>8, <2>1
  <2>3. Len(w) + 1 = B + (m + 1)
    <3>1. Len(w) = B + m
      BY <1>a
    <3>2. B \in Nat /\ m \in Nat
      <4>1. B \in Nat
        BY <1>2
      <4>2. m \in Nat
        BY <1>1
      <4> QED BY <4>1, <4>2
    <3>3. B + m + 1 = B + (m + 1)
      BY <3>2
    <3> QED BY <3>1, <3>3
  <2> QED BY <1>9, <2>2, <2>3
<1> QED BY <1>6, <1>7, <1>b DEF w, m

(* Texts of one, two and three words.                                      *)
LEMMA OneWord ==
    ASSUME NEW a \in Nat,
           1 <= a, a <= 63
    PROVE  Legal(<<a>>) /\ TextLength(<<a>>) = a
<1>1. Legal(<<a>>)
  BY DEF Legal
<1>2. TextLength(<<a>>) = a
  <2> DEFINE w == <<a>>
  <2>1. \A i \in 1 .. 1 : w[i] \in Nat
    OBVIOUS
  <2>2. Len(w) = 1 /\ w[1] = a
    OBVIOUS
  <2> HIDE DEF w
  <2>3. Start(w, 1) = 0 /\ Start(w, 1 + 1) = Start(w, 1) + w[1] + 1
    BY <2>1, StartFacts
  <2>4. TextLength(w) = a
    BY <2>2, <2>3 DEF TextLength
  <2> QED BY <2>4 DEF w
<1> QED BY <1>1, <1>2

LEMMA TwoWords ==
    ASSUME NEW a \in Nat, NEW b \in Nat,
           1 <= a, a <= 63, 1 <= b, b <= 63
    PROVE  Legal(<<a, b>>) /\ TextLength(<<a, b>>) = a + b + 1
<1>1. Legal(<<a, b>>)
  BY DEF Legal
<1>2. TextLength(<<a, b>>) = a + b + 1
  <2> DEFINE w == <<a, b>>
  <2>1. \A i \in 1 .. 2 : w[i] \in Nat
    OBVIOUS
  <2>2. Len(w) = 2 /\ w[1] = a /\ w[2] = b
    OBVIOUS
  <2> HIDE DEF w
  <2>3. /\ Start(w, 1) = 0 /\ Start(w, 2) = Start(w, 1) + w[1] + 1
        /\ Start(w, 3) = Start(w, 2) + w[2] + 1
    <3>1. Start(w, 1) = 0 /\ \A i \in 1 .. 2 : Start(w, i + 1) = Start(w, i) + w[i] + 1
      BY <2>1, StartFacts
    <3> QED BY <3>1
  <2>4. TextLength(w) = Start(w, 3) - 1
    BY <2>2 DEF TextLength
  <2>5. TextLength(w) = a + b + 1
    BY <2>2, <2>3, <2>4
  <2> QED BY <2>5 DEF w
<1> QED BY <1>1, <1>2

LEMMA ThreeWords ==
    ASSUME NEW a \in Nat, NEW b \in Nat, NEW c \in Nat,
           1 <= a, a <= 63, 1 <= b, b <= 63, 1 <= c, c <= 63
    PROVE  Legal(<<a, b, c>>) /\ TextLength(<<a, b, c>>) = a + b + c + 2
<1>1. Legal(<<a, b, c>>)
  BY DEF Legal
<1>2. TextLength(<<a, b, c>>) = a + b + c + 2
  <2> DEFINE w == <<a, b, c>>
  <2>1. \A i \in 1 .. 3 : w[i] \in Nat
    OBVIOUS
  <2>2. Len(w) = 3 /\ w[1] = a /\ w[2] = b /\ w[3] = c
    OBVIOUS
  <2> HIDE DEF w
  <2>3. /\ Start(w, 1) = 0 /\ Start(w, 2) = Start(w, 1) + w[1] + 1
        /\ Start(w, 3) = Start(w, 2) + w[2] + 1
        /\ Start(w, 4) = Start(w, 3) + w[3] + 1
    <3>1. Start(w, 1) = 0 /\ \A i \in 1 .. 3 : Start(w, i + 1) = Start(w, i) + w[i] + 1
      BY <2>1, StartFacts
    <3> QED BY <3>1
  <2>4. TextLength(w) = Start(w, 4) - 1
    BY <2>2 DEF TextLength
  <2>5. TextLength(w) = a + b + c + 2
    BY <2>2, <2>3, <2>4
  <2> QED BY <2>5 DEF w
<1> QED BY <1>1, <1>2

LEMMA TopLegal ==
    ASSUME NEW T \in 3 .. 128
    PROVE  Legal(TopWords(T)) /\ TextLength(TopWords(T)) = T
<1>1. CASE T = 3
  <2> DEFINE a == 1
  <2>1. a \in Nat /\ 1 <= a /\ a <= 63 /\ a + a + 1 = T
    BY <1>1
  <2>2. TopWords(T) = <<a, a>>
    BY <1>1 DEF TopWords
  <2> HIDE DEF a
  <2>3. Legal(<<a, a>>) /\ TextLength(<<a, a>>) = a + a + 1
    BY <2>1, TwoWords
  <2> QED BY <2>1, <2>2, <2>3
<1>2. CASE T \in 4 .. 66
  <2> DEFINE a == T - 3
             b == 2
  <2>1. a \in Nat /\ 1 <= a /\ a <= 63 /\ b \in Nat /\ 1 <= b /\ b <= 63 /\ a + b + 1 = T
    BY <1>2
  <2>2. TopWords(T) = <<a, b>>
    BY <1>2 DEF TopWords
  <2> HIDE DEF a, b
  <2>3. Legal(<<a, b>>) /\ TextLength(<<a, b>>) = a + b + 1
    BY <2>1, TwoWords
  <2> QED BY <2>1, <2>2, <2>3
<1>3. CASE T \in 67 .. 128
  <2> DEFINE a == (T - 4) \div 2
             b == T - 4 - a
             c == 2
  <2>1. /\ a \in Nat /\ 1 <= a /\ a <= 63 /\ b \in Nat /\ 1 <= b /\ b <= 63
        /\ c \in Nat /\ 1 <= c /\ c <= 63 /\ a + b + c + 2 = T
    BY <1>3
  <2>2. TopWords(T) = <<a, b, c>>
    BY <1>3 DEF TopWords
  <2> HIDE DEF a, b, c
  <2>3. Legal(<<a, b, c>>) /\ TextLength(<<a, b, c>>) = a + b + c + 2
    BY <2>1, ThreeWords
  <2> QED BY <2>1, <2>2, <2>3
<1> QED BY <1>1, <1>2, <1>3

(***************************************************************************)
(* The server reads the words of a name with x characters before the       *)
(* topdomain of T, up to the longest names that get their last word across. *)
(***************************************************************************)
LEMMA QueryWhole ==
    ASSUME NEW x \in Nat, x >= 1, NEW T \in 3 .. 128, NEW w,
           w = Words(Ended(x), TopWords(T)), Ended(x) + T <= 254,
           Ended(x) + T < 254 \/ w[Len(w)] > 1
    PROVE  QueryRead(w) = w
<1>1. Ended(x) \in Nat /\ Rest(Ended(x)) # 1
  BY EndedFacts
<1>2. Legal(TopWords(T)) /\ TextLength(TopWords(T)) = T
  BY TopLegal
<1>3. Legal(w) /\ TextLength(w) = Ended(x) + T
  BY <1>1, <1>2, WordsLegal
<1>4. TextLength(w) \in Nat /\ TextLength(w) <= 254 /\ TextLength(w) <= TextLength(w)
      /\ (TextLength(w) < 254 \/ w[Len(w)] > 1)
  BY <1>1, <1>3
<1>5. readname(putname(w, TextLength(w)), 255) = w
  BY <1>3, <1>4, ReadWhole
<1>6. QUERY_NAME_SIZE - 1 = 255
  BY DEF QUERY_NAME_SIZE
<1> QED BY <1>5, <1>6 DEF QueryRead

-----------------------------------------------------------------------------
(* The query.                                                              *)

(* The length of a name that has been built, and what the server has read.  *)
Built ==
    name # NoName =>
        /\ Roomy => name.length <= 254
        /\ \E x \in Nat : x >= 1 /\ name.length = Ended(x) + topdomain

Asked == query # NoQuery => name # NoName /\ query = QueryRead(NameWords)

QueryInv == Inv /\ Built /\ Asked

LEMMA NextBuilt == Inv /\ Built /\ [Next]_vars => Built'
<1> SUFFICES ASSUME Inv, Built, [Next]_vars PROVE Built'
  OBVIOUS
<1>0. /\ hostname_maxlen \in 65 .. 255 /\ topdomain \in 3 .. 128
      /\ dataenc \in AllCodecs /\ Base32 \in AllCodecs
      /\ maxfraglen \in Nat /\ Messages \subseteq 2 .. 102
  BY MaxlensAssumption, TopdomainsAssumption, SwitchedAssumption, MessagesAssumption
     DEF Inv, TypeOK, AllCodecs
<1>1. ASSUME UNCHANGED <<hostname_maxlen, topdomain, name>> PROVE Built'
  BY <1>1 DEF Built, Roomy
<1>2. ASSUME NEW n \in Nat, NEW c \in AllCodecs, NEW h \in Headers, Send(n, c, h)
      PROVE  Built'
  <2>1. /\ name' = build_hostname(n, topdomain, c, hostname_maxlen, h)
        /\ UNCHANGED <<hostname_maxlen, topdomain>>
    BY <1>2 DEF Send
  <2>2. /\ name'.length \in Nat
        /\ hostname_maxlen - h >= topdomain + (hostname_maxlen - h) \div DNS_MAXLABEL + 2
             => name'.length < hostname_maxlen
        /\ \E x \in Nat : x >= 1 /\ name'.length = Ended(x) + topdomain
    <3> DEFINE b == build_hostname(n, topdomain, c, hostname_maxlen, h)
    <3>1. /\ b \in [data : Nat, used : Nat, length : Nat]
          /\ hostname_maxlen - h >= topdomain + (hostname_maxlen - h) \div DNS_MAXLABEL + 2
               => b.length < hostname_maxlen
          /\ \E x \in Nat : x >= 1 /\ b.length = Ended(x) + topdomain
      BY <1>0, BuiltFits
    <3>2. name' = b
      BY <2>1
    <3> HIDE DEF b
    <3> QED BY <3>1, <3>2
  <2>3. Roomy => hostname_maxlen - h >= topdomain + (hostname_maxlen - h) \div DNS_MAXLABEL + 2
    BY <1>0 DEF Roomy, Headers, VERSION_HDR, PACKET_HDR, UPSTREAM_HDR, DNS_MAXLABEL
  <2>4. Roomy => name'.length <= 254
    BY <1>0, <2>2, <2>3
  <2>5. Roomy' <=> Roomy
    BY <2>1 DEF Roomy
  <2> QED BY <2>1, <2>2, <2>4, <2>5 DEF Built
<1>3. CASE handshake_switch_codec
  BY <1>1, <1>3 DEF handshake_switch_codec
<1>4. CASE window_buffer_init
  BY <1>1, <1>4 DEF window_buffer_init
<1>5. CASE send_version
  BY <1>0, <1>2, <1>5 DEF send_version, VERSION_DATA, Headers
<1>6. CASE send_downenctest
  BY <1>0, <1>2, <1>6 DEF send_downenctest, DOWNENC_DATA, Headers
<1>7. CASE send_packet
  BY <1>0, <1>2, <1>7 DEF send_packet, Headers
<1>8. CASE send_fragsize_probe
  BY <1>0, <1>2, <1>8 DEF send_fragsize_probe, PROBE_DATA, Headers
<1>9. CASE send_next_frag
  <2>1. PICK n \in 1 .. Smaller(maxfraglen, MaxData) : Send(n, dataenc, UPSTREAM_HDR)
    BY <1>9 DEF send_next_frag
  <2>2. n \in Nat
    OBVIOUS
  <2> QED BY <1>0, <1>2, <2>1, <2>2 DEF Headers
<1>10. CASE UNCHANGED vars
  BY <1>1, <1>10 DEF vars
<1> QED BY <1>3, <1>4, <1>5, <1>6, <1>7, <1>8, <1>9, <1>10 DEF Next

LEMMA QueryInvHolds == ExchangeSpec => []QueryInv
<1>1. ExchangeInit => QueryInv
  <2> SUFFICES ASSUME ExchangeInit PROVE QueryInv
    OBVIOUS
  <2>1. Inv
    BY InitInv DEF ExchangeInit
  <2>2. Built /\ Asked
    BY DEF ExchangeInit, Init, Built, Asked
  <2> QED BY <2>1, <2>2 DEF QueryInv
<1>2. QueryInv /\ [ExchangeNext]_allvars => QueryInv'
  <2> SUFFICES ASSUME QueryInv, [ExchangeNext]_allvars PROVE QueryInv'
    OBVIOUS
  <2>1. [Next]_vars
    BY DEF ExchangeNext, NextName, server_reads, server_answers, client_reads, allvars
  <2>2. Inv' /\ Built'
    BY <2>1, NextInv, NextBuilt DEF QueryInv
  <2>3. Asked'
    <3>1. CASE NextName
      BY <3>1 DEF NextName, Asked
    <3>2. CASE server_reads
      BY <3>2 DEF server_reads, vars, Asked, NameWords
    <3>3. CASE server_answers
      BY <3>3 DEF server_answers, vars, QueryInv, Asked, NameWords
    <3>4. CASE client_reads
      BY <3>4 DEF client_reads, vars, QueryInv, Asked, NameWords
    <3>5. CASE UNCHANGED allvars
      BY <3>5 DEF allvars, exchange, vars, QueryInv, Asked, NameWords
    <3> QED BY <3>1, <3>2, <3>3, <3>4, <3>5 DEF ExchangeNext
  <2> QED BY <2>2, <2>3 DEF QueryInv
<1> QED BY <1>1, <1>2, PTL DEF ExchangeSpec

LEMMA QueryInvArrives == QueryInv => QueryArrives
<1> SUFFICES ASSUME QueryInv, Roomy, query # NoQuery,
                    name.length < 254 \/ Last(NameWords) > 1
             PROVE  query = NameWords
  BY DEF QueryArrives
<1>1. /\ topdomain \in 3 .. 128 /\ name # NoName /\ query = QueryRead(NameWords)
      /\ name.length <= 254
  BY TopdomainsAssumption DEF QueryInv, Inv, TypeOK, Built, Asked
<1>2. PICK x \in Nat : x >= 1 /\ name.length = Ended(x) + topdomain
  BY <1>1 DEF QueryInv, Built
<1>3. Ended(x) \in Nat
  BY <1>2, EndedFacts
<1>4. name.length - topdomain = Ended(x)
  BY <1>1, <1>2, <1>3
<1> DEFINE w == NameWords
<1>5. w = Words(Ended(x), TopWords(topdomain))
  BY <1>4 DEF NameWords
<1>6. name.length < 254 \/ w[Len(w)] > 1
  BY DEF Last
<1> HIDE DEF w
<1>7. QueryRead(w) = w
  BY <1>1, <1>2, <1>5, <1>6, QueryWhole
<1> QED BY <1>1, <1>7 DEF w

(***************************************************************************)
(* The server reads the name that the client has built, word by word        *)
(* (build_hostname, putname, readname), for every limit, topdomain, codec,  *)
(* message and fragment.                                                   *)
(***************************************************************************)
THEOREM QueriesArrive == ExchangeSpec => []QueryArrives
BY QueryInvHolds, QueryInvArrives, PTL

(* The names of an exchange are those of Hostname.                         *)
THEOREM ExchangeNamesFit == ExchangeSpec => [](NameFits /\ DefaultWhole)
<1>1. QueryInv => NameFits /\ DefaultWhole
  BY DEF QueryInv, Inv
<1> QED BY QueryInvHolds, <1>1, PTL

-----------------------------------------------------------------------------
(* Answers: the codecs.                                                    *)

(* A codec and its lengths: what is decoded from the characters of b bytes  *)
(* is b bytes, and more bytes make no fewer characters.                     *)
LEMMA CharsDecoded ==
    ASSUME NEW c \in AllCodecs \cup {Raw}, NEW b \in Nat
    PROVE  /\ get_encoded_length(c, b) \in Nat
           /\ (c.raw * get_encoded_length(c, b)) \div c.enc = b
           /\ get_encoded_length(c, b) <= 2 * b
           /\ b >= 1 => get_encoded_length(c, b) >= 1
<1>1. CASE c = Base32
  <2>1. get_encoded_length(c, b) = (8 * b) \div 5 + (IF (8 * b) % 5 > 0 THEN 1 ELSE 0)
    BY <1>1 DEF get_encoded_length, Base32
  <2>2. PICK k \in Nat : k = (8 * b) \div 5 + (IF (8 * b) % 5 > 0 THEN 1 ELSE 0)
    OBVIOUS
  <2>3. (5 * k) \div 8 = b /\ k <= 2 * b /\ (b >= 1 => k >= 1)
    BY <2>2
  <2> QED BY <1>1, <2>1, <2>2, <2>3 DEF Base32
<1>2. CASE c = Base64
  <2>1. get_encoded_length(c, b) = (4 * b) \div 3 + (IF (4 * b) % 3 > 0 THEN 1 ELSE 0)
    BY <1>2 DEF get_encoded_length, Base64
  <2>2. PICK k \in Nat : k = (4 * b) \div 3 + (IF (4 * b) % 3 > 0 THEN 1 ELSE 0)
    OBVIOUS
  <2>3. (3 * k) \div 4 = b /\ k <= 2 * b /\ (b >= 1 => k >= 1)
    BY <2>2
  <2> QED BY <1>2, <2>1, <2>2, <2>3 DEF Base64
<1>3. CASE c = Base128
  <2>1. get_encoded_length(c, b) = (8 * b) \div 7 + (IF (8 * b) % 7 > 0 THEN 1 ELSE 0)
    BY <1>3 DEF get_encoded_length, Base128
  <2>2. PICK k \in Nat : k = (8 * b) \div 7 + (IF (8 * b) % 7 > 0 THEN 1 ELSE 0)
    OBVIOUS
  <2>3. (7 * k) \div 8 = b /\ k <= 2 * b /\ (b >= 1 => k >= 1)
    BY <2>2
  <2> QED BY <1>3, <2>1, <2>2, <2>3 DEF Base128
<1>4. CASE c = Raw
  <2>1. c.raw = 1 /\ c.enc = 1
    BY <1>4 DEF Raw
  <2>2. get_encoded_length(c, b) = b
    BY <2>1 DEF get_encoded_length
  <2> QED BY <2>1, <2>2
<1> QED BY <1>1, <1>2, <1>3, <1>4 DEF AllCodecs

(* What a name has room for, and how many characters that takes.           *)
LEMMA CharsFit ==
    ASSUME NEW c \in AllCodecs, NEW room \in Nat, NEW b \in Nat, NEW d \in Nat,
           d <= (c.raw * room) \div c.enc, b <= d
    PROVE  /\ get_encoded_length(c, b) <= get_encoded_length(c, d)
           /\ get_encoded_length(c, d) <= room
<1>1. CASE c = Base32
  <2>1. d <= (5 * room) \div 8
    BY <1>1 DEF Base32
  <2>2. /\ (8 * b) \div 5 + (IF (8 * b) % 5 > 0 THEN 1 ELSE 0)
             <= (8 * d) \div 5 + (IF (8 * d) % 5 > 0 THEN 1 ELSE 0)
        /\ (8 * d) \div 5 + (IF (8 * d) % 5 > 0 THEN 1 ELSE 0) <= room
    <3>1. PICK k \in Nat : k = (8 * b) \div 5 + (IF (8 * b) % 5 > 0 THEN 1 ELSE 0)
      OBVIOUS
    <3>2. PICK l \in Nat : l = (8 * d) \div 5 + (IF (8 * d) % 5 > 0 THEN 1 ELSE 0)
      OBVIOUS
    <3>3. 8 * b <= 5 * k /\ 5 * k < 8 * b + 5
      BY <3>1
    <3>4. 8 * d <= 5 * l /\ 5 * l < 8 * d + 5
      BY <3>2
    <3>5. 8 * d <= 5 * room
      BY <2>1
    <3>6. k <= l /\ l <= room
      BY <3>3, <3>4, <3>5
    <3> QED BY <3>1, <3>2, <3>6
  <2> QED BY <1>1, <2>2 DEF get_encoded_length, Base32
<1>2. CASE c = Base64
  <2>1. d <= (3 * room) \div 4
    BY <1>2 DEF Base64
  <2>2. /\ (4 * b) \div 3 + (IF (4 * b) % 3 > 0 THEN 1 ELSE 0)
             <= (4 * d) \div 3 + (IF (4 * d) % 3 > 0 THEN 1 ELSE 0)
        /\ (4 * d) \div 3 + (IF (4 * d) % 3 > 0 THEN 1 ELSE 0) <= room
    BY <2>1
  <2> QED BY <1>2, <2>2 DEF get_encoded_length, Base64
<1>3. CASE c = Base128
  <2>1. d <= (7 * room) \div 8
    BY <1>3 DEF Base128
  <2>2. /\ (8 * b) \div 7 + (IF (8 * b) % 7 > 0 THEN 1 ELSE 0)
             <= (8 * d) \div 7 + (IF (8 * d) % 7 > 0 THEN 1 ELSE 0)
        /\ (8 * d) \div 7 + (IF (8 * d) % 7 > 0 THEN 1 ELSE 0) <= room
    BY <2>1
  <2> QED BY <1>3, <2>2 DEF get_encoded_length, Base128
<1> QED BY <1>1, <1>2, <1>3 DEF AllCodecs

LEMMA EndedGrows ==
    ASSUME NEW x \in Nat, NEW y \in Nat, x <= y
    PROVE  Ended(x) <= Ended(y)
<1> DEFINE a == x \div 59
           b == x % 59
           c == y \div 59
           d == y % 59
<1>1. /\ a \in Nat /\ b \in 0 .. 58 /\ x = 59 * a + b
      /\ c \in Nat /\ d \in 0 .. 58 /\ y = 59 * c + d
  OBVIOUS
<1>2. /\ Ended(x) = IF b = 0 /\ x > 0 THEN x + a ELSE x + a + 1
      /\ Ended(y) = IF d = 0 /\ y > 0 THEN y + c ELSE y + c + 1
  BY DEF Ended, Dotted, DNS_MAXLABEL
<1> HIDE DEF a, b, c, d
<1>3. CASE a = c
  BY <1>1, <1>2, <1>3
<1>4. CASE a < c
  BY <1>1, <1>2, <1>4
<1>5. a <= c
  BY <1>1
<1> QED BY <1>1, <1>3, <1>4, <1>5

-----------------------------------------------------------------------------
(* Answers: the parts.                                                     *)

(* An answer as the server makes it and a relay passes it on.              *)
Several(m) == m.type \in {"MX", "SRV"}
Made(m) ==
    /\ m.type \in NameTypes \cup {"NULL", "PRIVATE", "TXT"}
    /\ m.size \in Nat /\ 2 <= m.size /\ m.size <= 1536
    /\ m.codec \in AllCodecs \cup {Raw}
    /\ m.type \in NameTypes => m.codec \in AllCodecs
Count(m) == IF Several(m) THEN (m.size - 1) \div PartBytes(m) + 1 ELSE 1

LEMMA Division ==
    ASSUME NEW a \in Nat, NEW p \in Nat, p >= 1
    PROVE  a \div p \in Nat /\ p * (a \div p) <= a /\ a < p * (a \div p) + p
OBVIOUS

LEMMA Times ==
    ASSUME NEW a \in Nat, NEW b \in Nat, NEW p \in Nat, a <= b
    PROVE  a * p \in Nat /\ b * p \in Nat /\ a * p <= b * p
<1>1. PICK d \in Nat : b = a + d
  <2>1. b - a \in Nat /\ b = a + (b - a)
    OBVIOUS
  <2> QED BY <2>1
<1>2. b * p = a * p + d * p /\ d * p \in Nat /\ a * p \in Nat
  BY <1>1
<1>3. b * p \in Nat
  OBVIOUS
<1>4. ASSUME NEW u \in Nat, NEW v \in Nat, NEW w \in Nat, v = u + w
      PROVE  u <= v
  BY <1>4
<1> DEFINE u == a * p
           v == b * p
           w == d * p
<1>5. u \in Nat /\ v \in Nat /\ w \in Nat /\ v = u + w
  BY <1>2, <1>3
<1> HIDE DEF u, v, w
<1>6. u <= v
  BY <1>4, <1>5
<1> QED BY <1>5, <1>6 DEF u, v

(* What goes into a name: at least seven bytes.                            *)
LEMMA NameRoom ==
    ASSUME NEW c \in AllCodecs
    PROVE  (c.raw * NameChars) \div c.enc \in Nat /\ 7 <= (c.raw * NameChars) \div c.enc
<1>1. NameChars \in Nat /\ 12 <= NameChars
  BY ExchangeAssumption
<1>2. CASE c = Base32
  BY <1>1, <1>2 DEF Base32
<1>3. CASE c = Base64
  BY <1>1, <1>3 DEF Base64
<1>4. CASE c = Base128
  BY <1>1, <1>4 DEF Base128
<1> QED BY <1>2, <1>3, <1>4 DEF AllCodecs

LEMMA PartBytesFacts ==
    ASSUME NEW m, Made(m)
    PROVE  /\ PartBytes(m) \in Nat /\ 1 <= PartBytes(m)
           /\ m.type \in NameTypes => /\ m.codec \in AllCodecs /\ 7 <= PartBytes(m)
                                      /\ PartBytes(m) <= (m.codec.raw * NameChars) \div m.codec.enc
           /\ m.type \notin NameTypes => PartBytes(m) = m.size /\ ~ Several(m)
<1>1. CASE m.type \in NameTypes
  <2>1. m.codec \in AllCodecs
    BY <1>1 DEF Made
  <2>2. PartBytes(m) = (m.codec.raw * NameChars) \div m.codec.enc
    BY <1>1 DEF PartBytes
  <2>3. PartBytes(m) \in Nat /\ 7 <= PartBytes(m)
    BY <2>1, <2>2, NameRoom
  <2>4. 1 <= PartBytes(m) /\ PartBytes(m) <= PartBytes(m)
    BY <2>3
  <2> QED BY <1>1, <2>1, <2>2, <2>3, <2>4
<1>2. CASE m.type \notin NameTypes
  <2>1. PartBytes(m) = m.size /\ m.size \in Nat /\ 1 <= m.size
    BY <1>2 DEF PartBytes, Made
  <2>2. ~ Several(m)
    BY <1>2 DEF Several, NameTypes
  <2> QED BY <1>2, <2>1, <2>2
<1> QED BY <1>1, <1>2

(* There are as many parts as it takes, all full but the last, and no more  *)
(* than a message has room for.                                            *)
LEMMA PartsFacts ==
    ASSUME NEW m, Made(m)
    PROVE  /\ Count(m) \in Nat /\ 1 <= Count(m) /\ Count(m) <= MAXNAMES
           /\ Parts(m) \in Seq(Nat) /\ Len(Parts(m)) = Count(m)
           /\ \A i \in 1 .. Count(m) : /\ Parts(m)[i] \in Nat /\ 1 <= Parts(m)[i]
                                       /\ Parts(m)[i] <= PartBytes(m)
           /\ \A i \in 1 .. Count(m) : i < Count(m) => Parts(m)[i] = PartBytes(m)
           /\ ~ Several(m) => Parts(m)[1] = Smaller(PartBytes(m), m.size)
<1> DEFINE P == PartBytes(m)
           K == Count(m)
           s == m.size
           part(i) == Smaller(P, s - (i - 1) * P)
<1>1. P \in Nat /\ 1 <= P /\ (Several(m) => 7 <= P)
  BY PartBytesFacts DEF Several, NameTypes
<1>2. s \in Nat /\ 2 <= s /\ s <= 1536
  BY DEF Made
<1>3. Parts(m) = [i \in 1 .. K |-> part(i)]
  BY DEF Parts, Count, Several
<1>4. K = IF Several(m) THEN (s - 1) \div P + 1 ELSE 1
  BY DEF Count
<1> HIDE DEF P, K, s
<1>5. K \in Nat /\ 1 <= K /\ K <= MAXNAMES
  <2>1. CASE Several(m)
    <3> DEFINE q == (s - 1) \div P
    <3>1. s - 1 \in Nat
      BY <1>2
    <3>2. q \in Nat /\ P * q <= s - 1
      BY <1>1, <3>1, Division
    <3> HIDE DEF q
    <3>3. 7 * q <= P * q
      <4>1. 7 \in Nat /\ 7 <= P
        BY <1>1, <2>1
      <4> DEFINE g == 7
      <4>2. g \in Nat /\ g <= P
        BY <4>1
      <4> HIDE DEF g
      <4>3. g * q <= P * q
        BY <1>1, <3>2, <4>2, Times
      <4> QED BY <4>3 DEF g
    <3>4. P * q \in Nat
      BY <1>1, <3>2
    <3>5. 7 * q <= 1535
      BY <1>2, <3>2, <3>3, <3>4
    <3>6. q <= 219
      BY <3>2, <3>5
    <3>7. K = q + 1
      BY <1>4, <2>1 DEF q
    <3> QED BY <3>2, <3>6, <3>7 DEF MAXNAMES
  <2>2. CASE ~ Several(m)
    BY <1>4, <2>2 DEF MAXNAMES
  <2> QED BY <2>1, <2>2
<1>6. ASSUME NEW i \in 1 .. K
      PROVE  (i - 1) * P \in Nat /\ (i - 1) * P < s
  <2>1. CASE Several(m)
    <3> DEFINE q == (s - 1) \div P
    <3>1. s - 1 \in Nat
      BY <1>2
    <3>2. q \in Nat /\ P * q <= s - 1
      BY <1>1, <3>1, Division
    <3>3. K = q + 1
      BY <1>4, <2>1
    <3> HIDE DEF q
    <3> DEFINE j == i - 1
    <3>4. j \in Nat /\ j <= q
      BY <3>2, <3>3
    <3> HIDE DEF j
    <3>5. j * P \in Nat /\ q * P \in Nat /\ j * P <= q * P
      BY <1>1, <3>2, <3>4, Times
    <3>6. q * P = P * q
      BY <1>1, <3>2
    <3>7. j * P < s
      BY <1>2, <3>2, <3>5, <3>6
    <3> QED BY <3>5, <3>7 DEF j
  <2>2. CASE ~ Several(m)
    <3>1. i - 1 = 0
      BY <1>4, <2>2
    <3>2. (i - 1) * P = 0
      BY <1>1, <3>1
    <3> QED BY <1>2, <3>2
  <2> QED BY <2>1, <2>2
<1>7. ASSUME NEW i \in 1 .. K, i < K
      PROVE  (i - 1) * P + P < s
  <2> DEFINE k == i + 1
  <2>1. k \in 1 .. K
    BY <1>5, <1>7
  <2> HIDE DEF k
  <2>2. (k - 1) * P < s
    BY <1>6, <2>1
  <2>3. k - 1 = i - 1 + 1
    BY DEF k
  <2>4. (k - 1) * P = (i - 1) * P + P
    <3> DEFINE j == i - 1
    <3>1. j \in Nat
      OBVIOUS
    <3>2. k - 1 = j + 1
      BY <2>3
    <3> HIDE DEF j
    <3>3. (j + 1) * P = j * P + P
      BY <1>1, <3>1
    <3> QED BY <3>2, <3>3 DEF j
  <2> QED BY <2>2, <2>4
<1>8. ASSUME NEW i \in 1 .. K
      PROVE  part(i) \in Nat /\ 1 <= part(i) /\ part(i) <= P /\ (i < K => part(i) = P)
  <2> DEFINE t == (i - 1) * P
  <2>1. t \in Nat /\ t < s /\ (i < K => t + P < s)
    BY <1>6, <1>7
  <2>2. part(i) = Smaller(P, s - t)
    OBVIOUS
  <2> HIDE DEF t
  <2>3. s - t \in Nat /\ 1 <= s - t /\ (i < K => P <= s - t)
    BY <1>1, <1>2, <2>1
  <2> DEFINE r == s - t
  <2> HIDE DEF r, part
  <2>4. part(i) = IF P <= r THEN P ELSE r
    BY <2>2 DEF Smaller, r
  <2>5. r \in Nat /\ 1 <= r /\ (i < K => P <= r)
    BY <2>3 DEF r
  <2> QED BY <1>1, <2>4, <2>5
<1>9. ASSUME ~ Several(m) PROVE Parts(m)[1] = Smaller(P, s)
  <2>1. K = 1
    BY <1>4, <1>9
  <2>2. part(1) = Smaller(P, s)
    <3>1. (1 - 1) * P = 0 /\ s - 0 = s
      BY <1>1, <1>2
    <3> QED BY <3>1
  <2> HIDE DEF part
  <2> QED BY <1>3, <2>1, <2>2
<1> HIDE DEF part
<1>10. Parts(m) \in Seq(Nat) /\ Len(Parts(m)) = K /\ \A i \in 1 .. K : Parts(m)[i] = part(i)
  BY <1>3, <1>5, <1>8
<1> QED BY <1>5, <1>8, <1>9, <1>10 DEF P, K, s

-----------------------------------------------------------------------------
(* Answers: the names.                                                     *)

(***************************************************************************)
(* A name is decoded to the data behind its first character, whether the    *)
(* NUL at its end is counted in or not: the dot before the suffix is among  *)
(* the characters decoded in the one case only.                            *)
(***************************************************************************)
LEMMA NameDecoded ==
    ASSUME NEW x \in Nat, x >= 2, NEW w, w = Words(Ended(x), Suffix), NEW c,
           NEW buflen \in Nat, buflen = Ended(x) + 2 \/ buflen = Ended(x) + 3
    PROVE  dns_namedec(w, buflen, c) = (c.raw * (x - 1)) \div c.enc
<1> DEFINE n == Ended(x)
           B == Blocks(n)
           d == IF buflen = n + 2 THEN B - 1 ELSE B
           dots == {i \in 1 .. Len(w) - 1 : Start(w, i + 1) \in 2 .. buflen - 3}
<1>1. n \in Nat /\ B >= 1 /\ n = x + B
  BY EndedFacts
<1>2. B \in Nat
  BY <1>1, BlocksFacts
<1>3. Suffix \in Seq(Nat) /\ Len(Suffix) = 1
  BY DEF Suffix
<1>4. AsWords(w, n, Suffix)
  BY <1>1, <1>3, WordsAre
<1>5. w \in Seq(Nat) /\ Len(w) = B + 1
  BY <1>3, <1>4 DEF AsWords
<1>6. /\ Start(w, B + 1) = n
      /\ \A i \in 1 .. B : Start(w, i) = 60 * (i - 1)
  BY <1>1, <1>3, BlocksStart
<1>7. dns_namedec(w, buflen, c)
        = IF buflen < 5 THEN 0 ELSE (c.raw * (buflen - 4 - Cardinality(dots))) \div c.enc
  BY DEF dns_namedec
<1>8. buflen = n + 2 \/ buflen = n + 3
  OBVIOUS
<1> HIDE DEF n, B
<1>9. \A i \in 1 .. B + 1 : w[i] \in Nat
  BY <1>5
<1>10. ASSUME NEW i \in 1 .. B
       PROVE  /\ i < B => Start(w, i + 1) = 60 * i /\ 60 * i < n
              /\ i = B => Start(w, i + 1) = n
  <2>1. ASSUME i < B PROVE Start(w, i + 1) = 60 * i /\ 60 * i < n
    <3> DEFINE k == i + 1
    <3>1. k \in 1 .. B /\ k \in 1 .. B + 1 /\ B + 1 \in k + 1 .. (B + 1) + 1 /\ B + 1 \in Nat /\ k - 1 = i
      BY <1>2, <2>1
    <3> HIDE DEF k
    <3>2. Start(w, k) = 60 * i
      BY <1>6, <3>1
    <3>3. \A j \in k + 1 .. (B + 1) + 1 : Start(w, k) + w[k] + 1 <= Start(w, j)
      <4> DEFINE l == B + 1
      <4>1. l \in Nat /\ k \in 1 .. l /\ \A j \in 1 .. l : w[j] \in Nat
        BY <1>9, <3>1
      <4> HIDE DEF l
      <4>2. \A j \in k + 1 .. l + 1 : Start(w, k) + w[k] + 1 <= Start(w, j)
        BY <4>1, WordsApart
      <4> QED BY <4>2 DEF l
    <3>4. 60 * i + w[k] + 1 <= n /\ w[k] \in Nat
      BY <1>6, <1>9, <3>1, <3>2, <3>3
    <3> QED BY <1>1, <3>2, <3>4 DEF k
  <2> QED BY <1>6, <2>1
<1>11. dots = 1 .. d
  <2>1. Len(w) - 1 = B
    BY <1>2, <1>5
  <2>2. ASSUME NEW i \in 1 .. B
        PROVE  Start(w, i + 1) \in 2 .. buflen - 3 <=> i \in 1 .. d
    <3>1. CASE i < B
      <4>1. Start(w, i + 1) = 60 * i /\ 60 * i < n /\ 60 * i \in Nat /\ 2 <= 60 * i
        BY <1>10, <3>1
      <4>2. 60 * i <= buflen - 3
        BY <1>1, <1>8, <4>1
      <4>3. i \in 1 .. d
        BY <1>2, <3>1
      <4> QED BY <1>1, <1>8, <4>1, <4>2, <4>3
    <3>2. CASE i = B
      <4>1. Start(w, i + 1) = n
        BY <1>10, <3>2
      <4>2. n \in 2 .. buflen - 3 <=> buflen = n + 3
        <5>1. 2 <= n
          BY <1>1, <1>2
        <5> QED BY <1>1, <1>8, <5>1
      <4>3. i \in 1 .. d <=> buflen = n + 3
        BY <1>1, <1>2, <1>8, <3>2
      <4> QED BY <4>1, <4>2, <4>3
    <3> QED BY <1>2, <3>1, <3>2
  <2>3. ASSUME NEW i \in 1 .. d PROVE i \in 1 .. B
    BY <1>2
  <2> HIDE DEF d
  <2> QED BY <2>1, <2>2, <2>3
<1>12. d \in Nat /\ buflen - 4 - d = x - 1 /\ ~ (buflen < 5)
  BY <1>1, <1>2, <1>8
<1>13. Cardinality(dots) = d
  <2> HIDE DEF d, dots
  <2>1. Cardinality(1 .. d) = d
    <3>1. 1 \in Int /\ d \in Int /\ (1 <= d \/ d = 0)
      BY <1>12
    <3>2. Cardinality(1 .. d) = IF 1 > d THEN 0 ELSE d - 1 + 1
      BY <3>1, FS_Interval
    <3> QED BY <3>1, <3>2
  <2> QED BY <1>11, <2>1
<1> HIDE DEF d, dots
<1> QED BY <1>7, <1>12, <1>13

(* Part i of an answer as a name: it arrives whole, it is no longer than    *)
(* the first, and it is decoded to the part.                               *)
LEMMA PartNames ==
    ASSUME NEW m, Made(m), m.type \in NameTypes, NEW i \in 1 .. Count(m)
    PROVE  /\ NameText(m, i) = PartWords(m, i)
           /\ TextLength(PartWords(m, i)) \in Nat /\ 2 <= TextLength(PartWords(m, i))
           /\ \A buflen \in {TextLength(PartWords(m, i)), TextLength(PartWords(m, i)) + 1} :
                  dns_namedec(PartWords(m, i), buflen, m.codec) = Parts(m)[i]
           /\ TextLength(PartWords(m, i)) <= TextLength(PartWords(m, 1))
           /\ i < Count(m) => TextLength(PartWords(m, i)) = TextLength(PartWords(m, 1))
<1> DEFINE c == m.codec
           b == Parts(m)[i]
           P == PartBytes(m)
           chars == get_encoded_length(c, b)
           x == 1 + chars
           n == Ended(x)
           w == Words(n, Suffix)
<1>1. c \in AllCodecs /\ P \in Nat /\ P <= (c.raw * NameChars) \div c.enc
  BY PartBytesFacts
<1>2. b \in Nat /\ 1 <= b /\ b <= P /\ (i < Count(m) => b = P)
  BY PartsFacts
<1>3. NameChars \in Nat /\ NameChars <= 245
  BY ExchangeAssumption
<1>4. PartWords(m, i) = w
  BY DEF PartWords, PartChars
<1> HIDE DEF c, b, P
<1>5. chars \in Nat /\ 1 <= chars /\ (c.raw * chars) \div c.enc = b
  BY <1>1, <1>2, CharsDecoded
<1>6. chars <= get_encoded_length(c, P) /\ get_encoded_length(c, P) <= NameChars
  BY <1>1, <1>2, <1>3, CharsFit
<1>7. get_encoded_length(c, P) \in Nat
  BY <1>1, CharsDecoded
<1> HIDE DEF chars
<1>8. x \in Nat /\ 2 <= x /\ x <= 246 /\ x - 1 = chars
  BY <1>3, <1>5, <1>6, <1>7
<1>9. n \in Nat /\ Rest(n) # 1 /\ n <= x + x \div 59 + 1
  BY <1>8, EndedFacts
<1> HIDE DEF x
<1>10. n <= 251
  <2>1. x \div 59 <= 4
    BY <1>8
  <2>2. x \div 59 \in Nat
    BY <1>8
  <2> HIDE DEF n
  <2> QED BY <1>8, <1>9, <2>1, <2>2
<1>11. Legal(Suffix) /\ TextLength(Suffix) = 2
  <2> DEFINE a == 2
  <2>1. a \in Nat /\ 1 <= a /\ a <= 63
    OBVIOUS
  <2>2. Suffix = <<a>>
    BY DEF Suffix
  <2> HIDE DEF a
  <2>3. Legal(<<a>>) /\ TextLength(<<a>>) = a
    BY <2>1, OneWord
  <2> QED BY <2>2, <2>3 DEF a
<1>12. Legal(w) /\ TextLength(w) = n + 2
  <2>1. Legal(w) /\ TextLength(w) = n + TextLength(Suffix)
    <3> HIDE DEF n
    <3> QED BY <1>9, <1>11, WordsLegal
  <2> QED BY <1>11, <2>1
<1>13. NameText(m, i) = w
  <2>1. NameText(m, i) = readname(putname(w, 256), 255)
    BY <1>4 DEF NameText, QUERY_NAME_SIZE
  <2> DEFINE room == 256
  <2>2. room \in Nat /\ TextLength(w) <= 254 /\ TextLength(w) <= room /\ TextLength(w) < 254
    <3> HIDE DEF w, n
    <3> QED BY <1>9, <1>10, <1>12
  <2>3. readname(putname(w, room), 255) = w
    <3> HIDE DEF room, w
    <3> QED BY <1>12, <2>2, ReadWhole
  <2> QED BY <2>1, <2>3
<1>14. ASSUME NEW buflen \in {n + 2, n + 3}
       PROVE  dns_namedec(w, buflen, c) = b
  <2>1. buflen \in Nat /\ (buflen = n + 2 \/ buflen = n + 3)
    BY <1>9
  <2>2. dns_namedec(w, buflen, c) = (c.raw * (x - 1)) \div c.enc
    BY <1>8, <2>1, NameDecoded
  <2> QED BY <1>5, <1>8, <2>2
<1>15. TextLength(PartWords(m, 1)) = Ended(1 + get_encoded_length(c, Parts(m)[1])) + 2
  <2> DEFINE b1 == Parts(m)[1]
             x1 == 1 + get_encoded_length(c, b1)
             n1 == Ended(x1)
  <2>1. b1 \in Nat
    <3>1. 1 \in 1 .. Count(m)
      BY PartsFacts
    <3> QED BY <3>1, PartsFacts
  <2>2. PartWords(m, 1) = Words(n1, Suffix)
    BY DEF PartWords, PartChars, c
  <2> HIDE DEF b1
  <2>3. x1 \in Nat /\ x1 >= 1
    <3>1. get_encoded_length(c, b1) \in Nat
      BY <1>1, <2>1, CharsDecoded
    <3> QED BY <3>1
  <2> HIDE DEF x1
  <2>4. n1 \in Nat /\ Rest(n1) # 1
    BY <2>3, EndedFacts
  <2> HIDE DEF n1
  <2>5. TextLength(Words(n1, Suffix)) = n1 + TextLength(Suffix)
    BY <1>11, <2>4, WordsLegal
  <2> QED BY <1>11, <2>2, <2>5 DEF n1, x1, b1
<1>16. /\ n + 2 <= TextLength(PartWords(m, 1))
       /\ i < Count(m) => n + 2 = TextLength(PartWords(m, 1))
  <2> DEFINE b1 == Parts(m)[1]
             x1 == 1 + get_encoded_length(c, b1)
  <2>1. 1 \in 1 .. Count(m) /\ Count(m) \in Nat
    BY PartsFacts
  <2>2. b1 \in Nat /\ b1 <= P /\ (1 < Count(m) => b1 = P)
    BY <2>1, PartsFacts DEF P
  <2>3. i = 1 \/ (1 < Count(m) /\ i # 1)
    BY <2>1
  <2>4. CASE i = 1
    <3>1. n + 2 = TextLength(PartWords(m, 1))
      BY <1>15, <2>4 DEF n, x, chars, b
    <3>2. n + 2 <= n + 2
      BY <1>9
    <3> QED BY <3>1, <3>2
  <2>5. CASE 1 < Count(m)
    <3>1. b1 = P /\ b <= b1
      BY <1>2, <2>2, <2>5
    <3>2. x1 = 1 + get_encoded_length(c, P)
      BY <3>1
    <3>3. x1 \in Nat /\ x <= x1
      BY <1>6, <1>7, <1>5, <3>2 DEF x
    <3>4. Ended(x) <= Ended(x1)
      <4> HIDE DEF x1
      <4> QED BY <1>8, <3>3, EndedGrows
    <3>5. Ended(x1) \in Nat
      <4>1. x1 >= 1
        BY <1>7, <3>2
      <4> HIDE DEF x1
      <4> QED BY <3>3, <4>1, EndedFacts
    <3>6. TextLength(PartWords(m, 1)) = Ended(x1) + 2
      BY <1>15
    <3>7. i < Count(m) => x = x1
      BY <1>2, <3>1 DEF x, chars
    <3> HIDE DEF x1
    <3> QED BY <1>9, <3>4, <3>5, <3>6, <3>7
  <2> QED BY <2>3, <2>4, <2>5
<1>17. n + 2 + 1 = n + 3 /\ n + 2 \in Nat /\ 2 <= n + 2
  BY <1>9
<1> HIDE DEF n, w
<1> QED BY <1>4, <1>12, <1>13, <1>14, <1>16, <1>17 DEF b, c

LEMMA ToSetIn ==
    ASSUME NEW S, NEW s \in Seq(S)
    PROVE  ToSet(s) \subseteq S
BY DEF ToSet

(* The names up to the first gap.                                          *)
LEMMA NamesAre ==
    ASSUME NEW m, Made(m), m.records \in Seq(1 .. Count(m))
    PROVE  \E k \in 0 .. Count(m) :
               /\ Names(m) = [i \in 1 .. k |-> i]
               /\ ToSet(m.records) = 1 .. Count(m) => k = Count(m)
<1> DEFINE K == Count(m)
           R == ToSet(m.records)
           S == {n \in 1 .. MAXNAMES : 1 .. n \subseteq R}
           T == {j \in 0 .. K : j + 1 \notin S}
<1>1. K \in Nat /\ 1 <= K /\ K <= MAXNAMES /\ MAXNAMES \in Nat
  BY PartsFacts DEF MAXNAMES
<1>2. R \subseteq 1 .. K
  BY ToSetIn
<1>3. Names(m) = [i \in S |-> i]
  BY DEF Names
<1> HIDE DEF K, R
<1>4. ASSUME NEW n \in S PROVE n \in 1 .. K
  <2>1. n \in 1 .. n /\ n \in Nat /\ 1 .. n \subseteq R
    BY <1>1
  <2> QED BY <1>2, <2>1
<1>5. K \in T
  <2>1. K + 1 \notin 1 .. K /\ K \in 0 .. K
    BY <1>1
  <2>2. K + 1 \notin S
    <3> HIDE DEF S
    <3> QED BY <1>4, <2>1
  <2> QED BY <2>1, <2>2
<1>6. PICK k \in T : \A y \in T : k <= y
  <2>1. T \subseteq Nat
    BY <1>1
  <2> HIDE DEF T
  <2>2. T # {}
    BY <1>5
  <2> QED BY <2>1, <2>2, LeastElement
<1>7. k \in 0 .. K /\ k + 1 \notin S
  OBVIOUS
<1>8. ASSUME NEW n \in 1 .. k PROVE n \in S
  <2>1. n - 1 \in 0 .. K /\ ~ (k <= n - 1) /\ n - 1 + 1 = n
    BY <1>1, <1>7
  <2>2. n - 1 \notin T
    <3> HIDE DEF T
    <3> QED BY <1>6, <2>1
  <2> QED BY <2>1, <2>2
<1>9. ASSUME NEW n \in S PROVE n \in 1 .. k
  <2>1. n \in 1 .. K /\ 1 .. n \subseteq R
    BY <1>4
  <2>2. ASSUME ~ (n <= k) PROVE FALSE
    <3>1. k + 1 \in 1 .. MAXNAMES /\ 1 .. k + 1 \subseteq 1 .. n
      BY <1>1, <1>7, <2>1, <2>2
    <3>2. k + 1 \in S
      BY <2>1, <3>1
    <3> QED BY <1>7, <3>2
  <2> QED BY <1>7, <2>1, <2>2
<1>10. S = 1 .. k
  <2> HIDE DEF S
  <2> QED BY <1>8, <1>9
<1>11. ASSUME R = 1 .. K PROVE k = K
  <2>1. K \in S
    BY <1>1, <1>11
  <2>2. K \in 1 .. k
    <3> HIDE DEF S
    <3> QED BY <1>9, <2>1
  <2> QED BY <1>1, <1>7, <2>2
<1>12. Names(m) = [i \in 1 .. k |-> i]
  <2> HIDE DEF S
  <2> QED BY <1>3, <1>10
<1> QED BY <1>7, <1>11, <1>12 DEF K, R

(* The functions that the recursive definition in ReadNames asks for.      *)
Offsets(f, room, n) ==
    f = [k \in 1 .. n |->
            IF k = 1 THEN 0
            ELSE f[k - 1] + PartLength(room[1] - 1, SumTo(room, n), f[k - 1]) + 1]

(* Every name is as long as the first but the last, which is no longer.     *)
Even(room, n) ==
    /\ \A k \in 1 .. n : room[k] \in Nat /\ 1 <= room[k] /\ room[k] <= room[1]
    /\ \A k \in 1 .. n : k < n => room[k] = room[1]

LEMMA SumGrows ==
    ASSUME NEW s, NEW n \in Nat, \A i \in 1 .. n : s[i] \in Nat, NEW k \in 0 .. n
    PROVE  SumTo(s, k) \in Nat /\ SumTo(s, k) <= SumTo(s, n)
<1> DEFINE T == {j \in k .. n : SumTo(s, k) <= SumTo(s, j)}
<1>1. ASSUME NEW j \in 0 .. n
      PROVE  SumTo(s, j) \in Nat /\ (j > 0 => SumTo(s, j) = SumTo(s, j - 1) + s[j])
  <2>1. j \in Nat /\ \A i \in 1 .. j : s[i] \in Nat
    OBVIOUS
  <2> QED BY <2>1, SumFacts
<1>2. k \in T
  <2>1. SumTo(s, k) \in Nat
    BY <1>1
  <2> QED BY <2>1
<1>3. ASSUME NEW j \in k .. n, j < n, j \in T PROVE j + 1 \in T
  <2> DEFINE l == j + 1
  <2>1. l \in 0 .. n /\ l > 0 /\ l - 1 = j /\ l \in 1 .. n /\ l \in k .. n /\ j \in 0 .. n
    BY <1>3
  <2> HIDE DEF l
  <2>2. SumTo(s, l) = SumTo(s, j) + s[l] /\ s[l] \in Nat /\ SumTo(s, j) \in Nat /\ SumTo(s, k) \in Nat
    BY <1>1, <2>1
  <2>3. SumTo(s, k) <= SumTo(s, j)
    BY <1>3
  <2>4. SumTo(s, k) <= SumTo(s, l)
    BY <2>2, <2>3
  <2> QED BY <2>1, <2>4 DEF l
<1>4. k \in Nat /\ n \in k .. n
  OBVIOUS
<1> HIDE DEF T
<1>5. Climbs(T, k, n)
  BY <1>2, <1>3 DEF Climbs
<1>6. Holds(T, k, n)
  BY <1>4, <1>5, UpTo
<1> QED BY <1>1, <1>4, <1>6 DEF Holds, T

(***************************************************************************)
(* The client finds each name where it is: its length is that of the first  *)
(* or, for the last, what is left, and its NUL may be counted in.           *)
(***************************************************************************)
LEMMA PartLengths ==
    ASSUME NEW n \in Nat, NEW room, Even(room, n), NEW k \in 1 .. n, NEW p,
           p = PartLength(room[1] - 1, SumTo(room, n), SumTo(room, k - 1))
    PROVE  /\ p = room[k] - 1 \/ p = room[k]
           /\ k < n => p = room[k] - 1
<1> DEFINE a == SumTo(room, k - 1)
           b == SumTo(room, k)
           total == SumTo(room, n)
           r == room[k]
           first == room[1]
<1>1. \A i \in 1 .. n : room[i] \in Nat
  BY DEF Even
<1>2. /\ r \in Nat /\ 1 <= r /\ r <= first /\ (k < n => r = first)
      /\ first \in Nat
  <2>1. 1 \in 1 .. n
    OBVIOUS
  <2> QED BY <1>1, <2>1 DEF Even
<1>3. a \in Nat /\ b = a + r /\ b \in Nat /\ b <= total /\ total \in Nat
  <2>1. k \in Nat /\ k > 0 /\ (\A i \in 1 .. k : room[i] \in Nat) /\ k \in 0 .. n /\ k - 1 \in 0 .. n
        /\ n \in 0 .. n
    BY <1>1
  <2>2. b = a + r
    BY <2>1, SumFacts
  <2>3. b \in Nat /\ b <= total
    BY <1>1, <2>1, SumGrows
  <2>4. total \in Nat
    BY <1>1, <2>1, SumGrows
  <2>5. a \in Nat
    <3> DEFINE l == k - 1
    <3>1. l \in 0 .. n
      BY <2>1
    <3> HIDE DEF l
    <3>2. SumTo(room, l) \in Nat
      BY <1>1, <3>1, SumGrows
    <3> QED BY <3>2 DEF l
  <2> QED BY <2>2, <2>3, <2>4, <2>5
<1>4. k = n => total = b
  OBVIOUS
<1>5. p = IF first - 1 <= total - a THEN first - 1 ELSE total - a
  BY DEF PartLength, Smaller
<1> HIDE DEF a, b, total, r, first
<1>6. CASE k < n
  <2>1. first - 1 <= total - a
    BY <1>2, <1>3, <1>6
  <2> QED BY <1>2, <1>5, <1>6, <2>1 DEF r
<1>7. CASE k = n
  <2>1. total - a = r
    BY <1>2, <1>3, <1>4, <1>7
  <2>2. p = r - 1 \/ p = r
    BY <1>2, <1>5, <2>1
  <2> QED BY <1>7, <2>2 DEF r
<1> QED BY <1>6, <1>7

LEMMA OffsetsAre ==
    ASSUME NEW n \in Nat, NEW room, Even(room, n)
    PROVE  \A k \in 1 .. n : (CHOOSE f : Offsets(f, room, n))[k] = SumTo(room, k - 1)
<1> DEFINE next(o) == o + PartLength(room[1] - 1, SumTo(room, n), o) + 1
           g == [k \in 1 .. n |-> SumTo(room, k - 1)]
           h == CHOOSE f : Offsets(f, room, n)
<1>1. \A i \in 1 .. n : room[i] \in Nat
  BY DEF Even
<1>2. ASSUME NEW k \in 1 .. n, k < n
      PROVE  next(SumTo(room, k - 1)) = SumTo(room, k)
  <2> DEFINE a == SumTo(room, k - 1)
             p == PartLength(room[1] - 1, SumTo(room, n), a)
  <2>1. p = room[k] - 1
    BY <1>2, PartLengths
  <2>2. k \in Nat /\ k > 0 /\ \A i \in 1 .. k : room[i] \in Nat
    BY <1>1
  <2>3. SumTo(room, k) = a + room[k]
    BY <2>2, SumFacts
  <2>4. a \in Nat
    <3> DEFINE l == k - 1
    <3>1. l \in 0 .. n
      OBVIOUS
    <3> HIDE DEF l
    <3>2. SumTo(room, l) \in Nat
      BY <1>1, <3>1, SumGrows
    <3> QED BY <3>2 DEF l
  <2>5. room[k] \in Nat
    BY <1>1
  <2>6. next(a) = a + p + 1
    OBVIOUS
  <2> HIDE DEF p, next, a
  <2>7. next(a) = a + room[k]
    BY <2>1, <2>4, <2>5, <2>6
  <2> QED BY <2>3, <2>7 DEF a
<1>3. SumTo(room, 0) = 0
  <2> DEFINE z == 0
  <2>1. z \in Nat /\ z = 0 /\ \A i \in 1 .. z : room[i] \in Nat
    OBVIOUS
  <2> HIDE DEF z
  <2>2. SumTo(room, z) = 0
    BY <2>1, SumFacts
  <2> QED BY <2>2 DEF z
<1>4. Offsets(g, room, n)
  <2>1. ASSUME NEW k \in 1 .. n
        PROVE  g[k] = IF k = 1 THEN 0 ELSE next(g[k - 1])
    <3>1. CASE k = 1
      BY <1>3, <3>1
    <3>2. CASE k # 1
      <4> DEFINE l == k - 1
      <4>1. l \in 1 .. n /\ l < n
        BY <3>2
      <4>2. g[l] = SumTo(room, l - 1) /\ g[k] = SumTo(room, l)
        BY <4>1
      <4> HIDE DEF l, next, g
      <4>3. next(SumTo(room, l - 1)) = SumTo(room, l)
        BY <1>2, <4>1
      <4>4. g[k] = next(g[l])
        BY <4>2, <4>3
      <4> QED BY <3>2, <4>4 DEF l
    <3> QED BY <3>1, <3>2
  <2>2. g = [k \in 1 .. n |-> g[k]]
    OBVIOUS
  <2> HIDE DEF g
  <2> QED BY <2>1, <2>2 DEF Offsets
<1>5. Offsets(h, room, n)
  BY <1>4
<1> HIDE DEF g, h
<1>6. \A k \in 1 .. n : h[k] = IF k = 1 THEN 0 ELSE next(h[k - 1])
  BY <1>5 DEF Offsets
<1> DEFINE T == {k \in 1 .. n : h[k] = SumTo(room, k - 1)}
<1>7. ASSUME n > 0 PROVE \A k \in 1 .. n : k \in T
  <2>1. 1 \in T
    <3>1. 1 \in 1 .. n /\ 1 - 1 = 0
      BY <1>7
    <3>2. h[1] = 0
      BY <1>6, <3>1
    <3> QED BY <1>3, <3>1, <3>2
  <2>2. ASSUME NEW k \in 1 .. n, k < n, k \in T PROVE k + 1 \in T
    <3> DEFINE l == k + 1
    <3>1. l \in 1 .. n /\ l # 1 /\ l - 1 = k
      BY <2>2
    <3> HIDE DEF l, next
    <3>2. h[l] = next(h[k])
      BY <1>6, <3>1
    <3>3. h[k] = SumTo(room, k - 1)
      BY <2>2
    <3>4. next(SumTo(room, k - 1)) = SumTo(room, k)
      BY <1>2, <2>2
    <3>5. h[l] = SumTo(room, l - 1)
      BY <3>1, <3>2, <3>3, <3>4
    <3> QED BY <3>1, <3>5 DEF l
  <2>3. 1 \in Nat
    OBVIOUS
  <2> HIDE DEF T
  <2>4. Climbs(T, 1, n)
    BY <2>1, <2>2 DEF Climbs
  <2>5. Holds(T, 1, n)
    BY <2>3, <2>4, UpTo
  <2> QED BY <2>5 DEF Holds
<1>8. ASSUME NEW k \in 1 .. n PROVE h[k] = SumTo(room, k - 1)
  <2>1. n > 0
    OBVIOUS
  <2>2. k \in T
    <3> HIDE DEF T
    <3> QED BY <1>7, <2>1
  <2> QED BY <2>2
<1> QED BY <1>8 DEF h

(* The parts of the names that the client has.                             *)
LEMMA ReadNamesAre ==
    ASSUME NEW m, Made(m), m.type \in NameTypes,
           NEW n \in 0 .. Count(m), Names(m) = [i \in 1 .. n |-> i]
    PROVE  ReadNames(m) = [i \in 1 .. n |-> Parts(m)[i]]
<1> DEFINE names == Names(m)
           text == [k \in 1 .. Len(names) |-> NameText(m, names[k])]
           room == [k \in 1 .. Len(names) |-> TextLength(text[k]) + 1]
           total == SumTo(room, Len(names))
           h == CHOOSE f : Offsets(f, room, Len(names))
           value(k) == IF h[k] = SumTo(room, k - 1)
                         THEN dns_namedec(text[k], PartLength(room[1] - 1, total, h[k]), m.codec)
                         ELSE -3
<1>1. ReadNames(m) = [k \in 1 .. Len(names) |-> value(k)]
  BY DEF ReadNames, Offsets
<1>2. n \in Nat /\ Count(m) \in Nat /\ \A k \in 1 .. n : k \in 1 .. Count(m)
  BY PartsFacts
<1>3. Len(names) = n /\ \A k \in 1 .. n : names[k] = k
  BY <1>2
<1> HIDE DEF names
<1>4. \A k \in 1 .. n : text[k] = PartWords(m, k)
  <2>1. \A k \in 1 .. n : text[k] = NameText(m, k)
    BY <1>3
  <2>2. \A k \in 1 .. n : NameText(m, k) = PartWords(m, k)
    BY <1>2, PartNames
  <2> HIDE DEF text
  <2> QED BY <2>1, <2>2
<1> HIDE DEF text
<1>5. \A k \in 1 .. n : room[k] = TextLength(PartWords(m, k)) + 1
  BY <1>3, <1>4
<1> DEFINE r == room
<1>6. Even(r, n)
  <2> HIDE DEF room
  <2>1. ASSUME NEW k \in 1 .. n
        PROVE  /\ room[k] \in Nat /\ 1 <= room[k] /\ room[k] <= room[1]
               /\ k < n => room[k] = room[1]
    <3> DEFINE a == TextLength(PartWords(m, k))
               b == TextLength(PartWords(m, 1))
    <3>1. 1 \in 1 .. n /\ 1 \in 1 .. Count(m) /\ k \in 1 .. Count(m) /\ (k < n => k < Count(m))
      BY <1>2
    <3>2. room[k] = a + 1 /\ room[1] = b + 1
      BY <1>5, <3>1
    <3>3. a \in Nat /\ a <= b /\ (k < Count(m) => a = b)
      BY <3>1, PartNames
    <3>4. b \in Nat
      BY <3>1, PartNames
    <3> HIDE DEF a, b
    <3> QED BY <3>1, <3>2, <3>3, <3>4
  <2> QED BY <2>1 DEF Even
<1> HIDE DEF room
<1>7. total = SumTo(r, n) /\ h = CHOOSE f : Offsets(f, r, n)
  BY <1>3
<1> HIDE DEF r, total, h
<1>8. \A k \in 1 .. n : h[k] = SumTo(r, k - 1)
  BY <1>2, <1>6, <1>7, OffsetsAre
<1>9. ASSUME NEW k \in 1 .. n PROVE value(k) = Parts(m)[k]
  <2> DEFINE p == PartLength(r[1] - 1, total, h[k])
             a == TextLength(PartWords(m, k))
  <2>1. value(k) = dns_namedec(PartWords(m, k), p, m.codec)
    BY <1>4, <1>8 DEF r
  <2>2. p = PartLength(r[1] - 1, SumTo(r, n), SumTo(r, k - 1))
    BY <1>7, <1>8
  <2> HIDE DEF p
  <2>3. p = r[k] - 1 \/ p = r[k]
    BY <1>2, <1>6, <2>2, PartLengths
  <2>4. k \in 1 .. Count(m) /\ a \in Nat
    BY <1>2, PartNames
  <2>5. r[k] = a + 1
    BY <1>5 DEF r
  <2> HIDE DEF a
  <2>6. p \in {a, a + 1}
    BY <2>3, <2>4, <2>5
  <2>7. dns_namedec(PartWords(m, k), p, m.codec) = Parts(m)[k]
    BY <2>4, <2>6, PartNames DEF a
  <2> QED BY <2>1, <2>7
<1> HIDE DEF value
<1> QED BY <1>1, <1>3, <1>9

(* One name.                                                               *)
LEMMA ReadNameIs ==
    ASSUME NEW m, Made(m), m.type \in NameTypes, ~ Several(m),
           m.records \in Seq(1 .. Count(m)), m.records # << >>
    PROVE  ReadName(m) = Parts(m)
<1>1. Count(m) = 1 /\ 1 \in 1 .. Count(m)
  BY DEF Count
<1>2. Head(m.records) = 1
  <2>1. ASSUME NEW S, NEW s \in Seq(S), s # << >> PROVE Head(s) \in S
    BY <2>1
  <2>2. Head(m.records) \in 1 .. Count(m)
    <3> DEFINE S == 1 .. Count(m)
               s == m.records
    <3>1. s \in Seq(S) /\ s # << >>
      OBVIOUS
    <3> HIDE DEF S, s
    <3>2. Head(s) \in S
      BY <2>1, <3>1
    <3> QED BY <3>2 DEF S, s
  <2> QED BY <1>1, <2>2
<1> DEFINE w == PartWords(m, 1)
           a == TextLength(w)
<1>3. NameText(m, 1) = w /\ dns_namedec(w, a, m.codec) = Parts(m)[1]
  BY <1>1, PartNames
<1>4. ReadName(m) = <<dns_namedec(w, a, m.codec)>>
  BY <1>2, <1>3 DEF ReadName
<1>5. Parts(m) \in Seq(Nat) /\ Len(Parts(m)) = 1
  BY <1>1, PartsFacts
<1>6. Parts(m) = <<Parts(m)[1]>>
  BY <1>5
<1> QED BY <1>3, <1>4, <1>6

(* A text in chunks.                                                       *)
LEMMA ChunksSum ==
    ASSUME NEW n \in Nat, 1 <= n
    PROVE  SumTo(puttxtbin(n), Len(puttxtbin(n))) = n
<1> DEFINE N == ((n - 1) \div 252) + 1
           s == puttxtbin(n)
           T == {k \in 0 .. N : SumTo(s, k) = Smaller(252 * k, n)}
<1>1. N \in Nat /\ 1 <= N /\ 252 * (N - 1) < n /\ n <= 252 * N
  OBVIOUS
<1>2. s = [i \in 1 .. N |-> Smaller(252, n - (i - 1) * 252)]
  BY DEF puttxtbin
<1> HIDE DEF N, s
<1>3. Len(s) = N
  BY <1>1, <1>2
<1>4. ASSUME NEW i \in 1 .. N
      PROVE  s[i] \in Nat /\ (i < N => s[i] = 252) /\ (i = N => s[i] = n - 252 * (N - 1))
  <2>1. s[i] = Smaller(252, n - (i - 1) * 252)
    BY <1>2
  <2>2. CASE i < N
    <3>1. 252 <= n - (i - 1) * 252
      BY <1>1, <2>2
    <3> QED BY <2>1, <2>2, <3>1 DEF Smaller
  <2>3. CASE i = N
    <3>1. n - (i - 1) * 252 = n - 252 * (N - 1) /\ n - 252 * (N - 1) <= 252
          /\ n - 252 * (N - 1) \in Nat
      BY <1>1, <2>3
    <3>2. s[i] = n - 252 * (N - 1)
      BY <2>1, <3>1 DEF Smaller
    <3> QED BY <2>3, <3>1, <3>2
  <2> QED BY <1>1, <2>2, <2>3
<1>5. ASSUME NEW k \in 0 .. N
      PROVE  /\ k = 0 => SumTo(s, k) = 0
             /\ k > 0 => SumTo(s, k) = SumTo(s, k - 1) + s[k]
  <2>1. k \in Nat /\ \A i \in 1 .. k : s[i] \in Nat
    BY <1>1, <1>4
  <2> QED BY <2>1, SumFacts
<1>6. 0 \in T
  <2>1. 0 \in 0 .. N /\ Smaller(252 * 0, n) = 0
    BY <1>1 DEF Smaller
  <2> QED BY <1>5, <2>1
<1>7. ASSUME NEW k \in 0 .. N, k < N, k \in T PROVE k + 1 \in T
  <2> DEFINE l == k + 1
  <2>1. l \in 0 .. N /\ l \in 1 .. N /\ l > 0 /\ l - 1 = k
    BY <1>1, <1>7
  <2>2. Smaller(252 * k, n) = 252 * k
    BY <1>1, <1>7 DEF Smaller
  <2>3. SumTo(s, l) = 252 * k + s[l]
    <3> HIDE DEF l
    <3> QED BY <1>5, <1>7, <2>1, <2>2
  <2>4. CASE l < N
    <3>1. 252 * l <= n /\ 252 * k + 252 = 252 * l
      BY <1>1, <1>7, <2>4
    <3>2. s[l] = 252
      <4> HIDE DEF l
      <4> QED BY <1>4, <2>1, <2>4
    <3> QED BY <2>1, <2>3, <3>1, <3>2 DEF Smaller
  <2>5. CASE l = N
    <3>1. s[l] = n - 252 * (N - 1)
      <4> HIDE DEF l
      <4> QED BY <1>4, <2>1, <2>5
    <3>2. 252 * k + (n - 252 * (N - 1)) = n
      BY <1>1, <1>7, <2>5
    <3>3. Smaller(252 * l, n) = n
      BY <1>1, <2>5 DEF Smaller
    <3> QED BY <2>1, <2>3, <3>1, <3>2, <3>3
  <2> QED BY <1>1, <1>7, <2>4, <2>5
<1>8. 0 \in Nat
  OBVIOUS
<1> HIDE DEF T
<1>9. Climbs(T, 0, N)
  BY <1>6, <1>7 DEF Climbs
<1>10. Holds(T, 0, N)
  BY <1>1, <1>8, <1>9, UpTo
<1>11. SumTo(s, N) = Smaller(252 * N, n)
  <2>1. N \in 0 .. N
    BY <1>1
  <2> QED BY <1>10, <2>1 DEF Holds, T
<1>12. Smaller(252 * N, n) = n
  BY <1>1 DEF Smaller
<1> QED BY <1>3, <1>11, <1>12 DEF s

LEMMA ReadTextIs ==
    ASSUME NEW m, Made(m), m.type \notin NameTypes
    PROVE  ReadTxt(m) = Parts(m) /\ ReadNull(m) = Parts(m)
<1> DEFINE s == m.size
           c == m.codec
           chars == get_encoded_length(c, s)
           n == 1 + chars
<1>1. s \in Nat /\ 2 <= s /\ s <= 1536 /\ c \in AllCodecs \cup {Raw}
  BY DEF Made
<1>2. ~ Several(m) /\ PartBytes(m) = s
  BY PartBytesFacts
<1>3. Count(m) = 1
  BY <1>2 DEF Count
<1>4. Parts(m)[1] = s
  <2>1. Parts(m)[1] = Smaller(s, s)
    BY <1>2, PartsFacts
  <2> QED BY <1>1, <2>1 DEF Smaller
<1>5. Parts(m) = <<s>>
  <2>1. Parts(m) \in Seq(Nat) /\ Len(Parts(m)) = 1
    BY <1>3, PartsFacts
  <2>2. Parts(m) = <<Parts(m)[1]>>
    BY <2>1
  <2> QED BY <1>4, <2>2
<1>6. ReadTxt(m) = <<TextDec(readtxtbin(puttxtbin(n), RDATA), c)>>
  BY <1>4 DEF ReadTxt, PartChars
<1>7. ReadNull(m) = <<Smaller(s, RDATA)>>
  BY DEF ReadNull
<1> HIDE DEF s, c
<1>8. chars \in Nat /\ (c.raw * chars) \div c.enc = s /\ 1 <= chars /\ chars <= 2 * s
  BY <1>1, CharsDecoded
<1> HIDE DEF chars
<1>9. n \in Nat /\ 1 <= n /\ n <= RDATA /\ ~ (n < 2) /\ n - 1 = chars
  BY <1>1, <1>8 DEF RDATA
<1> HIDE DEF n
<1>10. SumTo(puttxtbin(n), Len(puttxtbin(n))) = n
  BY <1>9, ChunksSum
<1>11. readtxtbin(puttxtbin(n), RDATA) = n
  BY <1>9, <1>10 DEF readtxtbin
<1>12. TextDec(n, c) = s
  BY <1>8, <1>9 DEF TextDec
<1>13. Smaller(s, RDATA) = s
  BY <1>1 DEF Smaller, RDATA
<1> QED BY <1>5, <1>6, <1>7, <1>11, <1>12, <1>13

-----------------------------------------------------------------------------
(* What the client reads of an answer.                                     *)

LEMMA Beginnings ==
    ASSUME NEW t \in Seq(Nat)
    PROVE  /\ IsPrefix(<< >>, t) /\ IsPrefix(t, t)
           /\ \A n \in 0 .. Len(t) : IsPrefix([i \in 1 .. n |-> t[i]], t)
<1>1. IsPrefix(<< >>, t) /\ IsPrefix(t, t)
  BY DEF IsPrefix
<1>2. ASSUME NEW n \in 0 .. Len(t) PROVE IsPrefix([i \in 1 .. n |-> t[i]], t)
  <2> DEFINE s == [i \in 1 .. n |-> t[i]]
  <2>1. s \in Seq(Nat) /\ Len(s) = n /\ \A i \in 1 .. n : s[i] = t[i]
    OBVIOUS
  <2>2. SubSeq(s, 1, n) = [i \in 1 .. n |-> s[i]]
    OBVIOUS
  <2>3. SubSeq(t, 1, n) = [i \in 1 .. n |-> t[i]]
    OBVIOUS
  <2>4. SubSeq(s, 1, n) = SubSeq(t, 1, n)
    <3> HIDE DEF s
    <3> QED BY <2>1, <2>2, <2>3
  <2>5. Len(s) <= Len(t)
    BY <2>1
  <2> HIDE DEF s
  <2>6. IsPrefix(s, t)
    BY <2>1, <2>4, <2>5 DEF IsPrefix
  <2> QED BY <2>6 DEF s
<1> QED BY <1>1, <1>2

(* An answer as it arrives.                                                *)
Arrived(m) == Made(m) /\ m.records \in Seq(1 .. Count(m)) /\ m.cut \in BOOLEAN

(***************************************************************************)
(* The client reads the beginning of the data, all of it when all records   *)
(* have come, or finds an error.                                           *)
(***************************************************************************)
LEMMA ReadIs ==
    ASSUME NEW m, Arrived(m)
    PROVE  /\ ~ m.cut /\ ToSet(m.records) = 1 .. Len(Parts(m)) => read_dns_withq(m) = Parts(m)
           /\ read_dns_withq(m) # Failed => IsPrefix(read_dns_withq(m), Parts(m))
<1> DEFINE d == read_dns_withq(m)
           K == Count(m)
<1>1. /\ Made(m) /\ m.records \in Seq(1 .. K) /\ m.cut \in BOOLEAN
      /\ m.type \in NameTypes \cup {"NULL", "PRIVATE", "TXT"}
      /\ K \in Nat /\ 1 <= K /\ Parts(m) \in Seq(Nat) /\ Len(Parts(m)) = K
  BY PartsFacts DEF Arrived, Made
<1>2. /\ IsPrefix(<< >>, Parts(m)) /\ IsPrefix(Parts(m), Parts(m))
      /\ \A n \in 0 .. K : IsPrefix([i \in 1 .. n |-> Parts(m)[i]], Parts(m))
  BY <1>1, Beginnings
<1>3. CASE m.records = << >> /\ ~ m.cut
  <2>1. d = Failed
    BY <1>3 DEF read_dns_withq
  <2>2. ToSet(m.records) = {}
    BY <1>3 DEF ToSet
  <2>3. 1 \in 1 .. K
    BY <1>1
  <2>4. ToSet(m.records) # 1 .. Len(Parts(m))
    BY <1>1, <2>2, <2>3
  <2> QED BY <2>1, <2>4
<1>4. CASE m.cut /\ (m.records = << >> \/ Several(m))
  <2>1. d = << >>
    BY <1>4 DEF read_dns_withq, Several
  <2> QED BY <1>2, <1>4, <2>1
<1>5. CASE m.records # << >> /\ ~ m.cut /\ Several(m)
  <2>1. d = ReadNames(m)
    BY <1>5 DEF read_dns_withq, Several
  <2>2. m.type \in NameTypes
    BY <1>5 DEF Several, NameTypes
  <2>3. PICK n \in 0 .. K : /\ Names(m) = [i \in 1 .. n |-> i]
                            /\ ToSet(m.records) = 1 .. K => n = K
    BY <1>1, NamesAre
  <2>4. d = [i \in 1 .. n |-> Parts(m)[i]]
    BY <1>1, <2>1, <2>2, <2>3, ReadNamesAre
  <2>5. ASSUME ToSet(m.records) = 1 .. Len(Parts(m)) PROVE d = Parts(m)
    <3>1. n = K
      BY <1>1, <2>3, <2>5
    <3>2. Parts(m) = [i \in 1 .. Len(Parts(m)) |-> Parts(m)[i]]
      <4> DEFINE t == Parts(m)
      <4>1. t \in Seq(Nat)
        BY <1>1
      <4> HIDE DEF t
      <4>2. t = [i \in 1 .. Len(t) |-> t[i]]
        BY <4>1
      <4> QED BY <4>2 DEF t
    <3> QED BY <1>1, <2>4, <3>1, <3>2
  <2>6. IsPrefix(d, Parts(m))
    BY <1>2, <2>3, <2>4
  <2> QED BY <2>5, <2>6
<1>6. CASE m.records # << >> /\ m.type \in {"CNAME", "A"}
  <2>1. d = ReadName(m)
    BY <1>6 DEF read_dns_withq
  <2>2. m.type \in NameTypes /\ ~ Several(m)
    BY <1>6 DEF Several, NameTypes
  <2>3. d = Parts(m)
    BY <1>1, <1>6, <2>1, <2>2, ReadNameIs
  <2> QED BY <1>2, <2>3
<1>7. CASE m.records # << >> /\ m.type \in {"NULL", "PRIVATE", "TXT"}
  <2>1. d = ReadTxt(m) \/ d = ReadNull(m)
    BY <1>7 DEF read_dns_withq
  <2>2. m.type \notin NameTypes
    BY <1>7 DEF NameTypes
  <2>3. d = Parts(m)
    BY <1>1, <2>1, <2>2, ReadTextIs
  <2> QED BY <1>2, <2>3
<1>8. m.type \in {"CNAME", "A"} \/ Several(m) \/ m.type \in {"NULL", "PRIVATE", "TXT"}
  BY <1>1 DEF Several, NameTypes
<1> QED BY <1>3, <1>4, <1>5, <1>6, <1>7, <1>8

(* What the relay does not change.                                         *)
LEMMA SameParts ==
    ASSUME NEW m, NEW v, m.type = v.type, m.size = v.size, m.codec = v.codec
    PROVE  Count(m) = Count(v) /\ Parts(m) = Parts(v)
BY DEF Count, Several, Parts, PartBytes

LEMMA RelayedAre ==
    ASSUME NEW m, Made(m), NEW r \in Relayed(m)
    PROVE  r \in Seq(1 .. Count(m))
<1> DEFINE S == 1 .. Count(m)
<1>1. Count(m) \in Nat /\ Len(Parts(m)) = Count(m)
  BY PartsFacts
<1>2. r = [i \in S |-> i] \/ r \in BoundedSeq(S, MaxRecords) \/ r = << >>
  BY <1>1 DEF Relayed
<1>3. [i \in S |-> i] \in Seq(S)
  BY <1>1
<1>4. ASSUME NEW R, NEW s \in BoundedSeq(R, MaxRecords) PROVE s \in Seq(R)
  <2>1. MaxRecords \in Nat
    BY ExchangeAssumption
  <2>2. PICK k \in 0 .. MaxRecords : s \in [1 .. k -> R]
    BY DEF BoundedSeq, SeqOf
  <2> QED BY <2>1, <2>2
<1> HIDE DEF S
<1>5. << >> \in Seq(S)
  OBVIOUS
<1>6. r \in Seq(S)
  BY <1>2, <1>3, <1>4, <1>5
<1> QED BY <1>6 DEF S

AnswerInv ==
    /\ message # NoMessage => Arrived(message)
    /\ indata # NotRead => message # NoMessage /\ indata = read_dns_withq(message)

LEMMA AnsweredArrived ==
    ASSUME server_answers
    PROVE  Arrived(message')
<1>1. PICK t \in Types, n \in Sizes, c \in Codecs \cup {Raw}, cut \in BOOLEAN :
         LET m == [NoMessage EXCEPT !.type = t, !.size = n, !.codec = c]
         IN  /\ t \in {"NULL", "PRIVATE"} => c = Raw
             /\ t \in NameTypes => c # Raw
             /\ \E r \in Relayed(m) :
                   message' = [m EXCEPT !.records = r, !.cut = cut]
  BY DEF server_answers
<1> DEFINE m == [NoMessage EXCEPT !.type = t, !.size = n, !.codec = c]
<1>2. PICK r \in Relayed(m) : message' = [m EXCEPT !.records = r, !.cut = cut]
  BY <1>1
<1>3. t \in NameTypes => c # Raw
  BY <1>1
<1>4. m.type = t /\ m.size = n /\ m.codec = c
  BY DEF NoMessage
<1>5. /\ message'.type = t /\ message'.size = n /\ message'.codec = c
      /\ message'.records = r /\ message'.cut = cut
  BY <1>2 DEF NoMessage
<1> HIDE DEF m
<1>6. /\ t \in NameTypes \cup {"NULL", "PRIVATE", "TXT"}
      /\ n \in Nat /\ 2 <= n /\ n <= 1536
      /\ c \in AllCodecs \cup {Raw} /\ (t \in NameTypes => c \in AllCodecs)
  <2>1. t \in NameTypes \cup {"NULL", "PRIVATE", "TXT"}
    BY ExchangeAssumption
  <2>2. n \in 2 .. 1536
    BY ExchangeAssumption
  <2>3. c \in AllCodecs \cup {Raw}
    BY ExchangeAssumption DEF AllCodecs
  <2> QED BY <1>3, <2>1, <2>2, <2>3
<1>7. Made(m) /\ Made(message')
  BY <1>4, <1>5, <1>6 DEF Made
<1>8. r \in Seq(1 .. Count(m))
  BY <1>7, RelayedAre
<1>9. Count(message') = Count(m)
  BY <1>4, <1>5, SameParts
<1> QED BY <1>5, <1>7, <1>8, <1>9 DEF Arrived

LEMMA AnswerInvHolds == ExchangeSpec => []AnswerInv
<1>1. ExchangeInit => AnswerInv
  BY DEF ExchangeInit, AnswerInv
<1>2. AnswerInv /\ [ExchangeNext]_allvars => AnswerInv'
  <2> SUFFICES ASSUME AnswerInv, [ExchangeNext]_allvars PROVE AnswerInv'
    OBVIOUS
  <2>1. CASE NextName
    BY <2>1 DEF NextName, AnswerInv
  <2>2. CASE UNCHANGED <<message, indata>>
    BY <2>2 DEF AnswerInv
  <2>3. CASE server_answers
    <3>1. Arrived(message')
      BY <2>3, AnsweredArrived
    <3>2. indata' = NotRead
      BY <2>3 DEF server_answers, AnswerInv
    <3> QED BY <3>1, <3>2 DEF AnswerInv
  <2>4. CASE client_reads
    BY <2>4 DEF client_reads, AnswerInv
  <2>5. server_reads \/ UNCHANGED allvars => UNCHANGED <<message, indata>>
    BY DEF server_reads, allvars, exchange
  <2> QED BY <2>1, <2>2, <2>3, <2>4, <2>5 DEF ExchangeNext
<1> QED BY <1>1, <1>2, PTL DEF ExchangeSpec

(***************************************************************************)
(* If all the records of an answer arrive, in any order and however often,   *)
(* the client reads the data the server sent (dns_decode, read_dns_withq,   *)
(* dns_namedec): for every size, type and codec of an answer, and every      *)
(* length of the names in it.                                              *)
(***************************************************************************)
THEOREM AnswersWhole == ExchangeSpec => []AnswerWhole
<1>1. AnswerInv => AnswerWhole
  <2> SUFFICES ASSUME AnswerInv, indata # NotRead, ~ message.cut,
                      ToSet(message.records) = 1 .. Len(Parts(message))
               PROVE  indata = Parts(message)
    BY DEF AnswerWhole
  <2>1. Arrived(message) /\ indata = read_dns_withq(message)
    BY DEF AnswerInv
  <2> QED BY <2>1, ReadIs
<1> QED BY AnswerInvHolds, <1>1, PTL

(***************************************************************************)
(* If records are missing, the client reads the beginning of the data and   *)
(* nothing from behind the first gap.                                      *)
(***************************************************************************)
THEOREM AnswersInOrder == ExchangeSpec => []AnswerInOrder
<1>1. AnswerInv => AnswerInOrder
  <2> SUFFICES ASSUME AnswerInv, indata # NotRead, indata # Failed
               PROVE  IsPrefix(indata, Parts(message))
    BY DEF AnswerInOrder
  <2>1. Arrived(message) /\ indata = read_dns_withq(message)
    BY DEF AnswerInv
  <2> QED BY <2>1, ReadIs
<1> QED BY AnswerInvHolds, <1>1, PTL

=============================================================================
