------------------------------ MODULE Hostname ------------------------------
(***************************************************************************)
(* How much data goes into one query name.  The client works out once, in  *)
(* get_raw_length_from_dns, how many bytes a fragment may have, and cuts   *)
(* its packets by that; build_hostname works out for each name how many    *)
(* characters there is room for, and encodes as much of the fragment as    *)
(* fits.  The two must agree, because what does not fit is dropped without *)
(* notice: send_next_frag and send_packet ignore what build_hostname       *)
(* returns.                                                                *)
(*                                                                         *)
(* Only lengths are kept: module Codec shows what encode does with a given *)
(* room, module Dotify what the dots add.                                  *)
(***************************************************************************)
EXTENDS Integers

CONSTANTS Maxlens,      \* values of hostname_maxlen (option -M, or of the app)
          Topdomains,   \* lengths of the topdomain
          Switched,     \* codecs that a switch may end with
          Messages      \* lengths of the messages of send_packet, with their CMC

DNS_MAXLABEL == 59
UPSTREAM_HDR == 6     \* user, CMC and four characters of fragment header
PACKET_HDR == 2       \* command and user, or command and codec
VERSION_HDR == 1      \* command

VERSION_DATA == 8     \* the version and four bytes of CMC
DOWNENC_DATA == 5     \* the variant and four bytes of CMC
PROBE_DATA == 258     \* the size asked for, 254 bytes to fill the name, CMC

ASSUME MaxlensAssumption == Maxlens \subseteq 65..255
ASSUME TopdomainsAssumption == Topdomains \subseteq 3..128     \* check_topdomain
(* Two bytes of CMC; the longest data is that of the login (data[100]).    *)
ASSUME MessagesAssumption == Messages \subseteq 2..102

(* The codecs by their blocks: raw bytes and characters.                   *)
Base32  == [raw |-> 5, enc |-> 8]
Base64  == [raw |-> 3, enc |-> 4]
Base128 == [raw |-> 7, enc |-> 8]
ASSUME SwitchedAssumption == Switched \subseteq {Base64, Base128}

VARIABLES hostname_maxlen, topdomain,
          dataenc, maxfragsize_up,
          maxfraglen,   \* of the outgoing buffer, once there is one
          name          \* the name built last

vars == <<hostname_maxlen, topdomain, dataenc, maxfragsize_up, maxfraglen, name>>

NoBuffer == 0
NoName == [data |-> 0, used |-> 0, length |-> 0]

----------------------------------------------------------------------------
(***************************************************************************)
(* Differences of size_t wrap around to numbers beyond all lengths.        *)
(***************************************************************************)
Huge == 1000000
Minus(a, b) == IF a >= b THEN a - b ELSE Huge

Smaller(a, b) == IF a <= b THEN a ELSE b
get_encoded_length(c, n) ==
  (c.enc * n) \div c.raw + (IF (c.enc * n) % c.raw > 0 THEN 1 ELSE 0)
get_raw_length(c, n) ==
  (c.raw * n) \div c.enc + (IF (c.raw * n) % c.enc > 0 THEN 1 ELSE 0)

get_raw_length_from_dns(enc_bytes, c, top) ==
  LET enc_datalen == Minus(enc_bytes, top + 2)
      dots == 1 + enc_datalen \div DNS_MAXLABEL
  IN  get_raw_length(c, Minus(enc_datalen, dots))

(***************************************************************************)
(* build_hostname: the characters there is room for, what encode makes of  *)
(* them, the dots of inline_dotify, which counts the header in, a dot      *)
(* before the topdomain unless one is there already, and the topdomain.    *)
(***************************************************************************)
(* Mutants: the dots inside the data are forgotten, or counted twice.      *)
SpaceUndotted(maxlen, top) == Minus(maxlen, top + 2)
SpaceDotsTwice(maxlen, top) == Minus(maxlen, top + 2 * (maxlen \div DNS_MAXLABEL) + 2)
Space(maxlen, top) == Minus(maxlen, top + maxlen \div DNS_MAXLABEL + 2)
Used(c, space, n) == Smaller(n, (c.raw * space) \div c.enc)

Dotted(n) == n + n \div DNS_MAXLABEL
Ended(n) == IF n % DNS_MAXLABEL = 0 /\ n > 0 THEN Dotted(n) ELSE Dotted(n) + 1

build_hostname(n, top, c, maxlen, header) ==
  LET used == Used(c, Space(maxlen - header, top), n)
  IN  [data |-> n, used |-> used,
       length |-> Ended(header + get_encoded_length(c, used)) + top]

----------------------------------------------------------------------------
Init ==
  /\ hostname_maxlen \in Maxlens /\ topdomain \in Topdomains
  /\ dataenc = Base32
  /\ maxfragsize_up = 100
  /\ maxfraglen = NoBuffer /\ name = NoName

(* The server has switched: fragments may have another size from now on.   *)
handshake_switch_codec ==
  /\ maxfraglen = NoBuffer /\ dataenc = Base32
  /\ dataenc' \in Switched
  /\ maxfragsize_up' =
       get_raw_length_from_dns(hostname_maxlen - UPSTREAM_HDR, dataenc', topdomain)
  /\ UNCHANGED <<hostname_maxlen, topdomain, maxfraglen, name>>

(* The end of the handshake makes the outgoing buffer.                     *)
window_buffer_init ==
  /\ maxfraglen = NoBuffer
  /\ maxfraglen' = maxfragsize_up
  /\ UNCHANGED <<hostname_maxlen, topdomain, dataenc, maxfragsize_up, name>>

(* A name is built, for the most part in Base32.                           *)
Send(n, c, header) ==
  /\ name' = build_hostname(n, topdomain, c, hostname_maxlen, header)
  /\ UNCHANGED <<hostname_maxlen, topdomain, dataenc, maxfragsize_up, maxfraglen>>

send_version == Send(VERSION_DATA, Base32, VERSION_HDR)
send_downenctest == Send(DOWNENC_DATA, Base32, PACKET_HDR)

(* Login, ping, options and the other messages.                            *)
send_packet == \E n \in Messages : Send(n, Base32, PACKET_HDR)

(* Too much for any name: "a large query domain which is [...] maximum     *)
(* size"; only the size asked for, its first two bytes, is read.           *)
send_fragsize_probe == Send(PROBE_DATA, Base32, PACKET_HDR)

(* A fragment of a packet, full or the rest of it.  MaxData bounds the     *)
(* packets where the size of a fragment does not.                          *)
MaxData == 255
send_next_frag ==
  /\ maxfraglen # NoBuffer
  /\ \E n \in 1..Smaller(maxfraglen, MaxData) : Send(n, dataenc, UPSTREAM_HDR)

Next ==
  \/ handshake_switch_codec
  \/ window_buffer_init
  \/ send_version
  \/ send_downenctest
  \/ send_packet
  \/ send_fragsize_probe
  \/ send_next_frag

Spec == Init /\ [][Next]_vars

----------------------------------------------------------------------------
TypeOK ==
  /\ hostname_maxlen \in Maxlens /\ topdomain \in Topdomains
  /\ dataenc \in {Base32} \cup Switched
  /\ maxfragsize_up \in Nat /\ maxfraglen \in Nat
  /\ name \in [data : Nat, used : Nat, length : Nat]

(***************************************************************************)
(* There is room in a name for the topdomain, the dots and something else. *)
(***************************************************************************)
Roomy == hostname_maxlen - PACKET_HDR >= topdomain + (hostname_maxlen - PACKET_HDR) \div DNS_MAXLABEL + 2
      /\ hostname_maxlen - UPSTREAM_HDR >= topdomain + (hostname_maxlen - UPSTREAM_HDR) \div DNS_MAXLABEL + 2

(***************************************************************************)
(* No name is longer than the option allows, whatever the codec and        *)
(* however many dots fall into the header, the data and before the         *)
(* topdomain (man page, -M: "Maximum length of upstream hostnames").       *)
(***************************************************************************)
NameFits == Roomy => name.length <= hostname_maxlen

(***************************************************************************)
(* There is room for 164 more, what 102 bytes need in Base32: with the      *)
(* limit of the start, 255, beside a topdomain of up to 83 characters, with *)
(* that of the app, 200 (DnsVpnService.java:91), of up to 29.               *)
(***************************************************************************)
Wide == hostname_maxlen - PACKET_HDR >= topdomain + (hostname_maxlen - PACKET_HDR) \div DNS_MAXLABEL + 2 + 164

(***************************************************************************)
(* With such a limit and the codec of the start every message and every    *)
(* fragment goes whole into its name: fragments of 100 bytes are small      *)
(* enough (iodine.c:81). A probe is cut, but not the size that it asks for. *)
(***************************************************************************)
Probe == name.data = PROBE_DATA

DefaultWhole ==
  Wide /\ dataenc = Base32 => IF Probe THEN name.used >= 2 ELSE name.used = name.data

(***************************************************************************)
(* "the maximum length of raw data that can be encoded" (encoding.c:24): a  *)
(* fragment is never longer than what its name has room for.               *)
(***************************************************************************)
NothingCut == ~Probe => name.used = name.data
=============================================================================
