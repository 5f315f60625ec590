----------------------------- MODULE DnsExchange -----------------------------
(***************************************************************************)
(* One DNS exchange: the client puts a name that build_hostname has made    *)
(* into a query (dns_encode), the server reads it back (dns_decode) and     *)
(* answers, the answer passes a relay, which may lose, repeat or shuffle    *)
(* its records or fail altogether, and the client decodes what is left      *)
(* (read_dns_withq).                                                       *)
(*                                                                         *)
(* A text is kept as the lengths of its words, the labels between the dots; *)
(* data is kept as a number of bytes for each part, the piece of an answer   *)
(* that travels in a record of its own. Modules Codec and Dotify show what  *)
(* is behind these numbers. The server itself is not in the repository: it  *)
(* is taken to follow the protocol.                                        *)
(***************************************************************************)
EXTENDS Hostname, SequencesExt

CONSTANTS
    Answered,   \* <<limit, topdomain, data>> of the names that are answered
    Types,      \* query types
    Codecs,     \* downstream codecs
    Sizes,      \* bytes of an answer
    NameChars,  \* characters of data in each name of an answer
    MaxRecords  \* bound of the model: an answer of more records arrives as sent,
                \* and no answer is made longer than this

NameTypes == {"CNAME", "A", "MX", "SRV"}
Raw == [raw |-> 1, enc |-> 1]

ASSUME ExchangeAssumption ==
    /\ Types \subseteq NameTypes \cup {"NULL", "PRIVATE", "TXT"}
    /\ Codecs \subseteq {Base32, Base64, Base128}
    /\ Sizes \subseteq 2 .. 1536    \* the range of the fragment size probe
    /\ NameChars \in 12 .. 245    \* room for the largest answer in MAXNAMES names
    /\ MaxRecords \in Nat

VARIABLES
    query,      \* the name the server has read
    message,    \* the answer, as it arrives at the client
    indata      \* what read_dns_withq returns: the bytes of each part

exchange == <<query, message, indata>>
allvars  == <<vars, exchange>>

NoQuery   == <<-1>>
NoMessage == [type |-> "none", size |-> 0, codec |-> Raw, records |-> <<>>, cut |-> FALSE]
NotRead   == <<-1>>
Failed    == <<-2>>

-----------------------------------------------------------------------------
(* Words.                                                                  *)

SumTo(s, n) ==
    LET sum[k \in 0 .. n] == IF k = 0 THEN 0 ELSE sum[k - 1] + s[k] IN sum[n]

(* Where word i begins in the text, counted from 0, and the length of it    *)
(* all, with the dots between the words.                                   *)
Start(words, i) == SumTo(words, i - 1) + i - 1
TextLength(words) == Start(words, Len(words) + 1) - 1

(* A text of n characters that ends with a dot, as inline_dotify leaves it, *)
(* and the words that follow.                                              *)
Words(n, tail) ==
    [i \in 1 .. n \div (DNS_MAXLABEL + 1) |-> DNS_MAXLABEL]
        \o (IF n % (DNS_MAXLABEL + 1) > 0 THEN <<(n % (DNS_MAXLABEL + 1)) - 1>> ELSE <<>>)
        \o tail

(* A topdomain of n characters: the last word is that of a country, the     *)
(* ones before it are no longer than they may be.                          *)
TopWords(n) ==
    LET half == (n - 4) \div 2
    IN  CASE n = 3 -> <<1, 1>>
          [] n \in 4 .. 66 -> <<n - 3, 2>>
          [] OTHER -> <<half, n - 4 - half, 2>>

NameWords == Words(name.length - topdomain, TopWords(topdomain))

-----------------------------------------------------------------------------
(* Names in a message: the words, each behind its length, and a 0.         *)

MAXWORD == 63
QUERY_NAME_SIZE == 256

(* putname: nothing is written when a word is too long or there is no room  *)
(* for it; the callers do not look.                                        *)
putname(words, room) ==
    IF \A i \in 1 .. Len(words) :
           words[i] <= MAXWORD /\ Start(words, i) + words[i] <= room
      THEN Append(words, 0) ELSE <<>>

(* Faulty: the last character of the buffer but one is never used.          *)
readname_short(wire, size) ==
    LET begun == {i \in 1 .. Len(wire) - 1 : Start(wire, i) < size - 2}
    IN  [i \in begun |-> Smaller(wire[i], size - 2 - Start(wire, i))]

(* readname, into a buffer of size characters: no word is begun when there  *)
(* is room for one character or none, and the last may be cut. A dot that  *)
(* nothing follows counts as an empty word. Names that refer to another     *)
(* name of the message read as the whole.                                  *)
readname(wire, size) ==
    LET begun == {i \in 1 .. Len(wire) - 1 : Start(wire, i) < size - 2}
        last  == Cardinality(begun)
        words == [i \in begun |-> Smaller(wire[i], size - 1 - Start(wire, i))]
        dot   == last > 0 /\ last < Len(wire) - 1
                   /\ Start(wire, last) + wire[last] < size - 1
    IN  words \o (IF dot THEN <<0>> ELSE <<>>)

(* dns_encode QR_QUERY at the client and dns_decode QR_QUERY at the server. *)
QueryRead(words) == readname(putname(words, TextLength(words)), QUERY_NAME_SIZE - 1)

server_reads ==
    /\ name # NoName /\ query = NoQuery
    /\ query' = QueryRead(NameWords)
    /\ UNCHANGED <<vars, message, indata>>

-----------------------------------------------------------------------------
(* Answers. The names of an answer are ended by ".xy", two characters that  *)
(* the server chooses; the first character tells the codec.                 *)

Suffix == <<2>>

PartBytes(m) ==
    IF m.type \in NameTypes THEN (m.codec.raw * NameChars) \div m.codec.enc ELSE m.size

(* The parts that the server makes of its data: one, or for MX and SRV as   *)
(* many as it takes.                                                       *)
Parts(m) ==
    LET all == ((m.size - 1) \div PartBytes(m)) + 1
    IN  [i \in 1 .. (IF m.type \in {"MX", "SRV"} THEN all ELSE 1) |->
            Smaller(PartBytes(m), m.size - (i - 1) * PartBytes(m))]

(* The text of part i: the first character and the data, and for a name     *)
(* its dots and suffix.                                                    *)
PartChars(m, i) == get_encoded_length(m.codec, Parts(m)[i])
PartWords(m, i) == Words(Ended(1 + PartChars(m, i)), Suffix)

(* External: the server answers the query; the relay passes the answer as   *)
(* it is, or some of its records, in any order and more than once, and may  *)
(* drop records at the end that the header still counts (cut); no records,  *)
(* and none counted, is an error.                                          *)
Relayed(m) ==
    LET parts == 1 .. Len(Parts(m))
    IN  {[i \in parts |-> i]} \cup
        (IF Len(Parts(m)) <= MaxRecords THEN BoundedSeq(parts, MaxRecords) ELSE {<<>>})

server_answers ==
    /\ query # NoQuery /\ message = NoMessage
    /\ <<hostname_maxlen, topdomain, name.data>> \in Answered
    /\ \E t \in Types, n \in Sizes, c \in Codecs \cup {Raw}, cut \in BOOLEAN :
          LET m == [NoMessage EXCEPT !.type = t, !.size = n, !.codec = c]
          IN  /\ t \in {"NULL", "PRIVATE"} => c = Raw
              /\ t \in NameTypes => c # Raw
              /\ \E r \in Relayed(m) :
                    message' = [m EXCEPT !.records = r, !.cut = cut]
    /\ UNCHANGED <<vars, query, indata>>

-----------------------------------------------------------------------------
(* The client.                                                             *)

RDATA == 4096       \* the client's buffer for the data of a record
MAXNAMES == 249     \* records have the preferences 10, 20, .. 2490

(* puttxtbin and readtxtbin: the chunks of a text, and the text, if it fits. *)
puttxtbin(n) ==
    [i \in 1 .. ((n - 1) \div 252) + 1 |-> Smaller(252, n - (i - 1) * 252)]
readtxtbin(chunks, room) ==
    LET n == SumTo(chunks, Len(chunks)) IN IF n <= room THEN n ELSE 0

(* Faulty: names are taken in the order in which they come; gaps are jumped *)
(* over.                                                                   *)
names_arriving(m) == m.records
names_jumping(m) ==
    SelectSeq([i \in 1 .. MAXNAMES |-> i], LAMBDA i : i \in ToSet(m.records))

(* dns_decode, the answers to MX and SRV: each name goes to the place that  *)
(* its preference says, and those before the first gap are returned.       *)
Names(m) ==
    [i \in {n \in 1 .. MAXNAMES : 1 .. n \subseteq ToSet(m.records)} |-> i]

NameText(m, i) == readname(putname(PartWords(m, i), QUERY_NAME_SIZE), QUERY_NAME_SIZE - 1)

(* dns_namedec of a name, given the length it is told: the characters from  *)
(* the second to the fourth from the end, without the dots among them.     *)
dns_namedec(words, buflen, codec) ==
    LET dots == {i \in 1 .. Len(words) - 1 : Start(words, i + 1) \in 2 .. buflen - 3}
    IN  IF buflen < 5 THEN 0
        ELSE (codec.raw * (buflen - 4 - Cardinality(dots))) \div codec.enc

(* ... and of a text, behind its first character.                          *)
TextDec(length, codec) ==
    IF length < 2 THEN 0 ELSE (codec.raw * (length - 1)) \div codec.enc

(* read_dns_withq takes every name to be as long as the first, or to end    *)
(* with the text.                                                          *)
PartLength(first, total, offset) == Smaller(first, total - offset)

(* The loop over the names: where it looks for name i, and what it reads    *)
(* there. Bytes decoded from a wrong place would count as -3.              *)
ReadNames(m) ==
    LET names == Names(m)
        text  == [k \in 1 .. Len(names) |-> NameText(m, names[k])]
        room  == [k \in 1 .. Len(names) |-> TextLength(text[k]) + 1]
        total == SumTo(room, Len(names))
        part(offset) == PartLength(room[1] - 1, total, offset)
        offset[k \in 1 .. Len(names)] ==
            IF k = 1 THEN 0 ELSE offset[k - 1] + part(offset[k - 1]) + 1
    IN  [k \in 1 .. Len(names) |->
            IF offset[k] = SumTo(room, k - 1)
              THEN dns_namedec(text[k], part(offset[k]), m.codec) ELSE -3]

(* The other types: one record, the first, with a name, with chunks of text *)
(* or with the data as it is.                                              *)
ReadName(m) ==
    LET text == NameText(m, Head(m.records))
    IN  <<dns_namedec(text, TextLength(text), m.codec)>>

ReadTxt(m) == <<TextDec(readtxtbin(puttxtbin(1 + PartChars(m, 1)), RDATA), m.codec)>>

ReadNull(m) == <<Smaller(m.size, RDATA)>>

(* read_dns_withq: an answer without records is an error, one with fewer    *)
(* than its header counts is useless, as far as the client has to read them. *)
read_dns_withq(m) ==
    LET several == m.type \in {"MX", "SRV"}
    IN  CASE m.records = <<>> /\ ~m.cut -> Failed
          [] m.cut /\ (m.records = <<>> \/ several) -> <<>>
          [] m.records # <<>> /\ ~m.cut /\ several -> ReadNames(m)
          [] m.records # <<>> /\ m.type \in {"CNAME", "A"} -> ReadName(m)
          [] m.records # <<>> /\ m.type = "TXT" -> ReadTxt(m)
          [] m.records # <<>> /\ m.type \in {"NULL", "PRIVATE"} -> ReadNull(m)

client_reads ==
    /\ message # NoMessage /\ indata = NotRead
    /\ indata' = read_dns_withq(message)
    /\ UNCHANGED <<vars, query, message>>

-----------------------------------------------------------------------------
(* The next query is built when the exchange is over. A query that is lost  *)
(* changes nothing, and is left out.                                       *)
ExchangeInit == Init /\ query = NoQuery /\ message = NoMessage /\ indata = NotRead

NextName ==
    /\ name # NoName => query # NoQuery
    /\ message # NoMessage => indata # NotRead
    /\ Next
    /\ query' = NoQuery /\ message' = NoMessage /\ indata' = NotRead

ExchangeNext == NextName \/ server_reads \/ server_answers \/ client_reads

ExchangeSpec == ExchangeInit /\ [][ExchangeNext]_allvars

-----------------------------------------------------------------------------
(* Properties.                                                             *)

(* The server reads the name that the client has built, word by word: none  *)
(* is longer than a label may be, and the room that putname asks for and    *)
(* the buffer that readname fills are enough up to the last character. (A   *)
(* last word of one character, the 254th of the name, would be lost.)      *)
QueryArrives ==
    Roomy /\ query # NoQuery /\ (name.length < 254 \/ Last(NameWords) > 1)
    => query = NameWords

(* Whatever the order in which a relay puts the records, and however often  *)
(* it repeats them, if all of them arrive the client reads the data that    *)
(* the server sent, to the byte ("some DNS relays will shuffle the answer   *)
(* records", doc/proto_00000800.txt:253).                                  *)
AnswerWhole ==
    indata # NotRead /\ ~message.cut
      /\ ToSet(message.records) = 1 .. Len(Parts(message))
    => indata = Parts(message)

(* If records are missing, the client reads the parts before the first gap  *)
(* and nothing from behind it, so that what it reads is the beginning of    *)
(* the data ("without gaps", doc/proto_00000800.txt:252).                  *)
AnswerInOrder ==
    indata \notin {NotRead, Failed} => IsPrefix(indata, Parts(message))

=============================================================================
