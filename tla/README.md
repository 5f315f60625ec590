# AEIodine in TLA+

AEIodine is an Android app that carries IP traffic in DNS queries and answers.
It wraps the client of iodine (the development branch with a windowing
protocol), written in C: the directory `jni/iodine/src`. The server iodined is
not in the repository; what the client relies on of it is modelled from how
the client uses it and marked external.

Paths below are relative to `src/app/src/main/jni/iodine/src/` unless they
name a Java file (`src/app/src/main/java/space/potatofrom/aeiodine/`) or
`iodine-client.c` (`src/app/src/main/jni/`).

## Inventory

| Part | State | Operations | What is hard about it | What makes it correct |
|---|---|---|---|---|
| Windowing protocol (`window.c`) | a ring of fragments, cursors `window_start`, `last_write`, `chunk_start`, ids `start_seq_id`, `cur_seq_id`, a count | queue a packet, send or resend the next fragment, acknowledge, store an incoming fragment, put packets together, move the window | loss, duplication, reordering; ids that wrap at 256; a ring that wraps at 64; a window, an unfinished packet and free slots that share one ring | packets come out once, whole, in order; nothing acknowledged is lost; cursors and count agree |
| Client main loop (`client.c`, `client_tunnel`, `tunnel_dns`) | table of pending queries, counters, the pending acknowledgement, the next query id, when to send a ping | send queries, take answers, time out queries, react to errors, lazy and immediate mode | the server may only talk when it holds a query; answers late, twice or never; a table that fills up | the client never stops asking; counters never say less than the table; no acknowledgement is overwritten |
| Handshake (`client_handshake`) | what the client has chosen (codec, lazy mode, EDNS0, sizes) | version, login, raw login, tests, switches, probes, each with retries | a lost answer to a request the server has acted on; answers to earlier tries | both ends agree on codec and mode; only codecs the path carries; it ends |
| Probes (`handshake_autoprobe_fragsize`, `handshake_qtype_autodetect`) | proposed size, range, best so far | rounds of tries | numeric edges of a search; answers that come after the wait | the result works and is nearly the best |
| Codecs (`base32.c`, `base64.c`, `base64u.c`, `base128.c`) | none | encode, decode, lengths | output that fills up in the middle of a byte | the round trip, the lengths |
| Query names (`encoding.c`) | limit, fragment size | build a name, put in and take out dots | two formulas for one size; loops in place | names fit, data is whole |
| DNS messages (`dns.c`, `read.c`, parts of `client.c`) | a message | encode, decode, put the parts of an answer together in order of preference | relays that shuffle, repeat or drop records; buffers that end at different characters | the server reads the name that was sent; an answer is read whole or as its beginning |
| Adaptation (`update_server_timeout`, SERVFAIL counter) | round-trip statistics, time-outs, mode | adapt time-outs, fall back to immediate mode | three values that follow each other, changed at different places; thresholds of 500 ms and of every fifth SERVFAIL | the server answers before the client stops waiting; the target is not reduced to nothing; lazy mode is given up in the end |
| Users (`user.c`), forwarded queries (`fw_query.c`) | table of users, ring of queries | assign addresses, time out, look up | addresses of the whole net, time-outs, a ring that overwrites | one user to an address |
| Android service (`DnsVpnService.java`, `MainActivity.java`, `iodine-client.c`) | static status, receivers, threads, the one global native client | connect, tunnel, stop, broadcasts | three kinds of threads and broadcasts with no lock | the status is true, stop is called once, buttons do not hang |
| Login hash, tun device, options, settings screens | -- | I/O, pure functions | -- | not modelled |

How they interact: the activity starts the service; the service's thread calls
`connect` (the handshake) and `tunnel` (the main loop), and broadcasts its
status. The handshake chooses codec, mode and sizes and then makes the two
window buffers and the query table. The main loop reads packets from the tun
device into the sending buffer, sends each fragment in the name of a query,
takes acknowledgements and fragments out of answers, and writes the packets
that the receiving buffer puts together to the tun device. All of this is one
thread; the concurrency is with the network, the server and the Android
threads.

## Modules

| Module | Models | State and actions |
|---|---|---|
| `FragBuffer` | `window.c`, both kinds of buffer, as operators on a record | a function of the buffer for each C function: `window_add_outgoing_data`, `window_ack`, `window_tick_sending`, `window_tick_recving`, `window_process_incoming_fragment`, `window_reassemble_data` |
| `SendWindow` | the sending end (`tunnel_tun`, `send_next_frag`, the acknowledgement in `tunnel_dns`) | `outbuf`; `Queue`, `SendFrag`, `TakeAck` |
| `ChunkFifo` | abstract: packets go in whole and come out once and in order | `offered`, `delivered` |
| `RecvWindow` | the receiving end (`tunnel_dns`) against any network | `inbuf`, what was written to the tun device, and histories of the stream; implements `ChunkFifo` |
| `WindowTransfer` | both ends and the path between them | extends `SendWindow` and `RecvWindow`; `ReadTun`, `Transmit` (which also ages what is under way), `ArriveFrag`, `ArriveAck`, `Lose`; implements `RecvWindow` |
| `QueryTable` | `check_pending_queries`, `query_sent_now`, `got_response` | operators on the table and its counters |
| `ClientTunnel` | `client_tunnel` with all branches of `tunnel_dns` | `Loop` is the part of the loop before select, one step; an answer of each kind, a time-out and the end are steps |
| `Handshake` | `client_handshake`, every step | what the client and the server have chosen, the step and try, messages under way with an age |
| `FragsizeProbe`, `QtypeProbe` | the two searches | one step for each try |
| `Probes` | both, in the order of `client_handshake` | composes the two; only the type goes from one to the other |
| `Adaptation` | `handshake_set_timeout`, `update_server_timeout`, the measuring part of `got_response`, the SERVFAIL branch of `tunnel_dns` | the statistics and the time-outs as numbers, `lazymode`, `num_servfail`; `handshake_set_timeout` is one ping, `Answer` an answer in the tunnel, and a SERVFAIL is `Reduce`, `LastDitch` or `Ignore`; `waited` is a history for a property |
| `PathLearning` | all that the client finds out about the path, in its order | composes `Probes` and `Adaptation` |
| `Codec` | the four codecs | one step for each character written and byte read |
| `Dotify` | `inline_dotify`, `inline_undotify`, the dot before the topdomain | one step for each round of the loops |
| `NameText` | the text of a name from one end to the other | composes `Codec` and `Dotify`: encode, dots in, dots out, decode, behind a header |
| `Hostname` | `build_hostname`, `get_raw_length_from_dns` and all callers | lengths only; a step for each kind of message: version, test of the downstream codec, `send_packet`, probe of the fragment size (which fills any name and is cut), fragment |
| `DnsExchange` | `dns_encode`, `dns_decode`, `readname`, `putname`, `readtxtbin`, `read_dns_withq`, `dns_namedec` | extends `Hostname`; `query`, `message`, `indata`; a name is built, read by the server (`server_reads`), answered and relayed (`server_answers`, the making and relaying external), and read (`client_reads`) |
| `VpnService` | service, activity, native glue | one step for each read or write of something shared; broadcasts in queues |

Modules that begin with `MC` give TLC its constants, and modules that end with
`_proofs` hold the proofs about the module they are named after and the parts it
is composed of: `WindowTransfer_proofs` begins with those about `RecvWindow`,
`DnsExchange_proofs` with those about `Hostname`. An operator whose
comment says *faulty* or *mutant* is no part of the system: it is a plausible
mistake in the definition that follows it, kept to show that a property would
notice it.

### How the abstractions were chosen

* Time-outs are nondeterministic: a query or fragment may time out whenever it
  waits. Every order of time-out and answer is in the model, also orders that
  real delays would make rare.
* In `WindowTransfer` a fragment's number is also its data, so that two
  fragments that share a sequence id can be told apart by the properties.
  Acknowledgements are messages of their own; in the code they ride on queries
  and answers, in any combination with fragments, which the model allows.
* `Handshake` numbers no queries: an answer's age says whether it belongs to the
  query in progress (the id check in `handshake_waitdns`) or an earlier one.
* `Codec` gives each bit of the data its own label: one behaviour stands for all
  values of the data. The alphabets name characters one for one and are left
  out.
* `Hostname` has all the callers of `build_hostname`. `send_upenctest` puts its
  name together itself, without limits, and is left out.
* `Hostname` keeps lengths; `Codec` and `Dotify` show by bits and characters
  what those lengths are. `DnsExchange` keeps the lengths of the words of a name
  and the bytes of each part of an answer; bytes read at a wrong place count as
  -3, which no part of an answer is.
* `Adaptation` has the milliseconds themselves, because the thresholds and
  roundings are what could be wrong. The variable `immediate` in `tunnel_dns` is
  read before anything has written it (`client.c:1113`): any answer may be
  measured or not. Nothing goes from the searches of `Probes` to `Adaptation`,
  so `PathLearning` forgets the one when the other begins.

## Runs

Every run is listed with its properties in `PROJECT.json`. All of them end
with the whole state space explored, unless they are expected to find a
violation.

| Run | Question | Bounds and why they are enough |
|---|---|---|
| `send_window` | do cursors, count, order and flow control hold for any acknowledgements? | 4 slots, 6 ids, window 3, packets of one to three pieces: ring and ids wrap at different times, several times over |
| `recv_window` | are packets whole, once, in order; is what was acknowledged kept; how many complete packets stay behind? | 5 slots, 9 ids, windows 3, packets of up to 2, a stream of 12: more than two turns of the ring and one of the ids, overtaking by 2; a fragment that comes late completes two packets, of which one comes out |
| `window_transfer` | is the sender the one the receiver relies on, and is nothing lost between them? | 9 fragments, 8 ids: an acknowledgement of the first round can meet the second |
| `window_transfer_live` | is everything acknowledged in the end? | windows of 2, 3 slots, 6 ids, 6 fragments in packets of 1: the ring goes round twice, fragments and acknowledgements overtake each other |
| `client_tunnel` | do the table and its counters agree, is no acknowledgement overwritten, does the client always ask again? | a table of 2 for windows of 2, so that it overflows; 3 ids, so that they wrap while queries wait |
| `handshake` | is the client never ahead of the server, is the codec one that the path carries, is the round-trip time defined, does the handshake end? | four kinds of path and options, which between them take every branch; answers may be late by one try; two messages at a time |
| `path_learning` | do the type and the size found work, and are they nearly the best; do the time-outs fit each other, does the target stay, is lazy mode given up when SERVFAILs go on? | all 7 types, each answering at once, at the last time-out, too late or never; limits from 0 to 800, past the middle of the range, and around its end (for all others there is the proof), with and without relays that corrupt; targets of 100, 1100 (which comes to just 500) and 5000 ms; round trips of 60 and 3000 ms and waits of 1 to 5 s for pings that are lost; two answers measured in the tunnel (`MaxSamples` 7 with the five pings), with up to two misses left from an earlier connection, so that there are as many as it takes to raise the target; any number not measured; any number of SERVFAILs (the counter goes round after 44) |
| `name_text` | does the data come back through encoding, dots and back; are the lengths and the labels right? | up to 9 bytes and 18 characters: more than one turn of each unrolled loop, at every place where the output may fill up; labels of 5 in place of 59, so that a name has up to four, with the headers of 2 and 6 that the client uses |
| `dns_exchange` | is no name too long, is nothing cut with the codec of the start (that all fits, and all of the following, is also proved for every value of the constants); does the server read the name that was sent; is an answer read whole, or as its beginning, when a relay shuffles, repeats or drops its records? | limits 100, 200 and 255, all topdomains, all fragments, labels of 59, and every name read at the server; one name is answered (`Answered`: nothing else of it enters the answer), with 2 to 1536 bytes around the sizes at which one, two and three names of 245 characters (`NameChars`) are full, every codec; answers of up to three names in any order, relays making up to four records of them (`MaxRecords`) |
| `hostname_switched` | (violation) is nothing cut after a codec switch? | limit 255, topdomains up to 83 characters |
| `vpn_service` | is the status true, and do the buttons not stay disabled? | two connections that may overlap, any number of presses of both buttons and of pauses; that the status is true is proved for any number of connections |
| `vpn_service_twice` | (violation) does the end of a tunnel leave a stopped service alone? | one connection: its thread, the main thread and the button |

### What the violations show

Details and the lines they contradict are under `findings` in `PROJECT.json`.

* After a codec switch, `get_raw_length_from_dns` may allow a fragment one byte
  that `build_hostname` does not encode; nobody looks at its result, so the last
  byte of every full fragment is lost for most topdomains of 12 or more
  characters.
* A connection's thread looks whether the service is stopped before it calls
  `stop()` (`DnsVpnService.java:184`), with no lock. In the trace the tunnel is
  open, the user disconnects, and the main thread is in `stop()` when the native
  loop ends by itself (60 s without downstream data): the thread reads CONNECTED
  and goes on to `stop()`, the main thread runs all of its own, and the thread
  finds STOPPED, passes over the first two tests and throws
  `IllegalStateException` at the third (line 140). If both pass the first test
  the slower one throws `IllegalArgumentException` instead, because the receiver
  is gone (line 129); the model has that as well.

### Disagreements seen, and not kept as runs

These are behaviours the models have. The properties that are checked are stated
so that they hold with them; each but that of downstream fragments, which is between
lines of the code and the documents, was seen as a counterexample to a stronger
property while the model was written.

* Size of upstream fragments: `maxfragsize_up` starts as 100 (`iodine.c:81`,
  `iodine-client.c:119`) and is worked out anew after a codec switch only.
  `client_set_hostname_maxlen`, which would do it, has no caller. With Base32
  and the limit of 200 of the app (`DnsVpnService.java:91`, and `-M 200` in
  `README.md:182-184`) a name has room for 189 characters less those of the
  topdomain, and 100 bytes need 160: with topdomains of 30 or more characters the
  end of every full fragment is cut (`Hostname`; `DefaultWhole` asks for the
  room, `Wide`).
* Size of downstream fragments: for the best size found, `max_fragsize`,
  `client.c:2495-2496` says "data header adds 6 bytes" and "will use" 6 less; the
  next `return` gives 2 less (`client.c:2509`, `Result`), and that is what the
  server is told. `doc/proto_00000800.txt:193-194` says that payloads are 2 bytes
  longer than that; but the client takes answers with headers of 3 or, with the
  data of a ping, 7 bytes (`common.h:106-107`). If the server adds those to the
  size it is told, full answers are 1 or 5 bytes longer than the probe that came
  whole. Which it does is up to the server, which is not here: `ProbeFits` is
  about the best size, and says nothing of the answers.
* Windows: packets that with the window fill the ring of 64, and windows of more
  than 32 (`man/iodine.8:299-302` thinks of 128), lose fragments that were
  acknowledged (`RecvWindow` with `MaxChunk + SendWindowSize > Length`, or
  `2 * SendWindowSize - 1 > Length`).
* One packet at most is put together for each fragment received
  (`client.c:1163`), and a late fragment may complete several: with windows of
  more than one, complete packets stay in the receiving buffer until more
  fragments come, and the last of a stream for good. They are never as many
  as to fill a window (`FewLeftBehind`, proved for every window), so that there is
  room for the next one in every ring that `RecvFits` lets pass.
* Idle: a query just given up is counted as pending for one more round
  (`client.c:227`), so the client waits with fewer queries at the server than
  `man/iodine.8:295-298` promises. After an empty answer a query goes out at once
  where the comment at `client.c:1132-1135` promises a pause. The query id can be
  0, which `client.c:341-342` wants to avoid (`ClientTunnel`).
* Handshake: if the answers to the codec switch are lost, the server has the new
  codec and the client the old one (`doc/proto_00000800.txt:133-134`). If options
  are refused or unanswered the client keeps `lazymode` and the server does not
  (`client.c:2364`: "Falling back to previous configuration"). Pings without an
  answer count as immediate answers in the round-trip time (`client.c:2570`).
* Service: `changeStatus` writes the status and broadcasts it afterwards, so two
  threads may broadcast in the other order and the activity goes on showing
  CONNECTED after the stop. With three connections that overlap, `stop()` may
  take the status of the next connection for its own: a service is stopped with
  its receiver still registered (Android tidies up then, which is not modelled),
  or a connection runs in a service whose receiver is gone (`VpnService`).
* `tunnel()` does not store the descriptor it is given in `this.tun_fd`
  (`iodine-client.c:164`), so the loop uses descriptor 0.
* With the default limit of 255 a name may have 254 characters, one more than
  fits in the 255 bytes a name has on the wire. If its last label has one
  character, `readname` at the server stops before it (`read.c:38`,
  `QueryArrives` leaves that name out; no top-level domain has one character).
* The code for `send_query_sendcnt` (`client.c:360-397`) never runs: the counter
  starts as 0 (`client.c:1215`) and is only counted up from above 0. A 16-bit
  time-out wraps for targets above 65 s (`client.c:468`), which `iodine.c:559`
  does not refuse; and the raised target and `server_timeout_ms` of 1000 are not
  told to the server before the next update that sends a ping
  (`client.c:1255`). `AnswersInTime` is about the client's `server_timeout_ms`,
  not about what the server has been told. `num_rtt_timeouts` is static
  (`client.c:171`) and keeps its value from one connection of the app to the next.
* On a path with an average of about 0.7 s or more, SERVFAILs alone do not end
  lazy mode: the third miss raises the target before it comes below 500 ms, again
  and again (`LastDitchTried` asks for an average below 700 ms). If the request
  for immediate mode is not answered, the client stays lazy with the time-outs of
  immediate mode.

### Fairness

Safety properties need none. `window_transfer_live` assumes that the loop sends
each fragment that waits again and again (select returns after a time-out, and
resending stamps the fragment so that others get their turn) and that a message
sent for ever arrives for ever (strong fairness on arrival: without it the path
may lose everything). `client_tunnel` assumes that the loop goes on, that select
returns, and that a query that waits for ever is found overdue; nothing of the
network. `handshake` assumes that the client goes on, each wait of
`handshake_waitdns` having a time-out, and nothing of the network.
`vpn_service` assumes that threads go on and broadcasts are delivered, nothing
of user or network.

## Proofs

TLAPS checks the proofs, and with them the properties of the runs hold for every
value of the constants that the named `ASSUME`s of the modules let pass (the
runs check those for their own). Each proof was made in the same way: the
inductive invariant was first checked by TLC on the run's states, then proved,
one step for each action. Every invariant and action property is proved that is
not listed under *Only model-checked* below.

### Windowing protocol

`SendWindow_proofs`: for every ring, id space (`Length < MaxSeqId`), window
and set of packets, and any acknowledgements at all, what `send_window` checks.
The invariant `SendIInv` is the conjunction of type, `Contiguous`,
`InFlightBounded` and `WindowSettled` (`SendCoherent` is `Contiguous`,
`UniqueSeqIds` and `WindowSettled`): the first step of each operation needs
`Contiguous` to know which slot is which, flow control needs the slots outside
the window to be untouched, and the two action properties follow from the
invariant at both ends of a step. Its first part has what the operators of
`FragBuffer` do, which the next two proofs use as well: what `window_tick` leaves
(by the number of leading acknowledged fragments, a least number, so that no
induction over the loop is needed) and what `window_add_outgoing_data` appends.

`WindowTransfer_proofs`, first part: what `recv_window` checks, and that the receiving end
implements `ChunkFifo` (`InOrderOnce`). The assumption is `RecvFits`: a packet and
a window fit the ring together, so do two windows but one, and a late fragment has
been overtaken by so few others that its id is not one of the ring's again. With
the deployed 256 ids, 64 slots and windows of 8 these are packets of up to 56
fragments and fragments overtaken by up to 190; each part is needed, the models
lose fragments without it (see above). The invariant `InvAt(m)` says everything in
terms of two numbers, the next fragment to come out and the first one missing,
`m`: the window stands at `m`, each slot holds the one fragment that belongs in it
or nothing, and complete packets pile up only when fewer fragments than a window
are stored. That last part is what keeps room in the ring although
`window_reassemble_data` is called once for each fragment, and it gives
`FewAlwaysLeft`.

`WindowTransfer_proofs`, second part: the two ends together. The sending buffer holds the end
of the stream (`HoldsStream`), what it has let go of has arrived, what arrives was
sent (`Between`), and everything under way has been overtaken by at most `MaxAge`
(`OnTheWay`); so two fragments that share an id are too far apart for an
acknowledgement of one to be under way while the other is in the sender's ring.
From this, every step of the sender is one that the receiver allows for
(`SenderKeepsWindow`), and all that is proved of the receiver alone holds of the
tunnel: packets come out whole, once and in order (`EndToEnd`), nothing is lost,
nothing is released before it has arrived, the windows meet. The new assumption
(`TransferAssumption`) is that the path may let a fragment be overtaken by the
others of its window at least.

### Client main loop

`ClientTunnel_proofs`: for every table, range of ids and windows, `num_timeouts`
covers the entries given up, `num_pending` those that wait, and an acknowledgement
leaves before the next fragment is taken in. The invariant adds that the client
waits only when there is nothing to acknowledge. `check_pending_queries`,
`query_sent_now` and `got_response` each have a lemma about the two counts and the
two sets of entries; the steps of the loop follow from them. That the count of
time-outs covers *all* given-up entries, also the overwritten ones, is what makes
`got_response` count one off safely.

### Handshake and adaptation

`Handshake_proofs`: for every set of paths and options, any number of messages
under way and any age of theirs, the client is never ahead of the server
(`NeverAhead`), uses only what the path carries (`OnlyWhatIsCarried`), and has
answers to divide by (`RttAlwaysDefined`). The invariant says what each message
under way may mean: an answer to the query in progress belongs to the test in
progress (`LastQuery`), an answer of any age to the codec switch is one to the
only switch there is (`Switched`), an answer to a pattern was echoed by the path
(`Echoed`), and the tests passed so far say what the path carries (`TestsPassed`,
`Found`).

`PathLearning_proofs`: for every set of limits and of answer times, whatever is lost
or corrupted, the searches; for every target, any round-trip times and any number
of answers, misses and SERVFAILs, the adaptation.

* `SizeFits`: a proposal is at least the range (so that halving leaves it above 1),
  together they stay within 1536, and the best size came whole or is none. It
  is below the proposal by the range at least (`Ahead`), and a round moves the
  proposal by half of that, so that none comes back to it.
* `SizeClose`: as long as no probe was lost, the best size and the limit are on
  either side of the proposal within the range, and each round halves it
  (`Window`); the one range that is not halved exactly, 3, is why `Reach` is 2 at
  the end and why the result may be 2 below a small limit.
* `TypeBest`: the types tried in a round do not answer within its wait unless one
  was lost.
* `AlwaysInTime`, `AlwaysTargetKept`: types (the divisions are by positive
  numbers), and the time-outs follow the average from the first measured ping of
  the handshake on. Each operator on the statistics has a lemma that says what it
  leaves; all steps of the tunnel are instances of one lemma about such results.
* `LastDitchInTime`: every fifth SERVFAIL takes 200 ms from the target, and a
  third miss puts it up to 1.7 s at most once before it is below 500 ms. The
  invariant `PatientInv` counts the reductions that are left (`Reductions`, at
  most six more while such a miss may still come) and the SERVFAILs to the next
  one, and their sum stays within `Patience`.
* The parts are joined by one more: no size is known before the search for it,
  which may be over another path.

### Names

`DnsExchange_proofs`, first part, proves `NameFits` for every limit from 65 to 255, every
topdomain that `check_topdomain` lets pass, every codec and every data. The
point is that `build_hostname` reserves dots for the text without the header
while `inline_dotify` counts the header in. It also proves `DefaultWhole`: with
the codec of the start and room for 164 characters (`Wide`: topdomains of up to 83
with the limit of 255, of up to 29 with the app's 200) there is place for 100 bytes
of a fragment and for 102 of a message, which is just what the largest message may
have (`data[100]` of `send_login`, and the CMC). Both are stated of `Spec` of
`Hostname`, and again of `ExchangeSpec` (`ExchangeNamesFit`): a step of
`DnsExchange` is one of its steps or leaves its variables as they are.

`NameText_proofs`: the four codecs with the dots between them, for every number
of bytes, header, length of labels, room for characters and room for bytes; the
one assumption (`TextAssumption`) is that the buffer holds the longest text with
its dots and NUL, as the callers' buffers do. The loops are steps of the state
machine, so that what they leave after any number of rounds is an inductive
invariant and needs no induction over data: `IInv` is `Phases` (which loop runs),
`Coding` and `Dotting`.

* `Coding`: character `j` of the text has the bits from `Width * j` on of the data
  with its pad, byte `i` those from `8 * i` on. The rows of the unrolled loops
  enter by two lemmas only (`WriteRows`, `ReadRows`): at each
  place of the cycle the row takes the bits that follow, and says rightly whether
  a byte is complete. That encode takes back the character which completes nothing
  is what makes the lengths agree.
* `Dotting`: while the dots go in from the end, what is behind the writer is as it
  will be, what is before the reader is as it was, and the distance between the two
  is the number of dots still to come, so the writer overwrites only what has been
  read; the loop that takes them out is the same seen from the front.

### DNS messages

`DnsExchange_proofs`, second part: what `dns_exchange` checks of queries and
answers, for every limit, topdomain, message, type, codec and size of an answer of
the fragment size probe, and every order, choice and repetition of records. The
assumption on `NameChars` (12 to 245) is that the server's names fit a message and
that the largest answer fits the 249 preferences.

* Where a word of a name begins is a sum over the words before it (`SumTo`, a
  recursive function). That it has the value its definition says, and what holds of
  it from each place to the next, is proved by the least place at which it would
  not (`LeastElement`, `UpTo`), which the prover can do where it cannot use the
  induction theorems.
* `QueryArrives`: `Words` leaves no word empty (`EndedFacts`: the dots put in never
  leave a remainder of one character, the dot itself) and none too long, and
  `build_hostname` leaves a name of 254 characters at most (`BuiltFits`), whose last
  word begins before the place at which `readname` stops (`ReadWhole`).
* `AnswerWhole` and `AnswerInOrder`: the invariant `AnswerInv` says that what the
  client has read is `read_dns_withq` of an answer as the server and the relay can
  make it; the rest is what `read_dns_withq` does with one (`ReadIs`). Names are
  taken up to the first gap (`NamesAre`). `read_dns_withq` takes every name to be as
  long as the first: all but the last are, and the last is no longer (`PartNames`,
  `EndedGrows`), so each is found where it is, with or without its NUL
  (`PartLengths`, `OffsetsAre`), and `dns_namedec` decodes the same bytes either way,
  because the dot before the suffix is left out in the one case only
  (`NameDecoded`).

### Android service

`VpnService_proofs` proves `ConnectedHasTunnel` for any number of connections.
All the steps of a thread are instances of one lemma: a step keeps the property
if it does not take the last holder of a tunnel away while the status is
CONNECTED. The part the invariant adds is that a thread that has not been
started has no object and holds nothing.

### Only model-checked

Liveness under fairness, which the prover does not handle: `SenderDrains`,
`NeverStarved`, `Finishes`, `NotStuckStarting`. All the other
properties of the passing runs are proved; the two that the code does not have
(`NothingCut`, and that of `vpn_service_twice`) are refuted by their runs.

## Plan

Done: the windowing protocol, both ends and together; the main loop; the handshake
with its probes; the adaptation to round-trip times and SERVFAILs; codecs, names and
DNS messages; the Android service; and the proofs of the safety properties of all of
these.

Next:

1. Composition: `ClientTunnel` with the two window buffers in place of the
   abstract fragments, so that acknowledgement, query and fragment are one
   message.
2. `NameText` as what `Hostname` promises of a name: that the lengths of the one are
   those of the other is so by definition of each, and could be a refinement.

## Not modelled

`user.c` and `fw_query.c`: the server's table of users and its ring of
forwarded queries. Nothing in the repository calls them, and what they depend on
(who sets `last_pkt`, `host`, `authenticated`, `created_users`, and when a
forwarded query is taken) is in the server only, so that a model of them would
be one of guesses.

Of `dns.c`, `dns_encode_ns_response` and `dns_encode_a_response`, which only the
server calls; compression pointers are read as the names they stand for; a
message that ends inside a record is left out (UDP brings a datagram whole, and
relays cut at records).

`login.c` and `md5.c` (a pure function, taken as right or wrong), `tun.c` (system
calls), option parsing and socket set-up in `iodine.c`, `common.c` and `util.c`,
the settings screens, and the server, which is not here. Memory layout, log
texts, notifications and preferences are left out everywhere.
