----------------------------- MODULE Handshake -----------------------------
(***************************************************************************)
(* The handshake of the client with the server (client.c, client_handshake  *)
(* and the handshake_ functions it calls): version, login, the test for raw *)
(* UDP, the test for EDNS0, the search for the codecs that the DNS path     *)
(* carries, and the switch of the server to what was found.                 *)
(*                                                                         *)
(* Each function sends one query and waits for its answer, up to a number   *)
(* of tries. The path loses, delays and duplicates queries and answers: an  *)
(* old query may still switch the server, and an old answer may come while  *)
(* another is awaited. handshake_waitdns takes only an answer with the id   *)
(* of the last query. Here a message has, in place of its id, its age: how  *)
(* many queries the client has sent since (0: the last one); what is older  *)
(* than MaxAge is lost.                                                     *)
(*                                                                         *)
(* The search for the query type and for the fragment size are modelled in  *)
(* QtypeProbe and FragsizeProbe; here they end in one way or another. The   *)
(* server is the iodined that doc/proto_00000800.txt describes, and not     *)
(* part of this repository. Waiting times are left out.                     *)
(***************************************************************************)
EXTENDS Naturals, Sequences, FiniteSets

CONSTANTS
    Setups,     \* the options given to the client and what the path carries
    MaxAge,     \* how many later queries may overtake a message
    MaxAway     \* bound of the model: messages under way

ASSUME HandshakeAssumption == MaxAge \in Nat /\ MaxAway \in Nat \ {0}

(* The strings of handshake_upenc_autodetect, in the order of their tests.  *)
Patterns == {"128a", "128b", "128c", "128d", "128e", "64", "64u"}

Downstream == {"S", "U", "V", "R"}  \* Base64, Base64u, Base128, Raw

(* up: the patterns that arrive unchanged; swaps: letters change their      *)
(* case; down: the downstream codecs that arrive unchanged; edns0: the      *)
(* relay answers queries with that extension.                               *)
Path == [ up : SUBSET Patterns, swaps : BOOLEAN, down : SUBSET Downstream,
          edns0 : BOOLEAN ]

(* qtype: the query type that was found or asked for, CNAME standing for    *)
(* the types that carry host names.                                        *)
Setup == [ path : Path, qtype : {"NULL", "TXT", "CNAME"}, raw_mode : BOOLEAN,
           use_remote_forward : BOOLEAN, lazymode : BOOLEAN ]

ASSUME SetupAssumption == Setups \subseteq Setup

VARIABLES
    path, qtype, raw_mode, use_remote_forward,  \* as in Setup; they do not change
    remote_forward_connected,
    phase, test,    \* the function that runs, and what it tests or switches to
    try,        \* its loop counter
    waiting,    \* whether it is in handshake_waitdns
    edns0,      \* dnsc_use_edns0
    dataenc, downenc, lazymode, conn,
    num_immediate,  \* answers the average round-trip time is taken of
    running,
    server,     \* codec, denc, lazy, raw: what the server has been switched to
    net         \* queries and answers under way

options == <<path, qtype, raw_mode, use_remote_forward>>
client  == <<edns0, dataenc, downenc, lazymode, conn, remote_forward_connected>>
control == <<phase, test, try, waiting>>
vars == <<options, client, num_immediate, control, running, server, net>>

(* The letter a query begins with, which its answers are known by, and how  *)
(* many there are of it at most.                                            *)
Letter == [ version |-> "V", login |-> "L", ip |-> "I", raw |-> "raw",
            edns0 |-> "Y", upenc |-> "Z", codec |-> "S", downenc |-> "Y",
            options |-> "O", fragsize |-> "N", timeout |-> "P" ]

Tries == [ version |-> 5, login |-> 5, ip |-> 3, raw |-> 4, edns0 |-> 3,
           upenc |-> 3, codec |-> 5, downenc |-> 3, options |-> 5,
           fragsize |-> 5, timeout |-> 5 ]

Asking == DOMAIN Letter

Init ==
    /\ \E s \in Setups :
           /\ path = s.path /\ qtype = s.qtype /\ raw_mode = s.raw_mode
           /\ use_remote_forward = s.use_remote_forward /\ lazymode = s.lazymode
    /\ remote_forward_connected = 0
    /\ phase = "version" /\ test = "" /\ try = 0 /\ waiting = FALSE
    /\ edns0 = FALSE
    /\ dataenc = "Base32" /\ downenc = " "
    /\ conn = "dns"
    /\ num_immediate = 0
    /\ running = TRUE
    /\ server = [codec |-> "Base32", denc |-> " ", lazy |-> FALSE, raw |-> FALSE]
    /\ net = {}

-----------------------------------------------------------------------------
(* Sending.                                                                *)

(* send_login: what it asks for.                                           *)
LoginArg ==
    CASE remote_forward_connected = 2 -> "poll"
      [] use_remote_forward /\ remote_forward_connected # 2 -> "forward"
      [] OTHER -> "plain"

Arg ==
    CASE phase = "login" -> LoginArg
      [] phase = "edns0" -> "plain"
      [] phase \in {"upenc", "codec", "downenc"} -> test
      [] phase = "options" -> downenc
      [] OTHER -> ""

Aged == {[m EXCEPT !.age = @ + 1] : m \in {n \in net : n.age < MaxAge}}

(* One more query of the function that runs.                               *)
Send ==
    /\ phase \in Asking /\ ~ waiting
    /\ running
    /\ \E old \in SUBSET Aged :
           /\ Cardinality(old) < MaxAway
           /\ net' = old \cup { [ to |-> "server", cmd |-> Letter[phase], arg |-> Arg,
                                  lazy |-> lazymode, age |-> 0 ] }
    /\ waiting' = TRUE
    /\ UNCHANGED <<options, client, num_immediate, phase, test, try, running, server>>

(* An interrupt; the function that runs notices at its next try, and        *)
(* client_handshake after it. That of handshake_set_timeout is the last.    *)
Interrupt ==
    /\ running
    /\ phase \notin {"done", "failed"}
    /\ running' = FALSE
    /\ UNCHANGED <<options, client, num_immediate, control, server, net>>

Stop ==
    /\ ~ running /\ ~ waiting
    /\ phase \notin {"done", "failed"}
    /\ phase' = IF phase = "timeout" THEN "done" ELSE "failed"
    /\ UNCHANGED <<options, client, num_immediate, test, try, waiting, running, server, net>>

-----------------------------------------------------------------------------
(* The path and the server.                                                *)

Switch(q) ==
    CASE q.cmd = "S"   -> [server EXCEPT !.codec = q.arg]
      [] q.cmd = "O"   -> [server EXCEPT !.denc = q.arg, !.lazy = q.lazy]
      [] q.cmd = "raw" -> [server EXCEPT !.raw = TRUE]
      [] OTHER         -> server

(* What the answers to query q say when they arrive; "refused" is for       *)
(* BADCODEC, BADIP, BADLEN and BADFRAG, which leave the server as it is.    *)
Accepting(q) ==
    CASE q.cmd = "V" -> {"VACK"}
      [] q.cmd = "L" -> IF q.arg = "plain" THEN {"I"} ELSE {"C", "W"}
      [] q.cmd = "Z" -> IF path.swaps THEN {"swapped"}
                        ELSE IF q.arg \in path.up THEN {q.arg} ELSE {"changed"}
      [] q.cmd = "Y" -> IF q.arg \in path.down \cup {"plain"}
                        THEN {"intact"} ELSE {"changed"}
      [] q.cmd = "O" -> {q.arg, "other"}
      [] OTHER       -> {"accepted"}

Refusing(q) ==
    CASE q.cmd = "V" -> {"VNAK", "VFUL"}
      [] q.cmd = "L" -> {"LNAK", "E"}
      [] q.cmd \in {"S", "O", "N", "P"} -> {"refused"}
      [] OTHER       -> {}

Answer(q, says) == [ to |-> "client", cmd |-> q.cmd, arg |-> says, age |-> q.age ]

(* A query reaches the server; a copy of it may reach it later.             *)
Serve ==
    \E q \in {m \in net : m.to = "server"}, kept \in BOOLEAN :
        LET rest == IF kept THEN net ELSE net \ {q} IN
        /\ \/ /\ q.cmd # "Y" \/ path.edns0 \/ ~ edns0
              /\ server' = Switch(q)
              /\ \E says \in Accepting(q) : net' = rest \cup {Answer(q, says)}
           \/ \E says \in Refusing(q) :
              /\ net' = rest \cup {Answer(q, says)}
              /\ UNCHANGED server
        /\ Cardinality(net') <= MaxAway
        /\ UNCHANGED <<options, client, num_immediate, control, running>>

Lose ==
    \E m \in net :
        /\ net' = net \ {m}
        /\ UNCHANGED <<options, client, num_immediate, control, running, server>>

-----------------------------------------------------------------------------
(* handshake_waitdns: the answers the client takes for the one it awaits.   *)

(* Faulty: by their first letter only.                                     *)
FitsAnyId(m) == m.to = "client" /\ m.cmd = Letter[phase]

Fits(m) == m.to = "client" /\ m.cmd = Letter[phase] /\ m.age = 0

(* Any other is read and ignored.                                          *)
Ignore ==
    \E m \in {n \in net : n.to = "client"} :
        /\ waiting /\ phase # "raw"
        /\ ~ Fits(m)
        /\ net' = net \ {m}
        /\ UNCHANGED <<options, client, num_immediate, control, running, server>>

(* The last wait ends with says, which is an answer, "error" for an answer  *)
(* that is a DNS error, or "nothing" for a timeout or a useless answer; a   *)
(* duplicate of the answer may come later.                                  *)
Results == {"error", "nothing"}

Wait(says) ==
    /\ phase \in Asking /\ waiting
    /\ waiting' = FALSE
    /\ \/ /\ says \in Results
          /\ UNCHANGED net
       \/ \E m \in {n \in net : Fits(n)} :
              /\ m.arg = says
              /\ net' \in {net, net \ {m}}
    /\ UNCHANGED <<options, running, server>>

Go(p, t) == phase' = p /\ test' = t /\ try' = 0

(* Once more, or p and t when there has been the last try.                  *)
Again(p, t) ==
    IF try + 1 < Tries[phase]
    THEN try' = try + 1 /\ UNCHANGED <<phase, test>>
    ELSE Go(p, t)

-----------------------------------------------------------------------------
(* The functions, each from the end of a wait to its next query or its end. *)

handshake_version(says) ==
    /\ phase = "version" /\ Wait(says)
    /\ CASE says = "VACK" -> Go("login", "")
         [] says \in {"VNAK", "VFUL"} -> Go("failed", "")
         [] OTHER -> Again("failed", "")
    /\ UNCHANGED <<client, num_immediate>>

AfterLogin == IF raw_mode THEN "ip" ELSE "edns0"

(* Faulty: while the server waits for its connection, the tries do not count.*)
login_uncounted(says) ==
    /\ phase = "login" /\ Wait(says)
    /\ CASE says = "LNAK" \/ (says = "E" /\ use_remote_forward) -> Go("failed", "")
         [] says = "I" \/ (says = "C" /\ use_remote_forward) -> Go(AfterLogin, "")
         [] says = "W" -> UNCHANGED <<phase, test, try>>
         [] OTHER -> Again("failed", "")
    /\ remote_forward_connected' =
         CASE says = "C" /\ use_remote_forward -> 1
           [] says = "W" /\ use_remote_forward /\ remote_forward_connected # 1 -> 2
           [] OTHER -> remote_forward_connected
    /\ edns0' = (phase' = "edns0")
    /\ UNCHANGED <<dataenc, downenc, lazymode, conn, num_immediate>>

(* A "W" is a try, too: five polls at most.                                *)
handshake_login(says) ==
    /\ phase = "login" /\ Wait(says)
    /\ CASE says = "LNAK" \/ (says = "E" /\ use_remote_forward) -> Go("failed", "")
         [] says = "I" \/ (says = "C" /\ use_remote_forward) -> Go(AfterLogin, "")
         [] OTHER -> Again("failed", "")
    /\ remote_forward_connected' =
         CASE says = "C" /\ use_remote_forward -> 1
           [] says = "W" /\ use_remote_forward /\ remote_forward_connected # 1 -> 2
           [] OTHER -> remote_forward_connected
    /\ edns0' = (phase' = "edns0")
    /\ UNCHANGED <<dataenc, downenc, lazymode, conn, num_immediate>>

(* handshake_raw_udp: the server's address is asked for ...                 *)
handshake_raw_ip(says) ==
    /\ phase = "ip" /\ Wait(says)
    /\ IF says = "accepted" THEN Go("raw", "") ELSE Again("edns0", "")
    /\ edns0' = (phase' = "edns0")
    /\ UNCHANGED <<dataenc, downenc, lazymode, conn, remote_forward_connected, num_immediate>>

(* ... and it is tried. Whatever arrives ends the wait, and it is not       *)
(* matched to a query: an old answer of the DNS path costs one try.         *)
handshake_raw_udp ==
    /\ phase = "raw" /\ waiting /\ waiting' = FALSE
    /\ \/ \E m \in {n \in net : n.to = "client"} :
              /\ net' = net \ {m}
              /\ IF m.cmd = "raw"
                 THEN Go("done", "") /\ conn' = "raw"
                 ELSE Again("edns0", "") /\ UNCHANGED conn
       \/ UNCHANGED <<net, conn>> /\ Again("edns0", "")
    /\ edns0' = (phase' = "edns0")
    /\ UNCHANGED <<options, dataenc, downenc, lazymode, remote_forward_connected,
                   num_immediate, running, server>>

handshake_edns0_check(says) ==
    /\ phase = "edns0" /\ Wait(says)
    /\ CASE says = "nothing" -> Again("upenc", "128a")
         [] OTHER -> Go("upenc", "128a")
    /\ edns0' = (phase' = "edns0" \/ says = "intact")
    /\ UNCHANGED <<dataenc, downenc, lazymode, conn, remote_forward_connected, num_immediate>>

(* client_handshake after the search for the upstream codec: nothing is to  *)
(* be searched downstream when the query type only knows raw data.          *)
GoDownenc ==
    IF downenc # " " THEN Go("options", "") /\ UNCHANGED downenc
    ELSE IF qtype = "NULL" THEN Go("options", "") /\ downenc' = "R"
    ELSE Go("downenc", "S") /\ UNCHANGED downenc

(* handshake_upenc_autodetect.                                             *)
AfterPass(t) ==
    CASE t = "128a" -> <<"upenc", "128b">>
      [] t = "128b" -> <<"upenc", "128c">>
      [] t = "128c" -> <<"upenc", "128d">>
      [] t = "128d" -> <<"upenc", "128e">>
      [] t = "128e" -> <<"codec", "Base128">>
      [] t = "64"   -> <<"codec", "Base64">>
      [] t = "64u"  -> <<"codec", "Base64u">>

GoOnFail(t) ==
    CASE t = "64"  -> Go("upenc", "64u") /\ UNCHANGED downenc
      [] t = "64u" -> GoDownenc
      [] OTHER     -> Go("upenc", "64") /\ UNCHANGED downenc

handshake_upenctest(says) ==
    /\ phase = "upenc" /\ Wait(says)
    /\ CASE says = test -> Go(AfterPass(test)[1], AfterPass(test)[2]) /\ UNCHANGED downenc
         [] says = "swapped" -> GoDownenc
         [] says = "nothing" /\ try + 1 < Tries.upenc ->
                Again("upenc", test) /\ UNCHANGED downenc
         [] OTHER -> GoOnFail(test)
    /\ UNCHANGED <<edns0, dataenc, lazymode, conn, remote_forward_connected, num_immediate>>

(* Faulty: no answer is taken for a yes.                                   *)
handshake_switch_assumed(says) ==
    /\ phase = "codec" /\ Wait(says)
    /\ IF says \in Results /\ try + 1 < Tries.codec
       THEN Again("codec", test) /\ UNCHANGED <<downenc, dataenc>>
       ELSE GoDownenc /\ dataenc' = IF says = "refused" THEN dataenc ELSE test
    /\ UNCHANGED <<edns0, lazymode, conn, remote_forward_connected, num_immediate>>

handshake_switch_codec(says) ==
    /\ phase = "codec" /\ Wait(says)
    /\ IF says \in Results /\ try + 1 < Tries.codec
       THEN Again("codec", test) /\ UNCHANGED <<downenc, dataenc>>
       ELSE GoDownenc /\ dataenc' = IF says = "accepted" THEN test ELSE dataenc
    /\ UNCHANGED <<edns0, lazymode, conn, remote_forward_connected, num_immediate>>

(* handshake_downenc_autodetect. While Base128 is tested, downenc holds     *)
(* what is fallen back to, base64ok or base64uok.                           *)
handshake_downenctest(says) ==
    /\ phase = "downenc" /\ Wait(says)
    /\ CASE says = "nothing" /\ try + 1 < Tries.downenc ->
                Again("downenc", test) /\ UNCHANGED downenc
         [] says = "intact" /\ test \in {"S", "U"} -> Go("downenc", "V") /\ downenc' = test
         [] says = "intact" /\ test = "V" ->
                /\ downenc' = "V"
                /\ IF qtype = "TXT" THEN Go("downenc", "R") ELSE Go("options", "")
         [] says = "intact" /\ test = "R" -> Go("options", "") /\ downenc' = "R"
         [] OTHER -> /\ IF test = "S" THEN Go("downenc", "U") ELSE Go("options", "")
                     /\ UNCHANGED downenc
    /\ UNCHANGED <<edns0, dataenc, lazymode, conn, remote_forward_connected, num_immediate>>

(* handshake_switch_options; an answer that names another codec is taken    *)
(* for an invalid one.                                                      *)
handshake_switch_options(says) ==
    /\ phase = "options" /\ Wait(says)
    /\ IF says \in {downenc, "refused"} THEN Go("probe", "") ELSE Again("probe", "")
    /\ UNCHANGED <<client, num_immediate>>

(* handshake_autoprobe_fragsize.                                           *)
handshake_autoprobe_fragsize ==
    /\ phase = "probe" /\ running
    /\ \E p \in {"fragsize", "failed"} : Go(p, "")
    /\ net' \in SUBSET net
    /\ UNCHANGED <<options, client, num_immediate, waiting, running, server>>

handshake_set_fragsize(says) ==
    /\ phase = "fragsize" /\ Wait(says)
    /\ IF says \in Results THEN Again("timeout", "") ELSE Go("timeout", "")
    /\ UNCHANGED <<client, num_immediate>>

(* Faulty: only answers are counted.                                       *)
set_timeout_answered(says) ==
    /\ phase = "timeout" /\ Wait(says)
    /\ Again("done", "")
    /\ num_immediate' = num_immediate + (IF says \in Results THEN 0 ELSE 1)
    /\ UNCHANGED client

(* handshake_set_timeout: five pings, whatever comes of them; each is taken *)
(* for answered at once by got_response.                                    *)
handshake_set_timeout(says) ==
    /\ phase = "timeout" /\ Wait(says)
    /\ Again("done", "")
    /\ num_immediate' = num_immediate + 1
    /\ UNCHANGED client

-----------------------------------------------------------------------------
Says == Results \cup Patterns \cup Downstream \cup {" ", "other", "refused", "accepted",
          "VACK", "VNAK", "VFUL", "LNAK", "I", "C", "W", "E", "intact", "changed", "swapped"}

Handle ==
    \/ handshake_raw_udp
    \/ handshake_autoprobe_fragsize
    \/ \E says \in Says :
           \/ handshake_version(says) \/ handshake_login(says) \/ handshake_raw_ip(says)
           \/ handshake_edns0_check(says) \/ handshake_upenctest(says)
           \/ handshake_switch_codec(says) \/ handshake_downenctest(says)
           \/ handshake_switch_options(says) \/ handshake_set_fragsize(says)
           \/ handshake_set_timeout(says)

Next == Send \/ Interrupt \/ Stop \/ Serve \/ Lose \/ Ignore \/ Handle

Spec == Init /\ [][Next]_vars

(* Every wait ends, by its timeout if by nothing else, which takes that the *)
(* path does not bring old answers for ever: each one restarts the timer.   *)
(* Nothing else is asked of the path, and nothing of the server.            *)
FairSpec == Spec /\ WF_vars(Send) /\ WF_vars(Stop) /\ WF_vars(Handle)

-----------------------------------------------------------------------------
(* Properties.                                                             *)

(* The client uses an upstream codec, and the raw mode, only after the      *)
(* server has switched to it, whichever queries and answers were lost,      *)
(* late or seen twice.                                                      *)
ClientNotAhead ==
    /\ dataenc # "Base32" => server.codec = dataenc
    /\ conn = "raw" => server.raw

(* What is chosen is what the path carries: an answer to an earlier test    *)
(* is never taken for one to a later test (handshake_waitdns, "Wait for     *)
(* DNS reply fitting to our latest query").                                 *)
Carries128 == {"128a", "128b", "128c", "128d", "128e"}

CodecsCarried ==
    /\ CASE dataenc = "Base128" -> Carries128 \subseteq path.up
         [] dataenc = "Base64"  -> "64" \in path.up
         [] dataenc = "Base64u" -> "64u" \in path.up
         [] OTHER -> TRUE
    /\ downenc \in path.down \cup {" "} \/ qtype = "NULL"
    /\ edns0 /\ phase \notin {"edns0", "failed"} => path.edns0

(* The round-trip time is a total divided by how many answers it is of,    *)
(* which must not be none when it is reported, though every ping is lost;   *)
(* after an interrupt nothing is reported.                                  *)
RttDefined == phase = "done" /\ conn = "dns" /\ running => num_immediate > 0

(* The handshake ends, whatever the path does.                              *)
Finishes == <>(phase \in {"done", "failed"})

=============================================================================
