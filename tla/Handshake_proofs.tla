-------------------------- MODULE Handshake_proofs --------------------------
(***************************************************************************)
(* Proof that the handshake ends with what the server has agreed to and the *)
(* path carries, for every set of paths and options, every number of        *)
(* messages under way and every age they reach.                            *)
(*                                                                         *)
(* The invariant says what a message under way may mean to the client: one  *)
(* of the query it waits for, what the query asks; an older one, nothing,   *)
(* or what holds for good by then.                                         *)
(***************************************************************************)
EXTENDS Handshake, TLAPS

-----------------------------------------------------------------------------
(* The invariant.                                                          *)

Upstream == {"Base128", "Base64", "Base64u"}

(* All that queries and answers may say.                                   *)
Words == Says \cup Upstream \cup {"Base32", "", "plain", "poll", "forward"}

Cmds == {"V", "L", "I", "raw", "Y", "Z", "S", "O", "N", "P"}

Query == [to : {"server"}, cmd : Cmds, arg : Words, lazy : BOOLEAN, age : Nat]
Reply == [to : {"client"}, cmd : Cmds, arg : Words, age : Nat]

Typed ==
    /\ path \in Path /\ lazymode \in BOOLEAN
    /\ phase \in Asking \cup {"probe", "done", "failed"}
    /\ waiting \in BOOLEAN /\ running \in BOOLEAN
    /\ test \in Words /\ downenc \in Words
    /\ num_immediate \in Nat
    /\ server \in [codec : Words, denc : Words, lazy : BOOLEAN, raw : BOOLEAN]
    /\ \A m \in net : m \in Query \cup Reply

(* What the tests of the upstream codecs have shown.                        *)
CarriesCodec(c) ==
    /\ c = "Base128" => Carries128 \subseteq path.up
    /\ c = "Base64" => "64" \in path.up
    /\ c = "Base64u" => "64u" \in path.up

TestsPassed ==
    /\ phase = "upenc" =>
          /\ test \in Patterns
          /\ test \in {"128b", "128c", "128d", "128e"} => "128a" \in path.up
          /\ test \in {"128c", "128d", "128e"} => "128b" \in path.up
          /\ test \in {"128d", "128e"} => "128c" \in path.up
          /\ test = "128e" => "128d" \in path.up
    /\ phase = "codec" => test \in Upstream /\ CarriesCodec(test)
    /\ phase = "downenc" => test \in Downstream
    /\ CarriesCodec(dataenc)

(* A pattern comes back only if it came through unchanged.                  *)
Echoed ==
    \A m \in net : m.to = "client" /\ m.cmd = "Z" =>
        m.arg \in path.up \cup {"swapped", "changed"}

(* Before the switch of the codec there is no query for it, and afterwards  *)
(* they all ask for the same one: the first codec found is the only one.    *)
BeforeCodec == {"version", "login", "ip", "raw", "edns0", "upenc"}

Switched ==
    /\ phase \in BeforeCodec \cup {"codec"} => dataenc = "Base32"
    /\ dataenc # "Base32" => server.codec = dataenc
    /\ \A m \in net : m.cmd = "S" =>
          /\ phase \notin BeforeCodec
          /\ m.to = "server" /\ phase = "codec" => m.arg = test
          /\ m.to = "server" /\ dataenc # "Base32" => m.arg = dataenc
          /\ m.to = "client" /\ m.arg = "accepted" /\ phase = "codec" => server.codec = test

RawAgreed ==
    /\ conn = "raw" => server.raw
    /\ \A m \in net : m.to = "client" /\ m.cmd = "raw" => server.raw

(* What the tests of the downstream codecs and of EDNS0 have shown.         *)
Found ==
    /\ downenc \in path.down \cup {" "} \/ qtype = "NULL"
    /\ phase = "edns0" => edns0
    /\ phase \in {"version", "login", "ip", "raw"} => ~edns0
    /\ edns0 /\ phase \notin {"edns0", "failed"} => path.edns0

(* A query that no later one has overtaken is that of the test that runs,   *)
(* and an answer to it says what the path does to the codec tested, and to  *)
(* EDNS0 queries if it was one.                                            *)
LastQuery ==
    waiting => \A m \in net : m.cmd = "Y" /\ m.age = 0 =>
        /\ m.to = "server" => m.arg = Arg
        /\ m.to = "client" /\ m.arg = "intact" =>
              Arg \in path.down \cup {"plain"} /\ (edns0 => path.edns0)

IInv ==
    /\ Typed /\ TestsPassed /\ Found /\ RttDefined
    /\ Switched /\ RawAgreed /\ Echoed /\ LastQuery

-----------------------------------------------------------------------------
(* Letters and messages.                                                   *)

LEMMA Letters ==
    /\ Asking = {"version", "login", "ip", "raw", "edns0", "upenc", "codec", "downenc",
                 "options", "fragsize", "timeout"}
    /\ Letter["version"] = "V" /\ Letter["login"] = "L" /\ Letter["ip"] = "I"
    /\ Letter["raw"] = "raw" /\ Letter["edns0"] = "Y" /\ Letter["upenc"] = "Z"
    /\ Letter["codec"] = "S" /\ Letter["downenc"] = "Y" /\ Letter["options"] = "O"
    /\ Letter["fragsize"] = "N" /\ Letter["timeout"] = "P"
BY DEF Asking, Letter

LEMMA LetterOf ==
    ASSUME phase \in Asking
    PROVE  /\ Letter[phase] \in Cmds
           /\ Letter[phase] = "S" <=> phase = "codec"
           /\ Letter[phase] = "Z" <=> phase = "upenc"
           /\ Letter[phase] = "raw" <=> phase = "raw"
           /\ Letter[phase] = "Y" <=> phase \in {"edns0", "downenc"}
<1>1. \A p \in Asking : Letter[p] \in Cmds
  BY Letters DEF Cmds
<1>2. \A p \in Asking : (Letter[p] = "S" <=> p = "codec") /\ (Letter[p] = "Z" <=> p = "upenc")
  BY Letters
<1>3. \A p \in Asking : Letter[p] = "raw" <=> p = "raw"
  BY Letters
<1>4. \A p \in Asking : Letter[p] = "Y" <=> p \in {"edns0", "downenc"}
  BY Letters
<1> QED
  BY <1>1, <1>2, <1>3, <1>4

LEMMA Word ==
    /\ Results \cup Patterns \cup Downstream \cup Upstream \subseteq Words
    /\ {"Base32", "", " ", "plain", "poll", "forward"} \subseteq Words
    /\ {"refused", "accepted", "other", "intact", "changed", "swapped"} \subseteq Words
    /\ {"VACK", "VNAK", "VFUL", "LNAK", "I", "C", "W", "E"} \subseteq Words
BY DEF Words, Says

(* A message ages, and stays what it is.                                   *)
LEMMA OlderMessage ==
    ASSUME NEW m \in Query \cup Reply
    PROVE  LET n == [m EXCEPT !.age = @ + 1]
           IN  /\ n \in Query \cup Reply
               /\ n.to = m.to /\ n.cmd = m.cmd /\ n.arg = m.arg /\ n.age # 0
<1>1. CASE m \in Query
  BY <1>1 DEF Query
<1>2. CASE m \in Reply
  BY <1>2 DEF Reply
<1> QED
  BY <1>1, <1>2

LEMMA MessageFields ==
    ASSUME NEW m \in Query \cup Reply
    PROVE  /\ m.to \in {"server", "client"} /\ m.cmd \in Cmds /\ m.arg \in Words
           /\ m.age \in Nat
BY DEF Query, Reply

-----------------------------------------------------------------------------
(* The invariant is inductive.                                             *)

LEMMA InitIInv == Init => IInv
<1> SUFFICES ASSUME Init PROVE IInv
  OBVIOUS
<1>1. PICK s \in Setups :
         /\ path = s.path /\ qtype = s.qtype /\ lazymode = s.lazymode
  BY DEF Init
<1>2. path \in Path /\ lazymode \in BOOLEAN
  BY <1>1, SetupAssumption DEF Setup
<1>3. /\ phase = "version" /\ test = "" /\ waiting = FALSE /\ edns0 = FALSE
      /\ dataenc = "Base32" /\ downenc = " " /\ conn = "dns"
      /\ num_immediate = 0 /\ running = TRUE /\ net = {}
      /\ server = [codec |-> "Base32", denc |-> " ", lazy |-> FALSE, raw |-> FALSE]
  BY DEF Init
<1>4. Typed
  <2>1. server \in [codec : Words, denc : Words, lazy : BOOLEAN, raw : BOOLEAN]
    BY <1>3, Word
  <2>2. phase \in Asking /\ waiting \in BOOLEAN /\ running \in BOOLEAN
    BY <1>3, Letters
  <2> QED
    BY <1>2, <1>3, <2>1, <2>2, Word DEF Typed
<1>5. TestsPassed /\ Switched /\ RawAgreed /\ Echoed
  BY <1>3 DEF TestsPassed, CarriesCodec, Switched, RawAgreed, Echoed, BeforeCodec
<1>6. Found /\ LastQuery /\ RttDefined
  BY <1>3 DEF Found, LastQuery, RttDefined
<1> QED
  BY <1>4, <1>5, <1>6 DEF IInv

(* The next query of the function that runs: all others are older now.      *)
LEMMA SendStep == IInv /\ Send => IInv'
<1> SUFFICES ASSUME IInv, Send PROVE IInv'
  OBVIOUS
<1> DEFINE new == [ to |-> "server", cmd |-> Letter[phase], arg |-> Arg,
                    lazy |-> lazymode, age |-> 0 ]
<1>1. /\ phase \in Asking /\ waiting' = TRUE
      /\ UNCHANGED <<options, client, num_immediate, phase, test, running, server>>
  BY DEF Send
<1>2. Typed /\ \A m \in net : m \in Query \cup Reply
  BY DEF IInv, Typed
<1>3. new \in Query /\ new.to = "server" /\ new.cmd = Letter[phase] /\ new.arg = Arg
  <2>1. Arg \in Words
    BY <1>2, Word DEF Arg, LoginArg, Typed
  <2>2. Letter[phase] \in Cmds /\ lazymode \in BOOLEAN
    BY <1>1, <1>2, LetterOf DEF Typed
  <2> QED
    BY <2>1, <2>2 DEF Query
<1>4. net' \subseteq Aged \cup {new}
  BY DEF Send
<1> HIDE DEF new
<1>5. ASSUME NEW m \in net', m # new
      PROVE  /\ m \in Query \cup Reply /\ m.age # 0
             /\ \E n \in net : m.to = n.to /\ m.cmd = n.cmd /\ m.arg = n.arg
  <2>1. m \in Aged
    BY <1>4, <1>5
  <2>2. PICK n \in net : m = [n EXCEPT !.age = @ + 1]
    BY <2>1 DEF Aged
  <2> QED
    BY <1>2, <2>2, OlderMessage
<1>6. /\ new.cmd = "S" <=> phase = "codec"
      /\ new.cmd = "Y" <=> phase \in {"edns0", "downenc"}
  BY <1>1, <1>3, LetterOf
<1>7. Typed'
  <2>1. \A m \in net' : m \in Query \cup Reply
    BY <1>3, <1>5
  <2> QED
    BY <1>1, <1>2, <2>1 DEF Typed, options, client
<1>8. TestsPassed' /\ Found' /\ RttDefined'
  <2>1. TestsPassed'
    BY <1>1 DEF IInv, TestsPassed, CarriesCodec, options, client
  <2>2. Found'
    BY <1>1 DEF IInv, Found, options, client
  <2>3. RttDefined'
    BY <1>1 DEF IInv, RttDefined, client
  <2> QED
    BY <2>1, <2>2, <2>3
<1>9. Switched'
  <2>1. ASSUME NEW m \in net', m.cmd = "S"
        PROVE  /\ phase \notin BeforeCodec
               /\ m.to = "server" /\ phase = "codec" => m.arg = test
               /\ m.to = "server" /\ dataenc # "Base32" => m.arg = dataenc
               /\ m.to = "client" /\ m.arg = "accepted" /\ phase = "codec" =>
                     server.codec = test
    <3>1. CASE m = new
      <4>1. phase = "codec" /\ Arg = test /\ dataenc = "Base32"
        BY <2>1, <3>1, <1>6 DEF Arg, IInv, Switched
      <4> QED
        BY <3>1, <4>1, <1>3 DEF BeforeCodec
    <3>2. CASE m # new
      BY <2>1, <3>2, <1>5 DEF IInv, Switched
    <3> QED
      BY <3>1, <3>2
  <2> QED
    BY <1>1, <2>1 DEF IInv, Switched, options, client
<1>10. RawAgreed'
  BY <1>1, <1>3, <1>5 DEF IInv, RawAgreed, client
<1>11. Echoed'
  BY <1>1, <1>3, <1>5 DEF IInv, Echoed, options
<1>12. LastQuery'
  <2>1. Arg' = Arg
    BY <1>1 DEF Arg, LoginArg, options, client
  <2>2. ASSUME NEW m \in net', m.age = 0 PROVE m.to = "server" /\ m.arg = Arg
    BY <1>3, <1>5, <2>2
  <2> QED
    BY <2>1, <2>2 DEF LastQuery
<1> QED
  BY <1>7, <1>8, <1>9, <1>10, <1>11, <1>12 DEF IInv

(* What is lost, or read and ignored, leaves fewer messages.                *)
LEMMA FewerStep ==
    ASSUME IInv, net' \subseteq net,
           UNCHANGED <<options, client, num_immediate, phase, test, waiting, server>>,
           running' \in BOOLEAN, running' => running
    PROVE  IInv'
<1> USE DEF options, client
<1>1. Typed' /\ TestsPassed' /\ Found' /\ RttDefined'
  <2>1. Typed'
    BY DEF IInv, Typed
  <2>2. TestsPassed'
    BY DEF IInv, TestsPassed, CarriesCodec
  <2>3. Found'
    BY DEF IInv, Found
  <2>4. RttDefined'
    BY DEF IInv, RttDefined
  <2> QED
    BY <2>1, <2>2, <2>3, <2>4
<1>2. Switched' /\ RawAgreed' /\ Echoed'
  BY DEF IInv, Switched, RawAgreed, Echoed
<1>3. Arg' = Arg
  BY DEF Arg, LoginArg
<1>4. LastQuery'
  BY <1>3 DEF IInv, LastQuery
<1> QED
  BY <1>1, <1>2, <1>4 DEF IInv

(* The end of a wait: a step of one of the functions to its next query or   *)
(* to the next function, which never leads back over the switch of the      *)
(* codec.                                                                  *)
LEMMA Handled ==
    ASSUME IInv, net' \subseteq net, waiting' = FALSE,
           UNCHANGED <<options, lazymode, running, server>>,
           phase' \in Asking \cup {"probe", "done", "failed"},
           test' \in Words, downenc' \in Words, num_immediate' \in Nat,
           TestsPassed', Found', RttDefined',
           phase' \in BeforeCodec => phase \in BeforeCodec,
           phase' = "codec" => phase \in BeforeCodec \/ (phase = "codec" /\ test' = test),
           \/ dataenc' = dataenc
           \/ /\ phase = "codec" /\ phase' \notin BeforeCodec \cup {"codec"}
              /\ dataenc' = test /\ server.codec = test,
           conn' = conn \/ server.raw
    PROVE  IInv'
<1> USE DEF options
<1>1. Typed'
  BY DEF IInv, Typed
<1>2. Switched'
  BY DEF IInv, Switched
<1>3. RawAgreed' /\ Echoed' /\ LastQuery'
  BY DEF IInv, RawAgreed, Echoed, LastQuery
<1> QED
  BY <1>1, <1>2, <1>3 DEF IInv

(* What the server's answer to query q says, with the server as it is then. *)
TrueAnswer(q, says) ==
    /\ says \in Words
    /\ q.cmd = "Z" => says \in path.up \cup {"swapped", "changed"}
    /\ q.cmd = "S" /\ says = "accepted" => server'.codec = q.arg
    /\ q.cmd = "raw" => server'.raw
    /\ q.cmd = "Y" /\ says = "intact" =>
          q.arg \in path.down \cup {"plain"} /\ (edns0 => path.edns0)

(* Which it is switched by a query for that only.                          *)
Follows(q) ==
    /\ server' \in [codec : Words, denc : Words, lazy : BOOLEAN, raw : BOOLEAN]
    /\ server.raw => server'.raw
    /\ server'.codec = server.codec \/ (q.cmd = "S" /\ server'.codec = q.arg)

LEMMA Switching ==
    ASSUME Typed, NEW q \in net, q.to = "server"
    PROVE  LET s == Switch(q)
           IN  /\ s \in [codec : Words, denc : Words, lazy : BOOLEAN, raw : BOOLEAN]
               /\ server.raw => s.raw
               /\ s.codec = IF q.cmd = "S" THEN q.arg ELSE server.codec
               /\ q.cmd = "raw" => s.raw
<1>1. q \in Query /\ server \in [codec : Words, denc : Words, lazy : BOOLEAN, raw : BOOLEAN]
  BY DEF Typed, Query, Reply
<1>2. q.cmd \in Cmds /\ q.arg \in Words /\ q.lazy \in BOOLEAN
  BY <1>1 DEF Query
<1>3. CASE q.cmd = "S"
  BY <1>1, <1>2, <1>3 DEF Switch
<1>4. CASE q.cmd = "O"
  <2>1. Switch(q) = [server EXCEPT !.denc = q.arg, !.lazy = q.lazy]
    BY <1>4 DEF Switch
  <2> QED
    BY <1>1, <1>2, <1>4, <2>1
<1>5. CASE q.cmd = "raw"
  BY <1>1, <1>2, <1>5 DEF Switch
<1>6. CASE q.cmd \notin {"S", "O", "raw"}
  <2>1. Switch(q) = server
    BY <1>6 DEF Switch
  <2> QED
    BY <1>1, <1>6, <2>1
<1> QED
  BY <1>3, <1>4, <1>5, <1>6

LEMMA Accepted ==
    ASSUME Typed, NEW q \in net, q.to = "server", server' = Switch(q),
           q.cmd # "Y" \/ path.edns0 \/ ~edns0, NEW says \in Accepting(q)
    PROVE  TrueAnswer(q, says) /\ Follows(q)
<1>1. q.cmd \in Cmds /\ q.arg \in Words /\ path.up \subseteq Patterns /\ path.swaps \in BOOLEAN
  BY DEF Typed, Query, Reply, Path
<1>2. Follows(q)
  BY Switching DEF Follows
<1>3. /\ q.cmd = "S" => server'.codec = q.arg
      /\ q.cmd = "raw" => server'.raw
  BY Switching
<1>4. says \in Words
  <2>1. CASE q.cmd \in {"V", "L", "Y", "O"}
    BY <1>1, <2>1, Word DEF Accepting
  <2>2. CASE q.cmd = "Z"
    BY <1>1, <2>2, Word DEF Accepting
  <2>3. CASE q.cmd \in Cmds \ {"V", "L", "Y", "O", "Z"}
    <3>1. says = "accepted"
      BY <2>3 DEF Accepting
    <3> QED
      BY <3>1, Word
  <2> QED
    BY <1>1, <2>1, <2>2, <2>3
<1>5. q.cmd = "Z" => says \in path.up \cup {"swapped", "changed"}
  BY DEF Accepting
<1>6. q.cmd = "Y" /\ says = "intact" =>
         q.arg \in path.down \cup {"plain"} /\ (edns0 => path.edns0)
  BY DEF Accepting
<1> QED
  BY <1>2, <1>3, <1>4, <1>5, <1>6 DEF TrueAnswer

LEMMA Refused ==
    ASSUME Typed, NEW q \in net, q.to = "server", server' = server, NEW says \in Refusing(q)
    PROVE  TrueAnswer(q, says) /\ Follows(q)
<1>1. server \in [codec : Words, denc : Words, lazy : BOOLEAN, raw : BOOLEAN]
  BY DEF Typed
<1>2. /\ says \in {"VNAK", "VFUL", "LNAK", "E", "refused"}
      /\ q.cmd \notin {"Z", "Y", "raw"}
  BY DEF Refusing
<1>3. says \in Words /\ says # "accepted"
  BY <1>2, Word
<1> QED
  BY <1>1, <1>2, <1>3 DEF TrueAnswer, Follows

LEMMA ServeStep == IInv /\ Serve => IInv'
<1> SUFFICES ASSUME IInv, Serve PROVE IInv'
  OBVIOUS
<1>1. Typed /\ \A m \in net : m \in Query \cup Reply
  BY DEF IInv, Typed
<1>2. PICK q \in net, says \in Words :
         /\ q.to = "server" /\ TrueAnswer(q, says) /\ Follows(q)
         /\ net' \subseteq net \cup {Answer(q, says)}
         /\ UNCHANGED <<options, client, num_immediate, control, running>>
  <2>1. PICK q \in {m \in net : m.to = "server"}, kept \in BOOLEAN :
           LET rest == IF kept THEN net ELSE net \ {q} IN
           /\ \/ /\ q.cmd # "Y" \/ path.edns0 \/ ~ edns0
                 /\ server' = Switch(q)
                 /\ \E says \in Accepting(q) : net' = rest \cup {Answer(q, says)}
              \/ \E says \in Refusing(q) :
                 /\ net' = rest \cup {Answer(q, says)}
                 /\ UNCHANGED server
           /\ UNCHANGED <<options, client, num_immediate, control, running>>
    BY DEF Serve
  <2>. \A says : TrueAnswer(q, says) => says \in Words
    BY DEF TrueAnswer
  <2>2. CASE /\ q.cmd # "Y" \/ path.edns0 \/ ~ edns0
             /\ server' = Switch(q)
             /\ \E says \in Accepting(q) :
                   net' = (IF kept THEN net ELSE net \ {q}) \cup {Answer(q, says)}
    BY <1>1, <2>1, <2>2, Accepted
  <2>3. CASE \E says \in Refusing(q) :
                /\ net' = (IF kept THEN net ELSE net \ {q}) \cup {Answer(q, says)}
                /\ UNCHANGED server
    BY <1>1, <2>1, <2>3, Refused
  <2> QED
    BY <2>1, <2>2, <2>3
<1> DEFINE a == Answer(q, says)
<1>3. /\ a \in Reply /\ a.to = "client" /\ a.cmd = q.cmd /\ a.arg = says /\ a.age = q.age
      /\ q.arg \in Words
  BY <1>1, <1>2 DEF Answer, TrueAnswer, Query, Reply
<1>4. \A m \in net' : m \in net \/ m = a
  BY <1>2
<1> HIDE DEF a
<1> USE DEF options, client, control
<1>5. Typed'
  <2>1. \A m \in net' : m \in Query \cup Reply
    BY <1>1, <1>3, <1>4
  <2> QED
    BY <1>1, <1>2, <2>1 DEF Typed, Follows
<1>6. TestsPassed'
  BY <1>2 DEF IInv, TestsPassed, CarriesCodec
<1>7. Found'
  BY <1>2 DEF IInv, Found
<1>8. RttDefined'
  BY <1>2 DEF IInv, RttDefined
<1>9. Switched'
  <2>1. q.cmd = "S" =>
           /\ phase \notin BeforeCodec
           /\ phase = "codec" => q.arg = test
           /\ dataenc # "Base32" => q.arg = dataenc
    BY <1>2 DEF IInv, Switched
  <2>2. dataenc # "Base32" => server'.codec = dataenc
    BY <1>2, <2>1 DEF IInv, Switched, Follows
  <2>3. ASSUME NEW m \in net', m.cmd = "S"
        PROVE  /\ phase \notin BeforeCodec
               /\ m.to = "server" /\ phase = "codec" => m.arg = test
               /\ m.to = "server" /\ dataenc # "Base32" => m.arg = dataenc
               /\ m.to = "client" /\ m.arg = "accepted" /\ phase = "codec" =>
                     server'.codec = test
    <3>1. CASE m \in net
      BY <1>2, <2>1, <2>3, <3>1 DEF IInv, Switched, Follows
    <3>2. CASE m = a
      BY <1>2, <1>3, <2>1, <2>3, <3>2 DEF TrueAnswer
    <3> QED
      BY <1>4, <3>1, <3>2
  <2>4. /\ phase' = phase /\ test' = test /\ dataenc' = dataenc
        /\ phase \in BeforeCodec \cup {"codec"} => dataenc = "Base32"
    BY <1>2 DEF IInv, Switched
  <2> QED
    BY <2>2, <2>3, <2>4 DEF Switched
<1>10. RawAgreed'
  BY <1>2, <1>3, <1>4 DEF IInv, RawAgreed, TrueAnswer, Follows
<1>11. Echoed'
  BY <1>2, <1>3, <1>4 DEF IInv, Echoed, TrueAnswer
<1>12. LastQuery'
  <2>1. Arg' = Arg /\ waiting' = waiting /\ path' = path /\ edns0' = edns0
    BY <1>2 DEF Arg, LoginArg
  <2>2. ASSUME waiting, NEW m \in net', m.cmd = "Y", m.age = 0
        PROVE  /\ m.to = "server" => m.arg = Arg
               /\ m.to = "client" /\ m.arg = "intact" =>
                     Arg \in path.down \cup {"plain"} /\ (edns0 => path.edns0)
    <3>1. CASE m \in net
      BY <2>2, <3>1 DEF IInv, LastQuery
    <3>2. CASE m = a
      BY <1>2, <1>3, <2>2, <3>2 DEF IInv, LastQuery, TrueAnswer
    <3> QED
      BY <1>4, <3>1, <3>2
  <2> QED
    BY <2>1, <2>2 DEF LastQuery
<1> QED
  BY <1>5, <1>6, <1>7, <1>8, <1>9, <1>10, <1>11, <1>12 DEF IInv

(* An interrupted function returns, and client_handshake with it.           *)
LEMMA StopStep == IInv /\ Stop => IInv'
<1> SUFFICES ASSUME IInv, Stop PROVE IInv'
  OBVIOUS
<1>1. /\ ~running /\ ~waiting /\ phase \notin {"done", "failed"}
      /\ phase' = IF phase = "timeout" THEN "done" ELSE "failed"
      /\ UNCHANGED <<options, client, num_immediate, test, try, waiting, running, server, net>>
  BY DEF Stop
<1> USE DEF options, client
<1>2. Typed'
  BY <1>1 DEF IInv, Typed
<1>3. TestsPassed'
  BY <1>1 DEF IInv, TestsPassed, CarriesCodec
<1>4. Found'
  BY <1>1 DEF IInv, Found
<1>5. RttDefined' /\ LastQuery'
  BY <1>1 DEF RttDefined, LastQuery
<1>6. Switched'
  BY <1>1 DEF IInv, Switched, BeforeCodec
<1>7. RawAgreed' /\ Echoed'
  BY <1>1 DEF IInv, RawAgreed, Echoed
<1> QED
  BY <1>2, <1>3, <1>4, <1>5, <1>6, <1>7 DEF IInv

-----------------------------------------------------------------------------
(* The functions of the handshake.                                         *)

(* What the end of a wait says of the message that ended it.                *)
LEMMA WaitFacts ==
    ASSUME IInv, NEW says, Wait(says)
    PROVE  /\ phase \in Asking /\ net' \subseteq net /\ waiting' = FALSE
           /\ UNCHANGED <<options, running, server>>
           /\ phase = "upenc" => says \in path.up \cup Results \cup {"swapped", "changed"}
           /\ phase = "codec" /\ says = "accepted" => server.codec = test
           /\ phase \in {"edns0", "downenc"} /\ says = "intact" =>
                 Arg \in path.down \cup {"plain"} /\ (edns0 => path.edns0)
<1>1. /\ phase \in Asking /\ waiting /\ waiting' = FALSE
      /\ UNCHANGED <<options, running, server>>
  BY DEF Wait
<1>2. CASE says \in Results /\ UNCHANGED net
  BY <1>1, <1>2 DEF Results
<1>3. CASE \E m \in {n \in net : Fits(n)} : m.arg = says /\ net' \in {net, net \ {m}}
  <2>1. PICK m \in net : Fits(m) /\ m.arg = says /\ net' \in {net, net \ {m}}
    BY <1>3
  <2>2. m.to = "client" /\ m.cmd = Letter[phase] /\ m.age = 0
    BY <2>1 DEF Fits
  <2>3. phase = "upenc" => says \in path.up \cup {"swapped", "changed"}
    BY <1>1, <2>1, <2>2, LetterOf DEF IInv, Echoed
  <2>4. phase = "codec" /\ says = "accepted" => server.codec = test
    BY <1>1, <2>1, <2>2, LetterOf DEF IInv, Switched
  <2>5. phase \in {"edns0", "downenc"} /\ says = "intact" =>
           Arg \in path.down \cup {"plain"} /\ (edns0 => path.edns0)
    BY <1>1, <2>1, <2>2, LetterOf DEF IInv, LastQuery
  <2> QED
    BY <1>1, <2>1, <2>3, <2>4, <2>5
<1> QED
  BY <1>1, <1>2, <1>3 DEF Wait

(* Most functions change nothing but what runs next.                        *)
LEMMA PlainStep ==
    ASSUME IInv, NEW says, Wait(says),
           UNCHANGED <<dataenc, downenc, lazymode>>, num_immediate' \in Nat,
           conn' = conn \/ server.raw,
           phase' \in (Asking \cup {"probe", "done", "failed"}) \ {"codec", "downenc"},
           test' \in Words, phase' = "upenc" => test' = "128a",
           phase' \in BeforeCodec => phase \in BeforeCodec,
           Found', RttDefined'
    PROVE  IInv'
<1>1. /\ net' \subseteq net /\ waiting' = FALSE /\ UNCHANGED <<options, running, server>>
  BY WaitFacts
<1>2. TestsPassed'
  BY <1>1 DEF IInv, TestsPassed, CarriesCodec, options, Patterns
<1>3. downenc' \in Words
  BY DEF IInv, Typed
<1> QED
  BY <1>1, <1>2, <1>3, Handled

LEMMA VersionStep ==
    ASSUME IInv, NEW says, handshake_version(says)
    PROVE  IInv'
<1>1. /\ Wait(says) /\ phase = "version" /\ UNCHANGED <<client, num_immediate>>
      /\ phase' \in {"version", "login", "failed"} /\ test' \in {test, ""}
  BY DEF handshake_version, Go, Again
<1>2. UNCHANGED <<options, running>>
  BY <1>1, WaitFacts
<1>3. Found'
  BY <1>1, <1>2 DEF IInv, Found, options, client
<1>4. test' \in Words /\ num_immediate' \in Nat
  BY <1>1, Word DEF IInv, Typed
<1>5. RttDefined'
  BY <1>1 DEF RttDefined
<1> QED
  BY <1>1, <1>3, <1>4, <1>5, Letters, PlainStep DEF client, BeforeCodec

LEMMA LoginStep ==
    ASSUME IInv, NEW says, handshake_login(says)
    PROVE  IInv'
<1>1. /\ Wait(says) /\ phase = "login"
      /\ UNCHANGED <<dataenc, downenc, lazymode, conn, num_immediate>>
      /\ edns0' = (phase' = "edns0")
  BY DEF handshake_login
<1>2. phase' \in {"login", "ip", "edns0", "failed"} /\ test' \in {test, ""}
  BY <1>1 DEF handshake_login, Go, Again, AfterLogin
<1>3. UNCHANGED <<options, running>>
  BY <1>1, WaitFacts
<1>4. Found'
  BY <1>1, <1>2, <1>3 DEF IInv, Found, options
<1>5. test' \in Words /\ num_immediate' \in Nat
  BY <1>1, <1>2, Word DEF IInv, Typed
<1>6. RttDefined'
  BY <1>2 DEF RttDefined
<1> QED
  BY <1>1, <1>2, <1>4, <1>5, <1>6, Letters, PlainStep DEF BeforeCodec

LEMMA RawIpStep ==
    ASSUME IInv, NEW says, handshake_raw_ip(says)
    PROVE  IInv'
<1>1. /\ Wait(says) /\ phase = "ip"
      /\ UNCHANGED <<dataenc, downenc, lazymode, conn, num_immediate>>
      /\ edns0' = (phase' = "edns0")
      /\ phase' \in {"ip", "raw", "edns0"} /\ test' \in {test, ""}
  BY DEF handshake_raw_ip, Go, Again
<1>2. UNCHANGED <<options, running>>
  BY <1>1, WaitFacts
<1>3. Found'
  BY <1>1, <1>2 DEF IInv, Found, options
<1>4. test' \in Words /\ num_immediate' \in Nat
  BY <1>1, Word DEF IInv, Typed
<1>5. RttDefined'
  BY <1>1 DEF RttDefined
<1> QED
  BY <1>1, <1>3, <1>4, <1>5, Letters, PlainStep DEF BeforeCodec

(* The only answer that counts is one of the server in raw mode.            *)
LEMMA RawStep == IInv /\ handshake_raw_udp => IInv'
<1> SUFFICES ASSUME IInv, handshake_raw_udp PROVE IInv'
  OBVIOUS
<1>1. /\ phase = "raw" /\ waiting' = FALSE /\ edns0' = (phase' = "edns0")
      /\ UNCHANGED <<options, dataenc, downenc, lazymode, num_immediate, running, server>>
      /\ net' \subseteq net /\ phase' \in {"raw", "edns0", "done"} /\ test' \in {test, ""}
  BY DEF handshake_raw_udp, Go, Again
<1>2. \/ conn' = conn /\ phase' # "done"
      \/ conn' = "raw" /\ server.raw
  <2>1. CASE \E m \in {n \in net : n.to = "client"} :
                m.cmd = "raw" /\ conn' = "raw"
    BY <2>1 DEF IInv, RawAgreed
  <2>2. CASE conn' = conn /\ Again("edns0", "")
    BY <1>1, <2>2 DEF Again, Go
  <2> QED
    BY <2>1, <2>2 DEF handshake_raw_udp
<1>3. Found'
  BY <1>1 DEF IInv, Found, options
<1>4. test' \in Words /\ downenc' \in Words /\ num_immediate' \in Nat
  BY <1>1, Word DEF IInv, Typed
<1>5. RttDefined'
  BY <1>2 DEF RttDefined
<1>6. TestsPassed'
  BY <1>1 DEF IInv, TestsPassed, CarriesCodec, options
<1>7. phase' \in Asking \cup {"done"} /\ phase \in BeforeCodec /\ phase' # "codec"
  BY <1>1, Letters DEF BeforeCodec
<1> QED
  BY <1>1, <1>2, <1>3, <1>4, <1>5, <1>6, <1>7, Handled

(* If an answer comes through in time, the path brings EDNS0 queries.       *)
LEMMA Edns0Step ==
    ASSUME IInv, NEW says, handshake_edns0_check(says)
    PROVE  IInv'
<1>1. /\ Wait(says) /\ phase = "edns0"
      /\ UNCHANGED <<dataenc, downenc, lazymode, conn, num_immediate>>
      /\ edns0' = (phase' = "edns0" \/ says = "intact")
      /\ \/ phase' = "edns0" /\ test' = test
         \/ phase' = "upenc" /\ test' = "128a"
  BY DEF handshake_edns0_check, Go, Again
<1>2. UNCHANGED <<options, running>> /\ (says = "intact" /\ edns0 => path.edns0)
  BY <1>1, WaitFacts
<1>3. Found'
  BY <1>1, <1>2 DEF IInv, Found, options
<1>4. test' \in Words /\ num_immediate' \in Nat
  BY <1>1, Word DEF IInv, Typed, Patterns
<1>5. RttDefined'
  BY <1>1 DEF RttDefined
<1> QED
  BY <1>1, <1>3, <1>4, <1>5, Letters, PlainStep DEF BeforeCodec

(* After the search for the upstream codec, the one for the other begins,   *)
(* unless there is nothing to search for.                                  *)
LEMMA AfterUpstream ==
    ASSUME GoDownenc
    PROVE  /\ \/ phase' = "options" /\ test' = ""
              \/ phase' = "downenc" /\ test' = "S"
           /\ downenc' = downenc \/ (downenc' = "R" /\ qtype = "NULL")
BY DEF GoDownenc, Go

(* One pattern more has passed, or the next codec is tried, or none.        *)
LEMMA UpencStep ==
    ASSUME IInv, NEW says, handshake_upenctest(says)
    PROVE  IInv'
<1>1. /\ Wait(says) /\ phase = "upenc"
      /\ UNCHANGED <<edns0, dataenc, lazymode, conn, num_immediate>>
  BY DEF handshake_upenctest
<1>2. /\ net' \subseteq net /\ waiting' = FALSE /\ UNCHANGED <<options, running, server>>
      /\ says \in path.up \cup Results \cup {"swapped", "changed"}
  BY <1>1, WaitFacts
<1>3. test \in Patterns /\ downenc \in Words /\ path.up \subseteq Patterns
  BY <1>1 DEF IInv, TestsPassed, Typed, Path
<1>4. \/ /\ says = test /\ downenc' = downenc
         /\ phase' = AfterPass(test)[1] /\ test' = AfterPass(test)[2]
      \/ phase' = "upenc" /\ test' = test /\ downenc' = downenc
      \/ phase' = "upenc" /\ test' \in {"64", "64u"} /\ downenc' = downenc
      \/ GoDownenc
  <2>1. \/ Go(AfterPass(test)[1], AfterPass(test)[2]) /\ UNCHANGED downenc /\ says = test
        \/ GoDownenc
        \/ Again("upenc", test) /\ UNCHANGED downenc
        \/ GoOnFail(test)
    BY Zenon DEF handshake_upenctest
  <2>2. ASSUME GoOnFail(test)
        PROVE  \/ GoDownenc
               \/ phase' = "upenc" /\ test' \in {"64", "64u"} /\ downenc' = downenc
    BY <2>2, <1>3 DEF GoOnFail, Go, Patterns
  <2>3. Again("upenc", test) => phase' = "upenc" /\ test' = test
    BY <1>1 DEF Again, Go
  <2>4. Go(AfterPass(test)[1], AfterPass(test)[2]) =>
           phase' = AfterPass(test)[1] /\ test' = AfterPass(test)[2]
    BY DEF Go
  <2> QED
    BY <2>1, <2>2, <2>3, <2>4
<1>5. /\ phase' \in {"upenc", "codec", "options", "downenc"}
      /\ phase' = "upenc" => test' \in Patterns
      /\ phase' = "codec" => test' \in Upstream
      /\ phase' \in {"options", "downenc"} => test' \in {"", "S"}
      /\ phase' = "downenc" => test' \in Downstream
      /\ downenc' = downenc \/ (downenc' = "R" /\ qtype = "NULL")
      /\ TestsPassed'
  <2>1. /\ CarriesCodec(dataenc)' <=> CarriesCodec(dataenc)
        /\ CarriesCodec(dataenc)
    BY <1>1, <1>2 DEF IInv, TestsPassed, CarriesCodec, options
  <2>2. CASE /\ says = test /\ downenc' = downenc
             /\ phase' = AfterPass(test)[1] /\ test' = AfterPass(test)[2]
    <3>1. test \in path.up
      BY <1>2, <1>3, <2>2 DEF Results, Patterns
    <3>2. CASE test \in {"128a", "128b", "128c", "128d"}
      <4>1. /\ phase' = "upenc"
            /\ test' = CASE test = "128a" -> "128b" [] test = "128b" -> "128c"
                          [] test = "128c" -> "128d" [] test = "128d" -> "128e"
        BY <2>2, <3>2 DEF AfterPass
      <4> QED
        BY <1>1, <1>2, <2>1, <2>2, <3>1, <3>2, <4>1
           DEF IInv, TestsPassed, Patterns, options
    <3>3. CASE test = "128e"
      <4>1. phase' = "codec" /\ test' = "Base128"
        BY <2>2, <3>3 DEF AfterPass
      <4>2. CarriesCodec(test)'
        BY <1>1, <1>2, <3>1, <3>3, <4>1
           DEF IInv, TestsPassed, CarriesCodec, Carries128, options
      <4> QED
        BY <2>1, <2>2, <4>1, <4>2 DEF TestsPassed, Upstream
    <3>4. CASE test \in {"64", "64u"}
      <4>1. phase' = "codec" /\ test' = IF test = "64" THEN "Base64" ELSE "Base64u"
        BY <2>2, <3>4 DEF AfterPass
      <4>2. CarriesCodec(test)'
        BY <1>2, <3>1, <3>4, <4>1 DEF CarriesCodec, options
      <4> QED
        BY <2>1, <2>2, <3>4, <4>1, <4>2 DEF TestsPassed, Upstream
    <3> QED
      BY <1>3, <3>2, <3>3, <3>4 DEF Patterns
  <2>3. CASE phase' = "upenc" /\ test' = test /\ downenc' = downenc
    BY <1>1, <1>2, <1>3, <2>1, <2>3 DEF IInv, TestsPassed, options
  <2>4. CASE phase' = "upenc" /\ test' \in {"64", "64u"} /\ downenc' = downenc
    BY <2>1, <2>4 DEF TestsPassed, Patterns
  <2>5. CASE GoDownenc
    BY <2>1, <2>5, AfterUpstream DEF TestsPassed, Downstream
  <2> QED
    BY <1>4, <2>2, <2>3, <2>4, <2>5
<1>6. test' \in Words /\ downenc' \in Words /\ num_immediate' \in Nat
  <2>1. test' \in Patterns \cup Upstream \cup {"", "S"} /\ "S" \in Downstream
    BY <1>5 DEF Downstream
  <2>2. downenc' = downenc \/ downenc' \in Downstream
    BY <1>5 DEF Downstream
  <2> QED
    BY <1>1, <1>3, <2>1, <2>2, Word DEF IInv, Typed
<1>7. Found'
  BY <1>1, <1>2, <1>5 DEF IInv, Found, options
<1>8. RttDefined'
  BY <1>5 DEF RttDefined
<1>9. phase' \in Asking /\ phase \in BeforeCodec
  BY <1>1, <1>5, Letters DEF BeforeCodec
<1> QED
  BY <1>1, <1>2, <1>5, <1>6, <1>7, <1>8, <1>9, Handled

(* The codec is used if the server has agreed to it; by then every query    *)
(* for a switch asks for this one.                                         *)
LEMMA CodecStep ==
    ASSUME IInv, NEW says, handshake_switch_codec(says)
    PROVE  IInv'
<1>1. /\ Wait(says) /\ phase = "codec"
      /\ UNCHANGED <<edns0, lazymode, conn, num_immediate>>
      /\ \/ phase' = "codec" /\ test' = test /\ UNCHANGED <<downenc, dataenc>>
         \/ GoDownenc /\ dataenc' = IF says = "accepted" THEN test ELSE dataenc
  BY DEF handshake_switch_codec, Again, Go
<1>2. /\ net' \subseteq net /\ waiting' = FALSE /\ UNCHANGED <<options, running, server>>
      /\ says = "accepted" => server.codec = test
  BY <1>1, WaitFacts
<1>3. /\ phase' \in {"codec", "options", "downenc"}
      /\ phase' = "codec" => test' = test
      /\ phase' \in {"options", "downenc"} => test' \in {"", "S"}
      /\ phase' = "downenc" => test' = "S"
      /\ downenc' = downenc \/ (downenc' = "R" /\ qtype = "NULL")
      /\ \/ dataenc' = dataenc
         \/ dataenc' = test /\ server.codec = test /\ phase' # "codec"
  BY <1>1, <1>2, AfterUpstream
<1>4. TestsPassed'
  BY <1>1, <1>2, <1>3 DEF IInv, TestsPassed, CarriesCodec, Downstream, options
<1>5. test' \in Words /\ downenc' \in Words /\ num_immediate' \in Nat
  BY <1>1, <1>3, Word DEF IInv, Typed, Downstream
<1>6. Found'
  BY <1>1, <1>2, <1>3 DEF IInv, Found, options
<1>7. RttDefined'
  BY <1>3 DEF RttDefined
<1>8. phase' \in Asking /\ phase' \notin BeforeCodec
  BY <1>3, Letters DEF BeforeCodec
<1> QED
  BY <1>1, <1>2, <1>3, <1>4, <1>5, <1>6, <1>7, <1>8, Handled

(* A codec is chosen if what was asked for with it came back intact.        *)
LEMMA DownencStep ==
    ASSUME IInv, NEW says, handshake_downenctest(says)
    PROVE  IInv'
<1>1. /\ Wait(says) /\ phase = "downenc"
      /\ UNCHANGED <<edns0, dataenc, lazymode, conn, num_immediate>>
  BY DEF handshake_downenctest
<1>2. /\ net' \subseteq net /\ waiting' = FALSE /\ UNCHANGED <<options, running, server>>
      /\ says = "intact" => Arg \in path.down \cup {"plain"}
  BY <1>1, WaitFacts
<1>3. test \in Downstream
  BY <1>1 DEF IInv, TestsPassed
<1>4. says = "intact" => test \in path.down
  BY <1>1, <1>2, <1>3 DEF Arg, Downstream
<1>5. /\ \/ phase' = "downenc" /\ test' \in {test} \cup Downstream
         \/ phase' = "options" /\ test' = ""
      /\ downenc' = downenc \/ (downenc' = test /\ says = "intact")
  <2>1. CASE says = "nothing" /\ try + 1 < Tries.downenc
    BY <1>1, <2>1 DEF handshake_downenctest, Again, Go
  <2>2. CASE says = "intact"
    BY <1>3, <2>2 DEF handshake_downenctest, Go, Downstream
  <2>3. CASE ~(says = "nothing" /\ try + 1 < Tries.downenc) /\ says # "intact"
    BY <2>3 DEF handshake_downenctest, Go, Downstream
  <2> QED
    BY <2>1, <2>2, <2>3
<1>6. TestsPassed'
  BY <1>1, <1>2, <1>3, <1>5 DEF IInv, TestsPassed, CarriesCodec, options
<1>7. test' \in Words /\ downenc' \in Words /\ num_immediate' \in Nat
  BY <1>1, <1>3, <1>5, Word DEF IInv, Typed
<1>8. Found'
  BY <1>1, <1>2, <1>4, <1>5 DEF IInv, Found, options
<1>9. RttDefined'
  BY <1>5 DEF RttDefined
<1>10. phase' \in Asking /\ phase' \notin BeforeCodec /\ phase' # "codec"
  BY <1>5, Letters DEF BeforeCodec
<1> QED
  BY <1>1, <1>2, <1>6, <1>7, <1>8, <1>9, <1>10, Handled

(* The last functions choose nothing any more.                              *)
LEMMA LastSteps ==
    ASSUME IInv, NEW says,
           \/ handshake_switch_options(says) \/ handshake_set_fragsize(says)
           \/ handshake_set_timeout(says)
    PROVE  IInv'
<1>1. /\ Wait(says) /\ UNCHANGED client
      /\ phase \in {"options", "fragsize", "timeout"}
      /\ phase' \in {"options", "probe", "fragsize", "timeout", "done"}
      /\ test' \in {test, ""}
      /\ phase' = "done" => num_immediate' = num_immediate + 1
      /\ num_immediate' = num_immediate \/ num_immediate' = num_immediate + 1
  <2>1. CASE handshake_switch_options(says)
    BY <2>1 DEF handshake_switch_options, Go, Again
  <2>2. CASE handshake_set_fragsize(says)
    BY <2>2 DEF handshake_set_fragsize, Go, Again
  <2>3. CASE handshake_set_timeout(says)
    BY <2>3 DEF handshake_set_timeout, Go, Again
  <2> QED
    BY <2>1, <2>2, <2>3
<1>2. UNCHANGED <<options, running>>
  BY <1>1, WaitFacts
<1>3. /\ num_immediate \in Nat /\ num_immediate' \in Nat /\ test' \in Words
      /\ phase' = "done" => num_immediate' > 0
  <2>1. num_immediate \in Nat /\ test \in Words /\ "" \in Words
    BY Word DEF IInv, Typed
  <2>2. \A n \in Nat : n + 1 \in Nat /\ n + 1 > 0
    OBVIOUS
  <2> QED
    BY <1>1, <2>1, <2>2
<1>4. Found'
  BY <1>1, <1>2 DEF IInv, Found, options, client
<1>5. RttDefined'
  BY <1>3 DEF RttDefined
<1>6. /\ phase' \in (Asking \cup {"probe", "done"}) \ {"codec", "downenc", "upenc"}
      /\ phase' \notin BeforeCodec /\ num_immediate' \in Nat
  <2>1. phase' \in Asking \cup {"probe", "done"}
    BY <1>1, Letters
  <2>2. phase' \notin BeforeCodec \cup {"codec", "downenc"}
    BY <1>1 DEF BeforeCodec
  <2> QED
    BY <1>3, <2>1, <2>2 DEF BeforeCodec
<1> QED
  BY <1>1, <1>3, <1>4, <1>5, <1>6, PlainStep DEF client

LEMMA AutoprobeStep == IInv /\ handshake_autoprobe_fragsize => IInv'
<1> SUFFICES ASSUME IInv, handshake_autoprobe_fragsize PROVE IInv'
  OBVIOUS
<1>1. /\ phase = "probe" /\ phase' \in {"fragsize", "failed"} /\ test' = ""
      /\ net' \subseteq net
      /\ UNCHANGED <<options, client, num_immediate, waiting, running, server>>
  BY DEF handshake_autoprobe_fragsize, Go
<1> USE DEF options, client
<1>2. Typed'
  BY <1>1, Letters, Word DEF IInv, Typed
<1>3. TestsPassed' /\ RttDefined'
  BY <1>1 DEF IInv, TestsPassed, CarriesCodec, RttDefined
<1>4. Found'
  BY <1>1 DEF IInv, Found
<1>5. Switched' /\ RawAgreed' /\ Echoed'
  BY <1>1 DEF IInv, Switched, BeforeCodec, RawAgreed, Echoed
<1>6. LastQuery'
  <2>1. Arg' = "" /\ Arg = ""
    BY <1>1 DEF Arg
  <2> QED
    BY <1>1, <2>1 DEF IInv, LastQuery
<1> QED
  BY <1>2, <1>3, <1>4, <1>5, <1>6 DEF IInv

LEMMA NextIInv == IInv /\ [Next]_vars => IInv'
<1> SUFFICES ASSUME IInv, [Next]_vars PROVE IInv'
  OBVIOUS
<1>1. CASE Send
  BY <1>1, SendStep
<1>2. CASE Interrupt
  BY <1>2, FewerStep DEF Interrupt, control
<1>3. CASE Stop
  BY <1>3, StopStep
<1>4. CASE Serve
  BY <1>4, ServeStep
<1>5. CASE Lose \/ Ignore
  <2>1. /\ net' \subseteq net
        /\ UNCHANGED <<options, client, num_immediate, control, running, server>>
    BY <1>5 DEF Lose, Ignore
  <2> QED
    BY <2>1, FewerStep DEF control, IInv, Typed
<1>6. CASE handshake_raw_udp
  BY <1>6, RawStep
<1>7. CASE handshake_autoprobe_fragsize
  BY <1>7, AutoprobeStep
<1>8. ASSUME NEW says \in Says,
             \/ handshake_version(says) \/ handshake_login(says) \/ handshake_raw_ip(says)
             \/ handshake_edns0_check(says) \/ handshake_upenctest(says)
             \/ handshake_switch_codec(says) \/ handshake_downenctest(says)
             \/ handshake_switch_options(says) \/ handshake_set_fragsize(says)
             \/ handshake_set_timeout(says)
      PROVE  IInv'
  BY <1>8, VersionStep, LoginStep, RawIpStep, Edns0Step, UpencStep, CodecStep, DownencStep,
     LastSteps
<1>9. CASE UNCHANGED vars
  <2>1. UNCHANGED <<options, client, num_immediate, phase, test, waiting, running, server, net>>
    BY <1>9 DEF vars, control
  <2> QED
    BY <2>1, FewerStep DEF IInv, Typed
<1> QED
  BY <1>1, <1>2, <1>3, <1>4, <1>5, <1>6, <1>7, <1>8, <1>9 DEF Next, Handle

-----------------------------------------------------------------------------
(* The theorems. FairSpec implies Spec, so they hold of it, too.            *)

THEOREM SpecIInv == Spec => []IInv
<1> QED
  BY InitIInv, NextIInv, PTL DEF Spec

(* The upstream codec and the raw mode are used only after the server has   *)
(* switched to them, whichever queries and answers were lost, late or seen  *)
(* twice (handshake_switch_codec, handshake_raw_udp).                       *)
THEOREM NeverAhead == Spec => []ClientNotAhead
<1>1. IInv => ClientNotAhead
  BY DEF IInv, Switched, RawAgreed, ClientNotAhead
<1> QED
  BY <1>1, SpecIInv, PTL

(* The codecs chosen, and EDNS0 if it is used, are ones that the path       *)
(* carries, for every path and whatever old answers arrive during a test    *)
(* (handshake_upenc_autodetect, handshake_downenc_autodetect).              *)
THEOREM OnlyWhatIsCarried == Spec => []CodecsCarried
<1>1. IInv => CodecsCarried
  <2> SUFFICES ASSUME IInv PROVE CodecsCarried
    OBVIOUS
  <2>1. CarriesCodec(dataenc) /\ Found
    BY DEF IInv, TestsPassed
  <2> QED
    BY <2>1 DEF CarriesCodec, Found, CodecsCarried
<1> QED
  BY <1>1, SpecIInv, PTL

(* The average round-trip time that is reported at the end is one of at     *)
(* least one ping, even if all of them were lost (handshake_set_timeout).   *)
THEOREM RttAlwaysDefined == Spec => []RttDefined
<1>1. IInv => RttDefined
  BY DEF IInv
<1> QED
  BY <1>1, SpecIInv, PTL

=============================================================================
