----------------------------- MODULE MCHostname -----------------------------
(* Name lengths of the documented range, all topdomains, and the lengths of *)
(* the messages with their CMC: options, ping, login, login with an address *)
(* to forward to.                                                           *)
EXTENDS Hostname

MCMaxlens == {100, 200, 255}
MCTopdomains == 3..128
ShortTopdomains == 3..83
MCMessages == {2, 3, 14, 19, 37}
MCSwitched == {Base64, Base128}
=============================================================================
