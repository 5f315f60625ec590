---------------------------- MODULE MCDnsExchange ----------------------------
(* The names and messages of MCHostname. A ping of one client is answered,  *)
(* by one to three names that are full, one byte short of it or one byte    *)
(* beyond it, and by the largest answers.                                  *)
EXTENDS MCHostname, DnsExchange

MCAnswered == {<<100, 3, 14>>}
MCTypes == {"NULL", "TXT", "A", "MX", "SRV"}
MCCodecs == {Base32, Base64, Base128}
MCSizes == {2, 3, 153, 154, 183, 184, 214, 215, 305, 306, 307, 400, 1536}
=============================================================================
