---------------------------- MODULE MCHandshake ----------------------------
(* Handshake for TLC, on paths that carry everything, a part, or nothing.  *)
EXTENDS Handshake

Carrying(up, down, extended) ==
    [up |-> up, swaps |-> FALSE, down |-> down, edns0 |-> extended]

With(p, type, raw, forward) ==
    [ path |-> p, qtype |-> type, raw_mode |-> raw, use_remote_forward |-> forward,
      lazymode |-> TRUE ]

Clear == Carrying(Patterns, Downstream, TRUE)

MCSetups ==
    { With(Clear, "NULL", TRUE, TRUE),
      With(Carrying(Patterns \ {"128d"}, {"S"}, FALSE), "CNAME", FALSE, FALSE),
      With(Carrying({"64u"}, {"U", "V", "R"}, TRUE), "TXT", FALSE, FALSE),
      With([Carrying({}, {}, TRUE) EXCEPT !.swaps = TRUE], "CNAME", FALSE, FALSE) }

=============================================================================
