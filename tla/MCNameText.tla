----------------------------- MODULE MCNameText -----------------------------
(* More than one turn of the loops of every codec, and labels short enough  *)
(* for several to a name.                                                  *)
EXTENDS NameText

MCHeaders == {2, 6}

=============================================================================
