--------------------------- MODULE MCDeckControl ---------------------------
(* DeckControl over a number of events that its configurations choose.      *)
EXTENDS DeckControl
=============================================================================
