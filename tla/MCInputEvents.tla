--------------------------- MODULE MCInputEvents ---------------------------
(* Model-checking instance: two viewers on a screen of five columns, one of  *)
(* which may point beyond it.                                               *)
EXTENDS InputEvents

MCColumns == {0, Width + 1}
=============================================================================
