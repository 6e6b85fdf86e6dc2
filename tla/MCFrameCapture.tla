--------------------------- MODULE MCFrameCapture ---------------------------
(* Model-checking instance: two threads and a screen with two contents.     *)
EXTENDS FrameCapture
=============================================================================
