--------------------------- MODULE MCFrameDelivery --------------------------
(* Small instances of FrameDelivery: a terminal client, a window, and a      *)
(* window that opens launch targets.                                         *)
EXTENDS FrameDelivery
=============================================================================
