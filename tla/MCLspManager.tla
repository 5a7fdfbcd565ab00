---------------------------- MODULE MCLspManager ----------------------------
(* Small instances of LspManager. *)
EXTENDS LspManager

CONSTANTS d1, d2, s1, s2

MCServerOf == [d \in Docs |-> IF d = d1 THEN s1 ELSE s2]
Incremental == [openClose |-> TRUE, change |-> "incremental"]
Silent == [openClose |-> FALSE, change |-> "none"]
MCSyncs == {Incremental, Silent}
=============================================================================
