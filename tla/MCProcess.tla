----------------------------- MODULE MCProcess ------------------------------
(* Small machines for module Process: a few frames, page indexes 0, 0x2FF   *)
(* (user stack) and 0x300 (kernel).                                         *)
EXTENDS Process

MCPages == {0, 767, 768}
MCSizes == {2, 9}
=============================================================================
