------------------------------ MODULE MCPaging ------------------------------
(* The frame and directory manager on its own: four frames, two directories *)
(* and the kernel's, one ordinary page besides page 0 and the stack.        *)
EXTENDS Paging

MCPages == {0, 1, 767, 768}
=============================================================================
