------------------------------ MODULE MCFat32 -------------------------------
(* Small disks for module Fat32: clusters 0 and 1 are reserved, 2 is the    *)
(* root directory; a directory has two slots besides "." and "..".          *)
EXTENDS Fat32

MCNames == {"a", "b"}
MCOneName == {"a"}
MCOneExt == {""}
MCTwoExts == {"", "x"}
=============================================================================
