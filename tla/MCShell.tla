------------------------------ MODULE MCShell -------------------------------
(* Disks and a user for module Shell.                                        *)
EXTENDS Shell

MCNames == {"a", "b", "c", "d"}
MCTwoExts == {"", "x"}

Relative(ws) == [absolute |-> FALSE, words |-> ws]
Absolute(ws) == [absolute |-> TRUE, words |-> ws]

MCPaths == {Relative(<<n>>) : n \in {"a", "b", DotDot}}
           \cup {Relative(<<"a", "b">>), Relative(<<DotDot, "b">>), Absolute(<<"c">>)}

\* Contents tell files apart; a directory's table had no junk in it.
Put(parent, name, size) ==
    [parent |-> parent, name |-> name, size |-> size,
     buf |-> IF size = 0 THEN "" ELSE [k \in 1 .. size |-> <<name, k>>]]

\* Next to nothing; a tree of directories; a file too long for the buffer of cp
\* that leaves little room, and a directory with a file.
MCImages == {
    <<Put(2, "b", 1)>>,
    <<Put(2, "a", 0), Put(3, "d", 0), Put(3, "b", 0)>>,
    <<Put(2, "a", 0), Put(3, "b", 1), Put(2, "b", 2)>> }
=============================================================================
