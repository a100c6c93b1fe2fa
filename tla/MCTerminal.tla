----------------------------- MODULE MCTerminal -----------------------------
(* A screen of 3 rows of 4, small enough to wrap and to scroll within a     *)
(* line; the clock has the right half of the bottom row.                    *)
EXTENDS Terminal

MCKeys == {"a", "b"}
MCEditKeys == {Newline, Backspace, Tab}
MCPrompt == <<"$">>
MCClockCols == {2, 3}
=============================================================================
