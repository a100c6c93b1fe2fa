--------------------------- MODULE TerminalProofs ----------------------------
(***************************************************************************)
(* Theorems about the keyboard, the screen and the line editor: the cursor *)
(* stays on the screen, the digits of the clock stay in their corner, the  *)
(* line is what was typed, and the screen shows it.  Printing is a         *)
(* recursion over characters and a line one over keys; InductionLemmas     *)
(* unfolds both.                                                           *)
(***************************************************************************)
EXTENDS Terminal, InductionLemmas

-----------------------------------------------------------------------------
(* Lines.                                                                   *)

\* A key makes a line of a line.
LEMMA EditedTyped ==
    ASSUME NEW S, NEW l \in Seq(S), NEW c \in S
    PROVE  Edited(l, c) \in Seq(S)
  BY DEF Edited

\* The recursion of Typed: one key after the other.
LEMMA TypedRecursion ==
    ASSUME NEW S, NEW keys \in Seq(S)
    PROVE  \E g \in [0 .. Len(keys) -> Seq(S)] :
              /\ g[0] = <<>>
              /\ \A k \in 1 .. Len(keys) : g[k] = Edited(g[k - 1], keys[k])
              /\ Typed(keys) = g[Len(keys)]
<1> DEFINE n == Len(keys)
           Lines == Seq(S)
           none == <<>>
           step == [l \in Lines |-> [k \in 1 .. n |-> Edited(l, keys[k])]]
<1>1. n \in Nat /\ none \in Lines
  OBVIOUS
<1>2. \A l \in Lines, k \in 1 .. n : Edited(l, keys[k]) \in Lines
  <2>1. \A k \in 1 .. n : keys[k] \in S
    OBVIOUS
  <2> QED
    BY <2>1, EditedTyped
<1> HIDE DEF n, Lines, none
<1>3. step \in Steps(Lines, n)
  BY <1>2 DEF Steps
<1>4. \A l \in Lines, k \in 1 .. n : step[l][k] = Edited(l, keys[k])
  OBVIOUS
<1> HIDE DEF step
<1>5. PICK g \in [0 .. n -> Lines] : Follows(g, none, step, n)
  BY <1>1, <1>3, RecursionExists
<1>6. ASSUME NEW k \in 1 .. n PROVE g[k] = Edited(g[k - 1], keys[k])
  <2>1. g[k - 1] \in Lines
    BY <1>1
  <2> QED
    BY <1>4, <1>5, <2>1 DEF Follows
<1>7. g = [k \in 0 .. n |-> IF k = 0 THEN none ELSE Edited(g[k - 1], keys[k])]
  BY <1>1, <1>5, <1>6 DEF Follows
<1> DEFINE h == CHOOSE h : h = [k \in 0 .. n |->
                                   IF k = 0 THEN none ELSE Edited(h[k - 1], keys[k])]
<1>8. h = [k \in 0 .. n |-> IF k = 0 THEN none ELSE Edited(h[k - 1], keys[k])]
  BY <1>7
<1>9. Typed(keys) = h[n]
  BY DEF Typed, n, none
<1> HIDE DEF h
<1>10. Alike(g, h, n)
  <2>1. g[0] = h[0]
    BY <1>1, <1>5, <1>8 DEF Follows
  <2>2. \A k \in 1 .. n : g[k - 1] = h[k - 1] => g[k] = h[k]
    BY <1>1, <1>6, <1>8
  <2> QED
    BY <2>1, <2>2 DEF Alike
<1>11. \A k \in 0 .. n : g[k] = h[k]
  BY <1>1, <1>10, SameRecursion
<1>12. Typed(keys) = g[n]
  BY <1>1, <1>9, <1>11
<1> QED
  BY <1>5, <1>6, <1>12 DEF n, Lines, none, Follows

\* No keys, no line.
LEMMA TypedNothing == Typed(<<>>) = <<>>
<1>1. <<>> \in Seq({})  /\ Len(<<>>) = 0
  OBVIOUS
<1>2. PICK keys : keys = <<>>
  OBVIOUS
<1>3. keys \in Seq({})
  BY <1>1, <1>2
<1>4. PICK g : g[0] = <<>> /\ Typed(keys) = g[Len(keys)]
  BY <1>3, TypedRecursion
<1> QED
  BY <1>1, <1>2, <1>4

\* One key more edits the line once more.
LEMMA TypedAnother ==
    ASSUME NEW S, NEW keys \in Seq(S), NEW c \in S
    PROVE  Typed(Append(keys, c)) = Edited(Typed(keys), c)
<1> DEFINE n == Len(keys)
           more == Append(keys, c)
<1>1. /\ n \in Nat /\ more \in Seq(S) /\ Len(more) = n + 1
      /\ more[n + 1] = c /\ \A k \in 1 .. n : more[k] = keys[k]
  OBVIOUS
<1>2. PICK g \in [0 .. n -> Seq(S)] :
         /\ g[0] = <<>>
         /\ \A k \in 1 .. n : g[k] = Edited(g[k - 1], keys[k])
         /\ Typed(keys) = g[n]
  BY TypedRecursion
<1> HIDE DEF n, more
<1>3. n \in Nat
  BY <1>1
<1>4. more \in Seq(S) /\ Len(more) = n + 1
  BY <1>1
<1>5. PICK h \in [0 .. Len(more) -> Seq(S)] :
         /\ h[0] = <<>>
         /\ \A k \in 1 .. Len(more) : h[k] = Edited(h[k - 1], more[k])
         /\ Typed(more) = h[Len(more)]
  BY <1>4, TypedRecursion
<1>6. /\ h[0] = <<>>
      /\ \A k \in 1 .. n + 1 : h[k] = Edited(h[k - 1], more[k])
      /\ Typed(more) = h[n + 1]
  BY <1>4, <1>5
<1>7. Alike(g, h, n)
  <2>1. \A k \in 1 .. n : k \in 1 .. n + 1
    BY <1>1
  <2>2. ASSUME NEW k \in 1 .. n, g[k - 1] = h[k - 1] PROVE g[k] = h[k]
    <3>1. g[k] = Edited(g[k - 1], keys[k])
      BY <1>2
    <3>2. h[k] = Edited(h[k - 1], more[k])
      BY <1>6, <2>1
    <3>3. more[k] = keys[k]
      BY <1>1
    <3> QED
      BY <2>2, <3>1, <3>2, <3>3
  <2> QED
    BY <1>2, <1>6, <2>2 DEF Alike
<1>8. g[n] = h[n]
  <2>1. \A k \in 0 .. n : g[k] = h[k]
    BY <1>3, <1>7, SameRecursion
  <2> QED
    BY <1>3, <2>1
<1>9. h[n + 1] = Edited(h[n], c)
  BY <1>1, <1>6
<1> QED
  BY <1>2, <1>6, <1>8, <1>9 DEF more

-----------------------------------------------------------------------------
(* Screens.                                                                 *)

Shown == Keys \cup {NUL, Digit} \cup PromptChars
Chars == Keys \cup EditKeys \cup {NUL} \cup PromptChars
Cells == [Rows -> [Cols -> Shown]]
Screens == [cells : Cells, row : Rows, col : Cols]

\* The screen has a column and two rows at least.
LEMMA SizeFacts ==
    /\ Height \in Nat /\ Height > 1 /\ Width \in Nat /\ Width > 0
    /\ TabWidth \in Nat /\ Bottom \in Rows /\ 0 \in Rows /\ 0 \in Cols
    /\ NUL \in Shown
  BY TerminalConstants DEF Rows, Cols, Bottom, Shown

\* Writing into a cell of the screen changes that cell and no other.
LEMMA WriteTyped ==
    ASSUME NEW t \in Screens, NEW r \in Rows, NEW c \in Cols, NEW char \in Shown
    PROVE  /\ framebuffer_write(t, r, c, char) \in Screens
           /\ framebuffer_write(t, r, c, char).row = t.row
           /\ framebuffer_write(t, r, c, char).col = t.col
           /\ \A x \in Rows, y \in Cols :
                 Cell(framebuffer_write(t, r, c, char), x, y) =
                    IF x = r /\ y = c THEN char ELSE Cell(t, x, y)
  BY DEF Screens, Cells, framebuffer_write, Cell

\* Scrolling moves every row up, leaves the corner and blanks the last row.
LEMMA ScrollTyped ==
    ASSUME NEW t \in [cells : Cells, row : Nat, col : Cols], t.row = Height
    PROVE  /\ go_scroll(t) \in Screens
           /\ go_scroll(t).row = Bottom /\ go_scroll(t).col = t.col
           /\ \A x \in Rows, y \in Cols :
                 Cell(go_scroll(t), x, y) =
                    IF x = Bottom \/ (clock /\ x = Bottom - 1 /\ y \in ClockCols)
                    THEN NUL ELSE Cell(t, x + 1, y)
<1> DEFINE cells == [r \in Rows |-> [c \in Cols |->
                        IF r = Bottom \/ (clock /\ r = Bottom - 1 /\ c \in ClockCols)
                        THEN NUL ELSE Cell(t, r + 1, c)]]
<1>1. go_scroll(t) = [cells |-> cells, row |-> t.row - 1, col |-> t.col]
  <2>1. t = [cells |-> t.cells, row |-> t.row, col |-> t.col]
    OBVIOUS
  <2>2. go_scroll(t) = [t EXCEPT !.row = t.row - 1, !.cells = cells]
    BY DEF go_scroll
  <2> HIDE DEF cells
  <2> QED
    BY <2>1, <2>2
<1>2. \A r \in Rows : r # Bottom => r + 1 \in Rows
  BY SizeFacts DEF Rows, Bottom
<1>3. cells \in Cells
  <2>1. \A r \in Rows, c \in Cols : cells[r][c] \in Shown
    BY <1>2, SizeFacts DEF Cells, Cell
  <2> QED
    BY <2>1 DEF Cells
<1>4. t.row - 1 = Bottom
  BY SizeFacts DEF Bottom
<1> HIDE DEF cells
<1>5. go_scroll(t) \in Screens
  BY <1>1, <1>3, <1>4, SizeFacts DEF Screens
<1>6. \A x \in Rows, y \in Cols :
         cells[x][y] = IF x = Bottom \/ (clock /\ x = Bottom - 1 /\ y \in ClockCols)
                       THEN NUL ELSE Cell(t, x + 1, y)
  BY DEF cells
<1> QED
  BY <1>1, <1>4, <1>5, <1>6 DEF Cell

-----------------------------------------------------------------------------
(* The characters of the driver.                                            *)

\* Digits only where a running clock has written them.
Corner(t) ==
    \A r \in Rows, c \in Cols :
        Cell(t, r, c) = Digit => clock /\ r = Bottom /\ c \in ClockCols

\* A row on, scrolling at the bottom, the cursor is on the screen again, and the
\* digits have stayed behind.
LEMMA NextRowTyped ==
    ASSUME NEW t \in Screens
    PROVE  /\ NextRow(t) \in Screens
           /\ Corner(t) => Corner(NextRow(t))
<1> DEFINE down == [t EXCEPT !.row = @ + 1, !.col = 0]
<1>1. t.row \in Nat /\ t.row + 1 \in Nat /\ t.row + 1 <= Height
  BY SizeFacts DEF Screens, Rows
<1>2. /\ down \in [cells : Cells, row : Nat, col : Cols]
      /\ down.row = t.row + 1 /\ down.col = 0 /\ down.cells = t.cells
  <2>1. t = [cells |-> t.cells, row |-> t.row, col |-> t.col] /\ t.cells \in Cells
    BY DEF Screens
  <2>2. down = [cells |-> t.cells, row |-> t.row + 1, col |-> 0]
    <3>1. down = [t EXCEPT !.row = t.row + 1, !.col = 0]
      OBVIOUS
    <3> HIDE DEF down
    <3> QED
      BY <2>1, <3>1 DEF Screens
  <2> HIDE DEF down
  <2> QED
    BY <1>1, <2>1, <2>2, SizeFacts
<1>3. NextRow(t) = IF down.row = Height THEN go_scroll(down) ELSE down
  BY DEF NextRow
<1> HIDE DEF down
<1>4. CASE down.row = Height
  <2>1. /\ go_scroll(down) \in Screens
        /\ \A x \in Rows, y \in Cols :
              Cell(go_scroll(down), x, y) =
                 IF x = Bottom \/ (clock /\ x = Bottom - 1 /\ y \in ClockCols)
                 THEN NUL ELSE Cell(down, x + 1, y)
    BY <1>2, <1>4, ScrollTyped
  <2>2. ASSUME Corner(t), NEW x \in Rows, NEW y \in Cols,
               Cell(go_scroll(down), x, y) = Digit
        PROVE  FALSE
    <3>1. /\ ~(x = Bottom) /\ ~(clock /\ x = Bottom - 1 /\ y \in ClockCols)
          /\ Cell(t, x + 1, y) = Digit
      BY <1>2, <2>1, <2>2 DEF Cell, NUL, Digit
    <3>2. x + 1 \in Rows
      BY <3>1, SizeFacts DEF Rows, Bottom
    <3>3. clock /\ x + 1 = Bottom /\ y \in ClockCols
      BY <2>2, <3>1, <3>2 DEF Corner
    <3> QED
      BY <3>1, <3>3, SizeFacts DEF Rows
  <2> QED
    BY <1>3, <1>4, <2>1, <2>2 DEF Corner
<1>5. CASE down.row # Height
  <2>1. down.row \in Rows
    BY <1>1, <1>2, <1>5, SizeFacts DEF Rows
  <2>2. down \in Screens
    BY <1>2, <2>1 DEF Screens
  <2>3. Corner(t) => Corner(down)
    BY <1>2 DEF Corner, Cell
  <2> QED
    BY <1>3, <1>5, <2>2, <2>3
<1> QED
  BY <1>4, <1>5

\* There is a last character in a row, or the row is blank.
LEMMA LastInRowTyped ==
    ASSUME NEW t, NEW r
    PROVE  LastInRow(t, r) \in Cols
<1> DEFINE Is(c) == /\ c = 0 \/ Cell(t, r, c) # NUL
                    /\ \A e \in Cols : e > c => Cell(t, r, e) = NUL
           T == {c \in Cols : Cell(t, r, c) # NUL}
<1>0. T \subseteq Cols
  OBVIOUS
<1>1. \E c \in Cols : Is(c)
  <2>1. CASE T = {}
    <3>1. Is(0)
      BY <2>1
    <3> QED
      BY <3>1, SizeFacts
  <2>2. CASE T # {}
    <3>1. T \in SUBSET Nat /\ Width - 1 \in Nat /\ \A m \in T : m <= Width - 1
      <4> HIDE DEF T
      <4> QED
        BY <1>0, SizeFacts DEF Cols
    <3>2. PICK c \in T : \A m \in T : m <= c
      <4> HIDE DEF T
      <4> QED
        BY <2>2, <3>1, GreatestElement
    <3>3. \A e \in Cols : e > c => Cell(t, r, e) = NUL
      <4>1. c \in Nat /\ \A e \in Cols : e \in Nat
        BY SizeFacts DEF Cols
      <4> QED
        BY <3>2, <4>1
    <3>4. c \in Cols /\ Is(c)
      BY <3>3
    <3> QED
      BY <3>4
  <2> QED
    BY <2>1, <2>2
<1>2. LastInRow(t, r) = CHOOSE c \in Cols : Is(c)
  BY DEF LastInRow
<1> HIDE DEF Is
<1> QED
  BY <1>1, <1>2

\* A backspace goes back to a cell of the screen, unless the cursor is at its
\* very beginning.
LEMMA BackTyped ==
    ASSUME NEW t \in Screens, ~(t.row = 0 /\ t.col = 0)
    PROVE  Back(t) \in Screens /\ (Corner(t) => Corner(Back(t)))
<1>1. t = [cells |-> t.cells, row |-> t.row, col |-> t.col]
      /\ t.cells \in Cells /\ t.row \in Rows /\ t.col \in Cols
  BY DEF Screens
<1>2. CASE t.col > 0
  <2>1. Back(t) = [cells |-> t.cells, row |-> t.row, col |-> t.col - 1]
    BY <1>1, <1>2 DEF Back
  <2>2. t.col - 1 \in Cols
    BY <1>1, <1>2, SizeFacts DEF Cols
  <2> QED
    BY <1>1, <2>1, <2>2 DEF Screens, Corner, Cell
<1>3. CASE ~(t.col > 0)
  <2>1. Back(t) = [cells |-> t.cells, row |-> t.row - 1,
                   col |-> LastInRow(t, t.row - 1)]
    BY <1>1, <1>3 DEF Back
  <2>2. t.row - 1 \in Rows
    <3>1. t.col = 0
      BY <1>1, <1>3, SizeFacts DEF Cols
    <3> QED
      BY <1>1, <3>1, SizeFacts DEF Rows
  <2>3. LastInRow(t, t.row - 1) \in Cols
    BY LastInRowTyped
  <2> QED
    BY <1>1, <2>1, <2>2, <2>3 DEF Screens, Corner, Cell
<1> QED
  BY <1>2, <1>3

\* Blanking a cell, or writing what is no digit into it, leaves a screen with its
\* digits in the corner.
LEMMA WriteKeepsCorner ==
    ASSUME NEW t \in Screens, NEW r \in Rows, NEW c \in Cols,
           NEW char \in Shown, char # Digit
    PROVE  /\ framebuffer_write(t, r, c, char) \in Screens
           /\ Corner(t) => Corner(framebuffer_write(t, r, c, char))
  BY WriteTyped DEF Corner

\* A character is written and the cursor moves on.
LEMMA PutTyped ==
    ASSUME NEW t \in Screens, NEW char \in Shown, char # Digit
    PROVE  Put(t, char) \in Screens /\ (Corner(t) => Corner(Put(t, char)))
<1> DEFINE w == framebuffer_write(t, t.row, t.col, char)
<1>1. t.row \in Rows /\ t.col \in Cols
  BY DEF Screens
<1>2. w \in Screens /\ (Corner(t) => Corner(w)) /\ w.col = t.col
  BY <1>1, WriteKeepsCorner, WriteTyped
<1>3. Put(t, char) = IF t.col + 1 = Width THEN NextRow(w) ELSE [w EXCEPT !.col = @ + 1]
  BY DEF Put
<1> HIDE DEF w
<1>4. CASE t.col + 1 = Width
  BY <1>2, <1>3, <1>4, NextRowTyped
<1>5. CASE t.col + 1 # Width
  <2>1. w.col + 1 \in Cols
    BY <1>1, <1>2, <1>5, SizeFacts DEF Cols
  <2>2. [w EXCEPT !.col = @ + 1] \in Screens
        /\ [w EXCEPT !.col = @ + 1].cells = w.cells
    BY <1>2, <2>1 DEF Screens
  <2> QED
    BY <1>2, <1>3, <1>5, <2>2 DEF Corner, Cell
<1> QED
  BY <1>4, <1>5

\* A tab stays in the row, or goes to the next one.
LEMMA TabbedTyped ==
    ASSUME NEW t \in Screens
    PROVE  Tabbed(t) \in Screens /\ (Corner(t) => Corner(Tabbed(t)))
<1>1. CASE t.col + TabWidth >= Width
  BY <1>1, NextRowTyped DEF Tabbed
<1>2. CASE ~(t.col + TabWidth >= Width)
  <2>1. t.col + TabWidth \in Cols
    BY <1>2, SizeFacts DEF Cols, Screens
  <2>2. [t EXCEPT !.col = @ + TabWidth] \in Screens
        /\ [t EXCEPT !.col = @ + TabWidth].cells = t.cells
    BY <2>1 DEF Screens
  <2> QED
    BY <1>2, <2>2 DEF Corner, Cell, Tabbed
<1> QED
  BY <1>1, <1>2

\* What keys and prompt consist of.
LEMMA CharFacts ==
    /\ NUL \in Chars /\ Newline \in Chars \cup {Newline}
    /\ \A char \in Chars \cup {Newline} :
          char \notin {Newline, Tab, Backspace, NUL} => char \in Shown /\ char # Digit
    /\ NUL \in Shown /\ NUL # Digit
  BY TerminalConstants DEF Chars, Shown, NotPrinted, Newline, Tab, Backspace, NUL, Digit

\* Whatever is printed, the cursor stays on the screen and the digits in the
\* corner.
LEMMA PutsCharTyped ==
    ASSUME NEW t \in Screens, NEW char \in Chars \cup {Newline}
    PROVE  puts_char(t, char) \in Screens /\ (Corner(t) => Corner(puts_char(t, char)))
<1> DEFINE moved == CASE char = Newline -> NextRow(t)
                      [] char = Tab -> Tabbed(t)
                      [] char = Backspace -> Back(t)
                      [] OTHER -> Put(t, char)
           nothing == char = NUL \/ (char = Backspace /\ t.row = 0 /\ t.col = 0)
<1>1. puts_char(t, char) = IF nothing THEN t
                           ELSE framebuffer_write(moved, moved.row, moved.col, NUL)
  BY DEF puts_char
<1>2. CASE nothing
  <2> HIDE DEF moved
  <2> QED
    BY <1>1, <1>2
<1>3. CASE ~nothing
  <2>1. moved \in Screens /\ (Corner(t) => Corner(moved))
    <3>1. CASE char = Newline
      <4>1. moved = NextRow(t)
        BY <3>1 DEF Tab, Newline, Backspace
      <4> HIDE DEF moved
      <4> QED
        BY <4>1, NextRowTyped
    <3>2. CASE char = Tab
      <4>1. moved = Tabbed(t)
        BY <3>2 DEF Tab, Newline, Backspace
      <4> HIDE DEF moved
      <4> QED
        BY <4>1, TabbedTyped
    <3>3. CASE char = Backspace
      <4>1. moved = Back(t)
        BY <3>3 DEF Tab, Newline, Backspace
      <4> HIDE DEF moved
      <4> QED
        BY <1>3, <3>3, <4>1, BackTyped
    <3>4. CASE char \notin {Newline, Tab, Backspace}
      <4>1. moved = Put(t, char)
        BY <3>4
      <4>2. char \in Shown /\ char # Digit
        BY <1>3, <3>4, CharFacts
      <4> HIDE DEF moved
      <4> QED
        BY <4>1, <4>2, PutTyped
    <3> QED
      BY <3>1, <3>2, <3>3, <3>4
  <2> HIDE DEF moved
  <2>2. moved.row \in Rows /\ moved.col \in Cols
    BY <2>1 DEF Screens
  <2>3. /\ framebuffer_write(moved, moved.row, moved.col, NUL) \in Screens
        /\ Corner(moved) => Corner(framebuffer_write(moved, moved.row, moved.col, NUL))
    BY <2>1, <2>2, CharFacts, WriteKeepsCorner
  <2> QED
    BY <1>1, <1>3, <2>1, <2>3
<1> QED
  BY <1>2, <1>3

\* The recursion of puts: one character after the other.
LEMMA PutsRecursion ==
    ASSUME NEW S, NEW t \in S, NEW A, NEW chars \in Seq(A),
           \A u \in S, a \in A : puts_char(u, a) \in S
    PROVE  \E g \in [0 .. Len(chars) -> S] :
              /\ g[0] = t
              /\ \A k \in 1 .. Len(chars) : g[k] = puts_char(g[k - 1], chars[k])
              /\ puts(t, chars) = g[Len(chars)]
<1> DEFINE n == Len(chars)
           step == [u \in S |-> [k \in 1 .. n |-> puts_char(u, chars[k])]]
<1>1. n \in Nat
  OBVIOUS
<1>2. \A u \in S, k \in 1 .. n : puts_char(u, chars[k]) \in S
  <2>1. \A k \in 1 .. n : chars[k] \in A
    OBVIOUS
  <2> QED
    BY <2>1
<1> HIDE DEF n
<1>3. step \in Steps(S, n)
  BY <1>2 DEF Steps
<1>4. \A u \in S, k \in 1 .. n : step[u][k] = puts_char(u, chars[k])
  OBVIOUS
<1> HIDE DEF step
<1>5. PICK g \in [0 .. n -> S] : Follows(g, t, step, n)
  BY <1>1, <1>3, RecursionExists
<1>6. ASSUME NEW k \in 1 .. n PROVE g[k] = puts_char(g[k - 1], chars[k])
  <2>1. g[k - 1] \in S
    BY <1>1
  <2> QED
    BY <1>4, <1>5, <2>1 DEF Follows
<1>7. g = [k \in 0 .. n |-> IF k = 0 THEN t ELSE puts_char(g[k - 1], chars[k])]
  BY <1>1, <1>5, <1>6 DEF Follows
<1> DEFINE h == CHOOSE h : h = [k \in 0 .. n |->
                                   IF k = 0 THEN t ELSE puts_char(h[k - 1], chars[k])]
<1>8. h = [k \in 0 .. n |-> IF k = 0 THEN t ELSE puts_char(h[k - 1], chars[k])]
  BY <1>7
<1>9. puts(t, chars) = h[n]
  BY DEF puts, n
<1> HIDE DEF h
<1>10. Alike(g, h, n)
  <2>1. g[0] = h[0]
    BY <1>1, <1>5, <1>8 DEF Follows
  <2>2. \A k \in 1 .. n : g[k - 1] = h[k - 1] => g[k] = h[k]
    BY <1>1, <1>6, <1>8
  <2> QED
    BY <2>1, <2>2 DEF Alike
<1>11. \A k \in 0 .. n : g[k] = h[k]
  BY <1>1, <1>10, SameRecursion
<1>12. puts(t, chars) = g[n]
  BY <1>1, <1>9, <1>11
<1>13. g[0] = t /\ \A k \in 1 .. n : g[k] = puts_char(g[k - 1], chars[k])
  BY <1>5, <1>6 DEF Follows
<1> QED
  BY <1>5, <1>12, <1>13 DEF n

\* What every character keeps, a sequence of them keeps.
LEMMA PutsInvariant ==
    ASSUME NEW S, NEW t \in S, NEW A, NEW chars \in Seq(A),
           \A u \in S, a \in A : puts_char(u, a) \in S
    PROVE  puts(t, chars) \in S
<1>1. PICK g \in [0 .. Len(chars) -> S] : puts(t, chars) = g[Len(chars)]
  BY PutsRecursion
<1>2. Len(chars) \in 0 .. Len(chars)
  OBVIOUS
<1> QED
  BY <1>1, <1>2

\* A prompt and a line end are printed as any key is.
LEMMA PutsTyped ==
    ASSUME NEW t \in Screens
    PROVE  puts(t, Prompt) \in Screens /\ (Corner(t) => Corner(puts(t, Prompt)))
<1>1. Prompt \in Seq(PromptChars)
  BY TerminalConstants
<1>2. \A a \in PromptChars : a \in Chars \cup {Newline}
  BY DEF Chars
<1>3. puts(t, Prompt) \in Screens
  BY <1>1, <1>2, PutsCharTyped, PutsInvariant
<1>4. ASSUME Corner(t) PROVE Corner(puts(t, Prompt))
  <2> DEFINE S == {u \in Screens : Corner(u)}
  <2>1. t \in S
    BY <1>4
  <2>2. \A u \in S, a \in PromptChars : puts_char(u, a) \in S
    BY <1>2, PutsCharTyped
  <2>3. \A u \in S : Corner(u)
    OBVIOUS
  <2> HIDE DEF S
  <2>4. puts(t, Prompt) \in S
    BY <1>1, <2>1, <2>2, PutsInvariant
  <2> QED
    BY <2>3, <2>4
<1> QED
  BY <1>3, <1>4

-----------------------------------------------------------------------------
(* The cursor stays on the screen.                                          *)

\* The type invariant that is inductive: keys and lines are of characters that can
\* be printed.
TerminalTyped ==
    /\ shell \in {"prompt", "poll", "echo", "execute"}
    /\ terminal \in Screens
    /\ buf \in Chars /\ keyboard_buffer \in Chars /\ isBufferEmpty \in BOOLEAN
    /\ line \in Seq(Chars) /\ taken \in Seq(Chars)

\* The screen the kernel starts with, and a screen that was cleared.
LEMMA ClearTyped ==
    ASSUME NEW t
    PROVE  framebuffer_clear(t) \in Screens /\ Corner(framebuffer_clear(t))
<1>1. \A r \in Rows, c \in Cols : Cell(framebuffer_clear(t), r, c) = NUL
  BY DEF framebuffer_clear, Cell
<1>2. framebuffer_clear(t) \in Screens
  BY SizeFacts DEF framebuffer_clear, Screens, Cells
<1> QED
  BY <1>1, <1>2, CharFacts DEF Corner

\* The screen is blank when the kernel starts, and no key was pressed.
LEMMA InitTyped == TerminalInit => TerminalTyped /\ Corner(terminal)
<1> SUFFICES ASSUME TerminalInit PROVE TerminalTyped /\ Corner(terminal)
  OBVIOUS
<1>1. terminal = framebuffer_clear(terminal)
  BY DEF TerminalInit, framebuffer_clear
<1>2. terminal \in Screens /\ Corner(terminal)
  BY <1>1, ClearTyped
<1>3. <<>> \in Seq(Chars)
  OBVIOUS
<1> QED
  BY <1>2, <1>3, CharFacts DEF TerminalInit, TerminalTyped

\* Every step leaves the cursor on the screen.
LEMMA TerminalTypedStep ==
    TerminalTyped /\ [TerminalNext]_terminalVars => TerminalTyped'
<1> SUFFICES ASSUME TerminalTyped, [TerminalNext]_terminalVars
             PROVE  TerminalTyped'
  OBVIOUS
<1> USE DEF TerminalTyped, keyboard
<1>1. ASSUME PressKey PROVE TerminalTyped'
  <2>1. PICK char \in Keys \cup EditKeys \cup {NUL} : keyboard_isr(char)
    BY <1>1 DEF PressKey
  <2>2. char \in Chars
    BY DEF Chars
  <2>3. keyboard_buffer' \in Chars /\ isBufferEmpty' \in BOOLEAN /\ taken' \in Seq(Chars)
    <3>1. CASE isBufferEmpty
      <4>1. keyboard_buffer' = char /\ isBufferEmpty' = FALSE
        BY <2>1, <3>1 DEF keyboard_isr
      <4>2. taken' = taken \/ taken' = Append(taken, char)
        BY <2>1, <3>1 DEF keyboard_isr
      <4>3. taken' \in Seq(Chars)
        BY <2>2, <4>2
      <4> QED
        BY <2>2, <4>1, <4>3
    <3>2. CASE ~isBufferEmpty
      BY <2>1, <3>2 DEF keyboard_isr
    <3> QED
      BY <3>1, <3>2
  <2> QED
    BY <1>1, <2>3 DEF PressKey
<1>2. ASSUME ShowPrompt PROVE TerminalTyped'
  <2>1. terminal' \in Screens
    BY <1>2, PutsTyped DEF ShowPrompt
  <2>2. taken' \in Seq(Chars) /\ line' \in Seq(Chars)
    BY <1>2 DEF ShowPrompt
  <2> QED
    BY <1>2, <2>1, <2>2, CharFacts DEF ShowPrompt
<1>3. ASSUME Poll PROVE TerminalTyped'
  BY <1>3, CharFacts DEF Poll, get_keyboard_buffer
<1>4. ASSUME Echo PROVE TerminalTyped'
  <2>1. line' \in Seq(Chars)
    BY <1>4, EditedTyped DEF Echo
  <2>2. terminal' \in Screens /\ buf' \in Chars
    BY <1>4, CharFacts, PutsCharTyped DEF Echo
  <2> QED
    BY <1>4, <2>1, <2>2 DEF Echo
<1>5. ASSUME Execute PROVE TerminalTyped'
  <2>1. terminal' \in Screens
    BY <1>5, ClearTyped, CharFacts, PutsCharTyped DEF Execute
  <2> QED
    BY <1>5, <2>1 DEF Execute
<1>6. ASSUME ClockWrite PROVE TerminalTyped'
  <2>1. PICK c \in ClockCols : terminal' = framebuffer_write(terminal, Bottom, c, Digit)
    BY <1>6 DEF ClockWrite
  <2>2. c \in Cols /\ Bottom \in Rows /\ Digit \in Shown
    BY TerminalConstants, SizeFacts DEF Cols, Shown
  <2>3. terminal' \in Screens
    BY <2>1, <2>2, WriteTyped
  <2> QED
    BY <1>6, <2>3 DEF ClockWrite
<1>7. ASSUME UNCHANGED terminalVars PROVE TerminalTyped'
  BY <1>7 DEF terminalVars
<1> QED
  BY <1>1, <1>2, <1>3, <1>4, <1>5, <1>6, <1>7 DEF TerminalNext, ShellStep

\* However the keys come and however often the screen scrolls, the cursor is on
\* the screen: puts_char never writes outside the frame buffer.
THEOREM CursorOnScreen == TerminalSpec => []TerminalTypeOK
<1>1. TerminalInit => TerminalTyped
  BY InitTyped
<1>2. TerminalTyped /\ [TerminalNext]_terminalVars => TerminalTyped'
  BY TerminalTypedStep
<1>3. TerminalTyped => TerminalTypeOK
  BY DEF TerminalTyped, TerminalTypeOK, Screens, Cells, Shown
<1> QED
  BY <1>1, <1>2, <1>3, PTL DEF TerminalSpec

-----------------------------------------------------------------------------
(* The digits of the clock.                                                 *)

\* No step takes a digit out of the corner, if the clock is not killed.
LEMMA CornerStep ==
    ASSUME KeepClock
    PROVE  TerminalTyped /\ Corner(terminal) /\ [TerminalNext]_terminalVars
              => Corner(terminal)'
<1> SUFFICES ASSUME TerminalTyped, Corner(terminal), [TerminalNext]_terminalVars
             PROVE  Corner(terminal)'
  OBVIOUS
<1> USE DEF TerminalTyped
\* A screen with its digits in the corner, printed while the clock is as it is.
<1>1. ASSUME NEW t \in Screens, Corner(t), terminal' = t, clock => clock'
      PROVE  Corner(terminal)'
  BY <1>1 DEF Corner, Cell
<1>2. ASSUME PressKey PROVE Corner(terminal)'
  BY <1>2 DEF PressKey, Corner, Cell
<1>3. ASSUME ShowPrompt PROVE Corner(terminal)'
  <2>1. puts(terminal, Prompt) \in Screens /\ Corner(puts(terminal, Prompt))
    BY PutsTyped
  <2> QED
    BY <1>1, <1>3, <2>1 DEF ShowPrompt
<1>4. ASSUME Poll PROVE Corner(terminal)'
  BY <1>4 DEF Poll, Corner, Cell
<1>5. ASSUME Echo PROVE Corner(terminal)'
  <2>1. puts_char(terminal, buf) \in Screens /\ Corner(puts_char(terminal, buf))
    BY PutsCharTyped
  <2> QED
    BY <1>1, <1>5, <2>1 DEF Echo
<1>6. ASSUME Execute PROVE Corner(terminal)'
  <2>1. /\ puts_char(terminal, Newline) \in Screens
        /\ Corner(puts_char(terminal, Newline))
    BY CharFacts, PutsCharTyped
  <2>2. /\ framebuffer_clear(terminal) \in Screens
        /\ Corner(framebuffer_clear(terminal))
    BY ClearTyped
  <2> QED
    BY <1>1, <1>6, <2>1, <2>2 DEF Execute
<1>7. ASSUME ClockWrite PROVE Corner(terminal)'
  <2>1. PICK c \in ClockCols : terminal' = framebuffer_write(terminal, Bottom, c, Digit)
    BY <1>7 DEF ClockWrite
  <2>2. c \in Cols /\ Bottom \in Rows /\ Digit \in Shown
    BY TerminalConstants, SizeFacts DEF Cols, Shown
  <2>3. \A x \in Rows, y \in Cols :
           Cell(framebuffer_write(terminal, Bottom, c, Digit), x, y) =
              IF x = Bottom /\ y = c THEN Digit ELSE Cell(terminal, x, y)
    BY <2>2, WriteTyped
  <2>4. clock /\ clock'
    BY <1>7 DEF ClockWrite
  <2> QED
    BY <2>1, <2>3, <2>4 DEF Corner, Cell
<1>8. ASSUME UNCHANGED terminalVars PROVE Corner(terminal)'
  BY <1>8 DEF terminalVars, Corner, Cell
<1> QED
  BY <1>2, <1>3, <1>4, <1>5, <1>6, <1>7, <1>8 DEF TerminalNext, ShellStep

\* However much is typed and scrolled while the clock runs, its digits are seen
\* in the corner only.
THEOREM DigitsStayInCorner ==
    ASSUME KeepClock
    PROVE  TerminalSpec => []ClockInCorner
<1>1. TerminalInit => TerminalTyped /\ Corner(terminal)
  BY InitTyped
<1>2. TerminalTyped /\ Corner(terminal) /\ [TerminalNext]_terminalVars
         => TerminalTyped' /\ Corner(terminal)'
  BY TerminalTypedStep, CornerStep
<1>3. Corner(terminal) => ClockInCorner
  BY DEF Corner, ClockInCorner
<1> QED
  BY <1>1, <1>2, <1>3, PTL DEF TerminalSpec

-----------------------------------------------------------------------------
(* The line.                                                                *)

\* The keys of this line the shell has been handed.
Handed == SubSeq(taken, 1, Len(taken) - Unread)

\* The buffer of the interrupt handler holds the last key that was taken, or is
\* free; the character the shell holds is applied when it echoes, and the one it
\* keeps over a poll changes nothing.
LineInv ==
    /\ isBufferEmpty => keyboard_buffer = NUL
    /\ keyboard_buffer # NUL => taken # <<>> /\ taken[Len(taken)] = keyboard_buffer
    /\ shell = "poll" => /\ line = Typed(Handed)
                         /\ buf = NUL \/ (buf = Backspace /\ line = <<>>)
    /\ shell = "echo" => Edited(line, buf) = Typed(Handed)

\* Nothing unread: the line is made of all keys taken.  One unread: of all but
\* the last.
LEMMA HandedFacts ==
    ASSUME NEW keys \in Seq(Chars)
    PROVE  /\ SubSeq(keys, 1, Len(keys) - 0) = keys
           /\ keys # <<>> =>
                 /\ SubSeq(keys, 1, Len(keys) - 1) \in Seq(Chars)
                 /\ keys = Append(SubSeq(keys, 1, Len(keys) - 1), keys[Len(keys)])
  OBVIOUS

\* A key that is taken is not handed out yet.
LEMMA AppendFacts ==
    ASSUME NEW keys \in Seq(Chars), NEW c \in Chars
    PROVE  /\ SubSeq(Append(keys, c), 1, Len(Append(keys, c)) - 1) = keys
           /\ Append(keys, c) # <<>>
           /\ Append(keys, c)[Len(Append(keys, c))] = c
  OBVIOUS

\* Every step keeps line, buffer and history of the keys in agreement.
LEMMA LineInvStep ==
    TerminalTyped /\ LineInv /\ [TerminalNext]_terminalVars => LineInv'
<1> SUFFICES ASSUME TerminalTyped, LineInv, [TerminalNext]_terminalVars
             PROVE  LineInv'
  OBVIOUS
<1>0. taken \in Seq(Chars) /\ keyboard_buffer \in Chars /\ isBufferEmpty \in BOOLEAN
  BY DEF TerminalTyped
<1>1. ASSUME PressKey PROVE LineInv'
  <2>1. PICK char \in Keys \cup EditKeys \cup {NUL} : keyboard_isr(char)
    BY <1>1 DEF PressKey
  <2>2. UNCHANGED <<line, buf, shell>>
    BY <1>1 DEF PressKey
  <2>3. CASE ~isBufferEmpty
    BY <2>1, <2>2, <2>3 DEF keyboard_isr, LineInv, keyboard, Handed, Unread
  <2>4. CASE isBufferEmpty
    <3>1. char \in Chars /\ keyboard_buffer = NUL
      BY <2>4 DEF Chars, LineInv
    <3>2. keyboard_buffer' = char /\ isBufferEmpty' = FALSE
      BY <2>1, <2>4 DEF keyboard_isr
    <3>3. taken' = IF char = NUL THEN taken ELSE Append(taken, char)
      BY <2>1, <2>4 DEF keyboard_isr
    <3>4. Handed = taken
      BY <1>0, <3>1, HandedFacts DEF Handed, Unread
    <3>5. /\ Handed' = taken
          /\ keyboard_buffer' # NUL => taken' # <<>> /\ taken'[Len(taken')] = keyboard_buffer'
      <4>1. CASE char = NUL
        BY <1>0, <3>2, <3>3, <4>1, HandedFacts DEF Handed, Unread
      <4>2. CASE char # NUL
        BY <1>0, <3>1, <3>2, <3>3, <4>2, AppendFacts DEF Handed, Unread
      <4> QED
        BY <4>1, <4>2
    <3> QED
      BY <2>2, <3>2, <3>4, <3>5 DEF LineInv
  <2> QED
    BY <1>0, <2>3, <2>4
<1>2. ASSUME ShowPrompt PROVE LineInv'
  <2>1. /\ line' = <<>> /\ buf' = NUL /\ shell' = "poll"
        /\ UNCHANGED <<keyboard_buffer, isBufferEmpty>>
        /\ taken' = IF keyboard_buffer = NUL THEN <<>> ELSE <<keyboard_buffer>>
    BY <1>2 DEF ShowPrompt, keyboard
  <2>2. Handed' = <<>>
    BY <2>1 DEF Handed, Unread
  <2> QED
    BY <2>1, <2>2, TypedNothing DEF LineInv
<1>3. ASSUME Poll PROVE LineInv'
  <2>1. /\ shell = "poll" /\ shell' = "echo" /\ UNCHANGED <<line, taken>>
        /\ get_keyboard_buffer
    BY <1>3 DEF Poll
  <2>2. /\ line = Typed(Handed)
        /\ buf = NUL \/ (buf = Backspace /\ line = <<>>)
    BY <2>1 DEF LineInv
  <2>3. CASE isBufferEmpty
    <3>1. UNCHANGED <<keyboard_buffer, isBufferEmpty, buf>>
      BY <2>1, <2>3 DEF get_keyboard_buffer, keyboard
    <3>2. Handed' = Handed
      BY <2>1, <3>1 DEF Handed, Unread
    <3>3. Edited(line, buf) = line
      BY <2>2 DEF Edited, NUL, Backspace
    <3> QED
      BY <2>1, <2>2, <3>1, <3>2, <3>3 DEF LineInv
  <2>4. CASE ~isBufferEmpty
    <3>1. buf' = keyboard_buffer /\ isBufferEmpty' = TRUE /\ keyboard_buffer' = NUL
      BY <2>1, <2>4 DEF get_keyboard_buffer
    <3>2. Handed' = taken
      BY <1>0, <2>1, <3>1, HandedFacts DEF Handed, Unread
    <3>3. Edited(line, keyboard_buffer) = Typed(taken)
      <4>1. CASE keyboard_buffer = NUL
        <5>1. Handed = taken
          BY <1>0, <4>1, HandedFacts DEF Handed, Unread
        <5>2. Edited(line, keyboard_buffer) = line
          BY <4>1 DEF Edited, NUL, Backspace
        <5> QED
          BY <2>2, <5>1, <5>2
      <4>2. CASE keyboard_buffer # NUL
        <5>1. /\ Handed = SubSeq(taken, 1, Len(taken) - 1)
              /\ taken # <<>> /\ taken[Len(taken)] = keyboard_buffer
          BY <4>2 DEF Handed, Unread, LineInv
        <5>2. Handed \in Seq(Chars) /\ taken = Append(Handed, keyboard_buffer)
          BY <1>0, <5>1, HandedFacts
        <5>3. Typed(Append(Handed, keyboard_buffer))
                 = Edited(Typed(Handed), keyboard_buffer)
          BY <1>0, <5>2, TypedAnother
        <5> QED
          BY <2>2, <5>2, <5>3
      <4> QED
        BY <4>1, <4>2
    <3> QED
      BY <2>1, <3>1, <3>2, <3>3 DEF LineInv
  <2> QED
    BY <1>0, <2>3, <2>4
<1>4. ASSUME Echo PROVE LineInv'
  <2>1. /\ shell = "echo" /\ line' = Edited(line, buf)
        /\ shell' = IF buf = Newline THEN "execute" ELSE "poll"
        /\ UNCHANGED <<keyboard_buffer, isBufferEmpty, taken>>
    BY <1>4 DEF Echo, keyboard
  <2>2. line' = Typed(Handed)
    BY <2>1 DEF LineInv
  <2>3. Handed' = Handed
    BY <2>1 DEF Handed, Unread
  <2>4. buf' = NUL \/ (buf' = Backspace /\ line' = <<>>)
    <3>1. CASE buf = Backspace /\ line = <<>>
      <4>1. buf' = Backspace
        BY <1>4, <3>1 DEF Echo
      <4>2. line' = <<>>
        BY <2>1, <3>1 DEF Edited, Backspace, NUL
      <4> QED
        BY <4>1, <4>2
    <3>2. CASE ~(buf = Backspace /\ line = <<>>)
      BY <1>4, <3>2 DEF Echo
    <3> QED
      BY <3>1, <3>2
  <2> QED
    BY <2>1, <2>2, <2>3, <2>4 DEF LineInv
<1>5. ASSUME Execute PROVE LineInv'
  BY <1>5 DEF Execute, LineInv, keyboard
<1>6. ASSUME ClockWrite PROVE LineInv'
  BY <1>6 DEF ClockWrite, LineInv, keyboard, Handed, Unread
<1>7. ASSUME UNCHANGED terminalVars PROVE LineInv'
  BY <1>7 DEF terminalVars, LineInv, keyboard, Handed, Unread
<1> QED
  BY <1>1, <1>2, <1>3, <1>4, <1>5, <1>6, <1>7 DEF TerminalNext, ShellStep

\* The line is what was typed: no key that was taken is lost, applied twice or
\* out of order, whenever the next one comes.
THEOREM LineIsTyped == TerminalSpec => []LineAsTyped
<1>1. TerminalInit => TerminalTyped /\ LineInv
  <2>1. TerminalInit => TerminalTyped
    BY InitTyped
  <2>2. TerminalInit => LineInv
    BY DEF TerminalInit, LineInv
  <2> QED
    BY <2>1, <2>2
<1>2. TerminalTyped /\ LineInv /\ [TerminalNext]_terminalVars
         => TerminalTyped' /\ LineInv'
  BY TerminalTypedStep, LineInvStep
<1>3. LineInv => LineAsTyped
  BY DEF LineInv, LineAsTyped, Handed
<1> QED
  BY <1>1, <1>2, <1>3, PTL DEF TerminalSpec

-----------------------------------------------------------------------------
(* The screen shows the line.                                               *)

\* The cells one after the other, row by row.
Number(x, y) == Width * x + y
Position(t) == Number(t.row, t.col)

\* The first n characters of s stand before the cursor, as far as the screen reaches
\* back.
Shows(t, s, n) ==
    \A x \in Rows, y \in Cols :
        Number(x, y) < Position(t) /\ Position(t) - Number(x, y) <= n =>
            Cell(t, x, y) = s[n + 1 - (Position(t) - Number(x, y))]

\* Cells of different rows or columns have different numbers.
LEMMA NumberFacts ==
    ASSUME NEW x \in Nat, NEW y \in Cols, NEW u \in Nat, NEW v \in Cols
    PROVE  /\ Number(x, y) \in Nat
           /\ x < u => Number(x, y) < Number(u, v)
           /\ Number(x, y) = Number(u, v) => x = u /\ y = v
           /\ Number(x + 1, y) = Number(x, y) + Width
<1>0. PICK w \in Nat \ {0} : w = Width
  BY SizeFacts
<1>1. y \in 0 .. w - 1 /\ v \in 0 .. w - 1
  BY <1>0 DEF Cols
<1>2. w * x \in Nat /\ w * u \in Nat /\ w * (x + 1) = w * x + w
  OBVIOUS
<1>3. ASSUME NEW i \in Nat, NEW j \in Nat, i < j PROVE w * i + w <= w * j
  <2>1. w * (i + 1) <= w * j
    BY <1>3
  <2>2. w * (i + 1) = w * i + w
    OBVIOUS
  <2> QED
    BY <2>1, <2>2
<1>4. x < u => w * x + w <= w * u
  BY <1>3
<1>5. u < x => w * u + w <= w * x
  BY <1>3
<1>6. x < u => w * x + y < w * u + v
  BY <1>1, <1>2, <1>4
<1>7. u < x => w * u + v < w * x + y
  BY <1>1, <1>2, <1>5
<1>8. w * x + y = w * u + v => x = u
  BY <1>1, <1>2, <1>6, <1>7
<1>9. w * x + y = w * u + v => x = u /\ y = v
  BY <1>1, <1>2, <1>8
<1>10. w * x + y \in Nat /\ w * (x + 1) + y = (w * x + y) + w
  BY <1>1, <1>2
<1> QED
  BY <1>0, <1>6, <1>9, <1>10 DEF Number

\* A row on, the rows above the cursor's are those of before, or have moved up by one.
LEMMA NextRowCells ==
    ASSUME NEW t \in Screens, ~clock
    PROVE  \E d \in {0, 1} :
              /\ NextRow(t).row = t.row + 1 - d /\ NextRow(t).col = 0
              /\ \A x \in Rows, y \in Cols : x < NextRow(t).row =>
                    x + d \in Rows /\ Cell(NextRow(t), x, y) = Cell(t, x + d, y)
<1> DEFINE down == [t EXCEPT !.row = @ + 1, !.col = 0]
<1>0. Height \in Nat /\ Height > 1 /\ Rows = 0 .. Height - 1 /\ Bottom = Height - 1
  BY SizeFacts DEF Rows, Bottom
<1>1. t.row \in Rows
  BY DEF Screens
<1>2. /\ down \in [cells : Cells, row : Nat, col : Cols]
      /\ down.row = t.row + 1 /\ down.col = 0 /\ down.cells = t.cells
  <2>1. t = [cells |-> t.cells, row |-> t.row, col |-> t.col] /\ t.cells \in Cells
    BY DEF Screens
  <2>2. down = [t EXCEPT !.row = t.row + 1, !.col = 0]
    OBVIOUS
  <2> HIDE DEF down
  <2>3. down = [cells |-> t.cells, row |-> t.row + 1, col |-> 0]
    BY <2>1, <2>2 DEF Screens
  <2>4. t.row + 1 \in Nat
    BY <1>0, <1>1
  <2> QED
    BY <2>1, <2>3, <2>4, SizeFacts
<1>3. NextRow(t) = IF down.row = Height THEN go_scroll(down) ELSE down
  BY DEF NextRow
<1> HIDE DEF down
<1>4. PICK u : u = NextRow(t)
  OBVIOUS
<1>5. CASE t.row + 1 = Height
  <2>1. u = go_scroll(down)
    BY <1>2, <1>3, <1>4, <1>5
  <2>2. /\ u.row = Bottom /\ u.col = 0
        /\ \A x \in Rows, y \in Cols :
              Cell(u, x, y) = IF x = Bottom \/ (clock /\ x = Bottom - 1 /\ y \in ClockCols)
                              THEN NUL ELSE Cell(down, x + 1, y)
    BY <1>2, <1>5, <2>1, ScrollTyped
  <2>3. ASSUME NEW x \in Rows, NEW y \in Cols, x < u.row
        PROVE  x + 1 \in Rows /\ Cell(u, x, y) = Cell(t, x + 1, y)
    <3>1. x # Bottom /\ x + 1 \in Rows
      BY <1>0, <2>2, <2>3
    <3> QED
      BY <1>2, <2>2, <3>1 DEF Cell
  <2>4. u.row = t.row + 1 - 1
    BY <1>0, <1>1, <1>5, <2>2
  <2> QED
    BY <1>4, <2>2, <2>3, <2>4
<1>6. CASE t.row + 1 # Height
  <2>1. u = down
    BY <1>2, <1>3, <1>4, <1>6
  <2>2. u.row = t.row + 1 - 0 /\ u.col = 0
    BY <1>0, <1>1, <1>2, <2>1
  <2>3. \A x \in Rows : x + 0 = x
    BY <1>0
  <2>4. \A x \in Rows, y \in Cols : Cell(u, x, y) = Cell(t, x, y)
    BY <1>2, <2>1 DEF Cell
  <2> QED
    BY <1>4, <2>2, <2>3, <2>4
<1> QED
  BY <1>5, <1>6

\* A character printed: it stands before the cursor, what stood before it still does.
LEMMA PutCells ==
    ASSUME NEW t \in Screens, ~clock, NEW char \in Shown
    PROVE  \E d \in {0, 1} :
              /\ Position(Put(t, char)) = Position(t) + 1 - d * Width
              /\ \A x \in Rows, y \in Cols : Number(x, y) < Position(Put(t, char)) =>
                    /\ x + d \in Rows
                    /\ Cell(Put(t, char), x, y) =
                          IF x + d = t.row /\ y = t.col THEN char ELSE Cell(t, x + d, y)
<1> DEFINE w == framebuffer_write(t, t.row, t.col, char)
<1>0. Width \in Nat /\ Width > 0 /\ Cols = 0 .. Width - 1
      /\ \A x \in Rows : x \in Nat
  BY SizeFacts DEF Rows, Cols
<1>1. t.row \in Rows /\ t.col \in Cols
  BY DEF Screens
<1>2. /\ w \in Screens /\ w.row = t.row /\ w.col = t.col
      /\ \A x \in Rows, y \in Cols :
            Cell(w, x, y) = IF x = t.row /\ y = t.col THEN char ELSE Cell(t, x, y)
  BY <1>1, WriteTyped
<1>3. Put(t, char) = IF t.col + 1 = Width THEN NextRow(w) ELSE [w EXCEPT !.col = @ + 1]
  BY DEF Put
<1> HIDE DEF w
<1>4. PICK u : u = Put(t, char)
  OBVIOUS
<1>5. CASE t.col + 1 = Width
  <2>1. u = NextRow(w)
    BY <1>3, <1>4, <1>5
  <2>2. PICK d \in {0, 1} :
           /\ u.row = t.row + 1 - d /\ u.col = 0
           /\ \A x \in Rows, y \in Cols : x < u.row =>
                 x + d \in Rows /\ Cell(u, x, y) = Cell(w, x + d, y)
    BY <1>2, <2>1, NextRowCells
  <2>3. Position(u) = Position(t) + 1 - d * Width
    <3>1. u.row = IF d = 0 THEN t.row + 1 ELSE t.row
      BY <1>0, <1>1, <2>2
    <3>2. /\ Width * (t.row + 1) = Width * t.row + Width
          /\ Width * t.row \in Nat /\ 0 * Width = 0 /\ 1 * Width = Width
      BY <1>0, <1>1
    <3>3. Position(u) = Width * u.row /\ Position(t) = Width * t.row + t.col
      <4>1. Width * u.row \in Nat
        BY <1>0, <1>1, <3>1, <3>2
      <4> QED
        BY <2>2, <4>1 DEF Position, Number
    <3>4. PICK k \in Nat : k = Width * t.row
      BY <3>2
    <3>a. PICK h \in Nat : h = Width /\ t.col = h - 1
      BY <1>0, <1>1, <1>5
    <3>5. CASE d = 0
      <4>1. Position(u) = k + h
        BY <3>1, <3>2, <3>3, <3>4, <3>5, <3>a
      <4>2. Position(t) + 1 - 0 * h = k + h
        BY <3>3, <3>4, <3>a
      <4> QED
        BY <3>5, <3>a, <4>1, <4>2
    <3>6. CASE d = 1
      <4>1. Position(u) = k
        BY <3>1, <3>3, <3>4, <3>6
      <4>2. Position(t) + 1 - 1 * h = k
        BY <3>3, <3>4, <3>a
      <4> QED
        BY <3>6, <3>a, <4>1, <4>2
    <3> QED
      BY <3>5, <3>6
  <2>4. ASSUME NEW x \in Rows, NEW y \in Cols, Number(x, y) < Position(u)
        PROVE  x < u.row
    <3>1. u.row \in Nat
      BY <1>0, <1>1, <2>2
    <3>2. u.col \in Cols
      BY <2>2, SizeFacts
    <3>3. ~(u.row < x)
      <4>1. u.row < x => Position(u) < Number(x, y)
        BY <1>0, <3>1, <3>2, NumberFacts DEF Position
      <4>2. Position(u) \in Nat /\ Number(x, y) \in Nat
        BY <1>0, <3>1, <3>2, NumberFacts DEF Position
      <4> QED
        BY <2>4, <4>1, <4>2
    <3>4. x # u.row
      <4>1. x = u.row => Number(x, y) = Position(u) + y
        <5>1. Width * u.row \in Nat
          BY <1>0, <3>1
        <5> QED
          BY <1>0, <2>2, <5>1 DEF Position, Number
      <4>2. Position(u) \in Nat
        BY <3>1, <3>2, NumberFacts DEF Position
      <4>3. y \in Nat
        BY <1>0
      <4> QED
        BY <2>4, <4>1, <4>2, <4>3
    <3> QED
      BY <1>0, <3>1, <3>3, <3>4
  <2> QED
    BY <1>2, <1>4, <2>2, <2>3, <2>4
<1>6. CASE t.col + 1 # Width
  <2>1. t.col + 1 \in Cols
    BY <1>0, <1>1, <1>6
  <2>2. u = [w EXCEPT !.col = t.col + 1]
    BY <1>2, <1>3, <1>4, <1>6
  <2>3. u.row = t.row /\ u.col = t.col + 1 /\ u.cells = w.cells
    BY <1>2, <2>2 DEF Screens
  <2>4. Position(u) = Position(t) + 1 - 0 * Width
    <3>1. Width * t.row \in Nat
      BY <1>0, <1>1
    <3> QED
      BY <1>0, <1>1, <2>3, <3>1 DEF Position, Number
  <2>5. \A x \in Rows : x + 0 = x
    BY <1>0
  <2>6. \A x \in Rows, y \in Cols : Cell(u, x, y) = Cell(w, x, y)
    BY <2>3 DEF Cell
  <2> QED
    BY <1>2, <1>4, <2>4, <2>5, <2>6
<1> QED
  BY <1>5, <1>6

\* One character more stands before the cursor.
LEMMA PutShows ==
    ASSUME NEW t \in Screens, ~clock, NEW char \in Shown \ NotPrinted,
           NEW n \in Nat, NEW s, s[n + 1] = char, Shows(t, s, n)
    PROVE  Shows(puts_char(t, char), s, n + 1)
<1>0. Width \in Nat /\ Width > 0 /\ \A x \in Rows : x \in Nat
  BY SizeFacts DEF Rows
<1>1. PICK u : u = Put(t, char)
  OBVIOUS
<1>2. PICK v : v = puts_char(t, char)
  OBVIOUS
<1>3. v = framebuffer_write(u, u.row, u.col, NUL)
  BY <1>1, <1>2 DEF puts_char, NotPrinted
<1>4. u \in Screens
  BY <1>1, PutTyped DEF NotPrinted
<1>5. u.row \in Rows /\ u.col \in Cols /\ t.row \in Rows /\ t.col \in Cols
  BY <1>4 DEF Screens
<1>6. /\ v.row = u.row /\ v.col = u.col
      /\ \A x \in Rows, y \in Cols :
            Cell(v, x, y) = IF x = u.row /\ y = u.col THEN NUL ELSE Cell(u, x, y)
  <2>1. PICK a \in Rows : a = u.row
    BY <1>5
  <2>2. PICK b \in Cols : b = u.col
    BY <1>5
  <2>3. v = framebuffer_write(u, a, b, NUL)
    BY <1>3, <2>1, <2>2
  <2>4. NUL \in Shown
    BY SizeFacts
  <2>5. /\ framebuffer_write(u, a, b, NUL).row = u.row
        /\ framebuffer_write(u, a, b, NUL).col = u.col
        /\ \A x \in Rows, y \in Cols :
              Cell(framebuffer_write(u, a, b, NUL), x, y) =
                 IF x = a /\ y = b THEN NUL ELSE Cell(u, x, y)
    BY <1>4, <2>4, WriteTyped
  <2> QED
    BY <2>1, <2>2, <2>3, <2>5
<1>7. PICK d \in {0, 1} :
         /\ Position(u) = Position(t) + 1 - d * Width
         /\ \A x \in Rows, y \in Cols : Number(x, y) < Position(u) =>
               /\ x + d \in Rows
               /\ Cell(u, x, y) = IF x + d = t.row /\ y = t.col THEN char ELSE Cell(t, x + d, y)
  BY <1>1, PutCells
<1>8. Position(v) = Position(u)
  BY <1>6 DEF Position
<1>9. Position(t) \in Nat /\ Position(u) \in Nat
  BY <1>0, <1>5, NumberFacts DEF Position
<1>10. SUFFICES ASSUME NEW x \in Rows, NEW y \in Cols,
                       Number(x, y) < Position(u), Position(u) - Number(x, y) <= n + 1
                PROVE  Cell(v, x, y) = s[(n + 1) + 1 - (Position(u) - Number(x, y))]
  BY <1>2, <1>8 DEF Shows
<1>11. Number(x, y) \in Nat
  BY <1>0, NumberFacts
<1>12. Cell(v, x, y) = Cell(u, x, y)
  BY <1>6, <1>9, <1>10, <1>11 DEF Position
<1>13. PICK z \in Rows : z = x + d
  BY <1>7, <1>10
<1>14. Cell(u, x, y) = IF z = t.row /\ y = t.col THEN char ELSE Cell(t, z, y)
  BY <1>7, <1>10, <1>13
<1>15. Number(z, y) = Number(x, y) + d * Width /\ Number(z, y) \in Nat
  <2>1. CASE d = 0
    BY <1>0, <1>11, <1>13, <2>1
  <2>2. CASE d = 1
    BY <1>0, <1>11, <1>13, <2>2, NumberFacts
  <2> QED
    BY <2>1, <2>2
<1>16. PICK m \in Nat : m = Number(z, y)
  BY <1>15
<1>17. PICK p \in Nat : p = Position(t)
  BY <1>9
<1>18. Position(u) - Number(x, y) = p + 1 - m
  <2>1. PICK e \in Nat : e = d * Width
    BY <1>0
  <2> QED
    BY <1>7, <1>9, <1>11, <1>15, <1>16, <1>17, <2>1
<1>19. m < p + 1 /\ p + 1 - m <= n + 1
  BY <1>9, <1>10, <1>11, <1>18
<1>20. CASE z = t.row /\ y = t.col
  <2>1. m = p
    BY <1>16, <1>17, <1>20 DEF Position
  <2>2. (n + 1) + 1 - (p + 1 - m) = n + 1
    BY <2>1
  <2> QED
    BY <1>12, <1>14, <1>18, <1>20, <2>2
<1>21. CASE ~(z = t.row /\ y = t.col)
  <2>1. m # p
    BY <1>0, <1>5, <1>16, <1>17, <1>21, NumberFacts DEF Position
  <2>2. m < p /\ p - m <= n
    BY <1>19, <2>1
  <2>3. Cell(t, z, y) = s[n + 1 - (p - m)]
    BY <1>16, <1>17, <2>2 DEF Shows
  <2>4. (n + 1) + 1 - (p + 1 - m) = n + 1 - (p - m)
    OBVIOUS
  <2> QED
    BY <1>12, <1>14, <1>18, <1>21, <2>3, <2>4
<1> QED
  BY <1>20, <1>21

\* A backspace takes the last character back, across the end of a row too: the row
\* above is full up to its last column.
LEMMA BackShows ==
    ASSUME NEW t \in Screens, NEW n \in Nat, NEW s, s[n + 1] # NUL, Shows(t, s, n + 1)
    PROVE  Shows(puts_char(t, Backspace), s, n)
<1>0. Width \in Nat /\ Width > 0 /\ Cols = 0 .. Width - 1 /\ Rows = 0 .. Height - 1
      /\ Height \in Nat
  BY SizeFacts DEF Rows, Cols
<1>1. /\ t.row \in Rows /\ t.col \in Cols
      /\ t = [cells |-> t.cells, row |-> t.row, col |-> t.col]
  BY DEF Screens
<1>2. Position(t) \in Nat
  BY <1>0, <1>1, NumberFacts DEF Position
<1>3. CASE t.row = 0 /\ t.col = 0
  <2>1. puts_char(t, Backspace) = t
    BY <1>3 DEF puts_char
  <2>2. Position(t) = 0
    BY <1>0, <1>3 DEF Position, Number
  <2>3. \A x \in Rows, y \in Cols : ~(Number(x, y) < Position(t))
    <3>1. \A x \in Rows : x \in Nat
      BY <1>0
    <3>2. \A x \in Rows, y \in Cols : Number(x, y) \in Nat
      BY <3>1, NumberFacts
    <3> QED
      BY <2>2, <3>2
  <2> QED
    BY <2>1, <2>3 DEF Shows
<1>4. CASE ~(t.row = 0 /\ t.col = 0)
  <2>1. PICK u : u = Back(t)
    OBVIOUS
  <2>2. PICK v : v = puts_char(t, Backspace)
    OBVIOUS
  <2>3. v = framebuffer_write(u, u.row, u.col, NUL)
    BY <1>4, <2>1, <2>2 DEF puts_char, Newline, Tab, Backspace, NUL
  <2>4. u \in Screens /\ u.row \in Rows /\ u.col \in Cols
    BY <1>4, <2>1, BackTyped DEF Screens
  <2>5. /\ u.cells = t.cells
        /\ Position(u) = Position(t) - 1
    <3>1. CASE t.col > 0
      <4>1. u = [cells |-> t.cells, row |-> t.row, col |-> t.col - 1]
        BY <1>1, <2>1, <3>1 DEF Back
      <4>2. Width * t.row \in Nat
        BY <1>0, <1>1
      <4> QED
        BY <1>0, <1>1, <4>1, <4>2 DEF Position, Number
    <3>2. CASE ~(t.col > 0)
      <4>1. PICK r \in Rows : r = t.row - 1
        BY <1>0, <1>1, <1>4, <3>2
      <4>2. PICK last \in Cols : last = Width - 1
        BY <1>0
      <4>3. u = [cells |-> t.cells, row |-> r, col |-> LastInRow(t, r)]
        BY <1>1, <2>1, <3>2, <4>1 DEF Back
      <4>4. Number(r, last) = Position(t) - 1
        <5>1. t.col = 0 /\ t.row = r + 1
          BY <1>0, <1>1, <3>2, <4>1
        <5>2. Width * (r + 1) = Width * r + Width /\ Width * r \in Nat
          BY <1>0
        <5>3. Position(t) = Width * r + Width
          BY <1>0, <5>1, <5>2 DEF Position, Number
        <5> QED
          BY <1>0, <4>2, <5>2, <5>3 DEF Number
      <4>5. Cell(t, r, last) = s[n + 1]
        <5>1. Number(r, last) < Position(t) /\ Position(t) - Number(r, last) = 1
          BY <1>2, <4>4
        <5>2. Cell(t, r, last) = s[(n + 1) + 1 - 1]
          BY <5>1 DEF Shows
        <5>3. (n + 1) + 1 - 1 = n + 1
          OBVIOUS
        <5> QED
          BY <5>2, <5>3
      <4>6. LastInRow(t, r) = last
        <5> DEFINE Is(c) == /\ c = 0 \/ Cell(t, r, c) # NUL
                            /\ \A e \in Cols : e > c => Cell(t, r, e) = NUL
        <5>1. Is(last)
          BY <1>0, <4>2, <4>5
        <5>2. \A c \in Cols : Is(c) => ~(last > c)
          BY <4>5
        <5>3. \A c \in Cols : ~(last > c) => c = last
          BY <1>0, <4>2
        <5>4. LastInRow(t, r) = CHOOSE c \in Cols : Is(c)
          BY DEF LastInRow
        <5> HIDE DEF Is
        <5> QED
          BY <5>1, <5>2, <5>3, <5>4
      <4> QED
        BY <4>3, <4>4, <4>6 DEF Position
    <3> QED
      BY <3>1, <3>2
  <2>6. /\ v.row = u.row /\ v.col = u.col
        /\ \A x \in Rows, y \in Cols :
              Cell(v, x, y) = IF x = u.row /\ y = u.col THEN NUL ELSE Cell(u, x, y)
    <3>1. PICK a \in Rows : a = u.row
      BY <2>4
    <3>2. PICK b \in Cols : b = u.col
      BY <2>4
    <3>3. NUL \in Shown
      BY SizeFacts
    <3>4. /\ framebuffer_write(u, a, b, NUL).row = u.row
          /\ framebuffer_write(u, a, b, NUL).col = u.col
          /\ \A x \in Rows, y \in Cols :
                Cell(framebuffer_write(u, a, b, NUL), x, y) =
                   IF x = a /\ y = b THEN NUL ELSE Cell(u, x, y)
      BY <2>4, <3>3, WriteTyped
    <3> QED
      BY <2>3, <3>1, <3>2, <3>4
  <2>7. Position(v) = Position(u)
    BY <2>6 DEF Position
  <2>8. SUFFICES ASSUME NEW x \in Rows, NEW y \in Cols,
                        Number(x, y) < Position(u), Position(u) - Number(x, y) <= n
                 PROVE  Cell(v, x, y) = s[n + 1 - (Position(u) - Number(x, y))]
    BY <2>2, <2>7 DEF Shows
  <2>9. PICK m \in Nat : m = Number(x, y)
    <3>1. x \in Nat
      BY <1>0
    <3>2. Number(x, y) \in Nat
      BY <3>1, NumberFacts, Zenon
    <3> QED
      BY <3>2
  <2>10. PICK p \in Nat : p = Position(t)
    BY <1>2
  <2>11. m < p - 1 /\ (p - 1) - m <= n /\ Position(u) = p - 1
    BY <2>5, <2>8, <2>9, <2>10
  <2>12. Cell(v, x, y) = Cell(t, x, y)
    <3>1. ~(x = u.row /\ y = u.col)
      BY <2>9, <2>11 DEF Position
    <3> QED
      BY <2>5, <2>6, <3>1 DEF Cell
  <2>13. m < p /\ p - m <= n + 1
    BY <2>11
  <2>14. Cell(t, x, y) = s[(n + 1) + 1 - (p - m)]
    BY <2>9, <2>10, <2>13 DEF Shows
  <2>15. (n + 1) + 1 - (p - m) = n + 1 - ((p - 1) - m)
    OBVIOUS
  <2> QED
    BY <2>9, <2>11, <2>12, <2>14, <2>15
<1> QED
  BY <1>3, <1>4

\* What is shown is a matter of the characters alone.
LEMMA ShowsSame ==
    ASSUME NEW t \in Screens, NEW n \in Nat, NEW s, NEW z, Shows(t, s, n),
           \A k \in 1 .. n : z[k] = s[k]
    PROVE  Shows(t, z, n)
<1>1. SUFFICES ASSUME NEW x \in Rows, NEW y \in Cols,
                      Number(x, y) < Position(t), Position(t) - Number(x, y) <= n
               PROVE  Cell(t, x, y) = z[n + 1 - (Position(t) - Number(x, y))]
  BY DEF Shows
<1>2. x \in Nat /\ t.row \in Nat /\ t.col \in Cols
  BY SizeFacts DEF Screens, Rows
<1>3. PICK m \in Nat : m = Number(x, y)
  BY <1>2, NumberFacts
<1>4. PICK p \in Nat : p = Position(t)
  BY <1>2, NumberFacts DEF Position
<1>5. n + 1 - (p - m) \in 1 .. n
  BY <1>1, <1>3, <1>4
<1>6. Cell(t, x, y) = s[n + 1 - (p - m)]
  BY <1>1, <1>3, <1>4 DEF Shows
<1> QED
  BY <1>3, <1>4, <1>5, <1>6

Printed == Keys \cup PromptChars

\* Letters are neither control characters nor digits of the clock.
LEMMA PrintedFacts ==
    /\ Printed \subseteq Shown \ NotPrinted /\ NUL \notin Printed
    /\ \A char \in Chars : char \in Printed \/ char \in {NUL, Newline, Backspace, Tab}
  BY TerminalConstants DEF Printed, Shown, NotPrinted, Chars

\* The prompt is shown when it was printed.
LEMMA PromptShows ==
    ASSUME NEW t \in Screens, ~clock
    PROVE  Shows(puts(t, Prompt), Prompt, Len(Prompt))
<1>1. Prompt \in Seq(PromptChars) /\ Len(Prompt) \in Nat
  BY TerminalConstants
<1>2. PICK n \in Nat : n = Len(Prompt)
  BY <1>1
<1>3. \A u \in Screens, a \in PromptChars : puts_char(u, a) \in Screens
  BY PutsCharTyped DEF Chars
<1>4. PICK g \in [0 .. n -> Screens] :
         /\ g[0] = t
         /\ \A k \in 1 .. n : g[k] = puts_char(g[k - 1], Prompt[k])
         /\ puts(t, Prompt) = g[n]
  <2>1. Prompt \in Seq(PromptChars)
    BY <1>1
  <2>2. PICK g \in [0 .. Len(Prompt) -> Screens] :
           /\ g[0] = t
           /\ \A k \in 1 .. Len(Prompt) : g[k] = puts_char(g[k - 1], Prompt[k])
           /\ puts(t, Prompt) = g[Len(Prompt)]
    BY <1>3, <2>1, PutsRecursion
  <2> QED
    BY <1>2, <2>2
<1> DEFINE T == {k \in 0 .. n : Shows(g[k], Prompt, k)}
<1>5. 0 \in T
  <2>1. 0 \in 0 .. n /\ g[0] \in Screens
    BY <1>2, <1>4
  <2>2. ASSUME NEW u \in Screens PROVE Shows(u, Prompt, 0)
    <3>1. u.row \in Nat /\ u.col \in Cols /\ \A x \in Rows : x \in Nat
      BY SizeFacts DEF Screens, Rows
    <3>2. Position(u) \in Nat
      BY <3>1, NumberFacts DEF Position
    <3>3. \A x \in Rows, y \in Cols : Number(x, y) \in Nat
      BY <3>1, NumberFacts
    <3>4. \A x \in Rows, y \in Cols :
             ~(Number(x, y) < Position(u) /\ Position(u) - Number(x, y) <= 0)
      BY <3>2, <3>3
    <3> QED
      BY <3>4 DEF Shows
  <2> QED
    BY <2>1, <2>2
<1>6. ASSUME NEW k \in 0 .. n - 1, k \in T PROVE k + 1 \in T
  <2>1. k \in Nat /\ k + 1 \in 1 .. n /\ k + 1 \in 0 .. n /\ k \in 0 .. n /\ (k + 1) - 1 = k
    BY <1>2
  <2>2. PICK u \in Screens : u = g[k]
    BY <1>4, <2>1
  <2>3. g[k + 1] = puts_char(u, Prompt[k + 1])
    BY <1>4, <2>1, <2>2
  <2>4. Prompt[k + 1] \in PromptChars
    BY <1>1, <1>2, <2>1
  <2>5. Prompt[k + 1] \in Shown \ NotPrinted
    BY <2>4, PrintedFacts DEF Printed
  <2>6. Shows(u, Prompt, k)
    BY <1>6, <2>2
  <2>7. Shows(g[k + 1], Prompt, k + 1)
    BY <2>1, <2>3, <2>5, <2>6, PutShows
  <2> QED
    BY <2>1, <2>7
<1>7. n \in T
  <2> HIDE DEF T
  <2>1. 0 .. n \subseteq T
    BY <1>2, <1>5, <1>6, IntervalInduction
  <2>2. n \in 0 .. n
    BY <1>2
  <2> QED
    BY <2>1, <2>2
<1> QED
  BY <1>2, <1>4, <1>7

\* The line on the screen, with what is and what is not to come.
NoTab == \A k \in 1 .. Len(taken) : taken[k] # Tab

EchoInv ==
    shell \in {"poll", "echo"} /\ ~clock /\ NoTab =>
        /\ line \in Seq(Printed) /\ buf # Tab
        /\ Shows(terminal, Prompt \o line, Len(Prompt \o line))

\* A sequence with an element more, or without its last one.
LEMMA LineFacts ==
    ASSUME NEW S, NEW l \in Seq(S)
    PROVE  /\ \A c \in S : /\ Append(l, c) \in Seq(S) /\ Len(Append(l, c)) = Len(l) + 1
                          /\ Append(l, c)[Len(l) + 1] = c
                          /\ \A k \in 1 .. Len(l) : Append(l, c)[k] = l[k]
           /\ l # <<>> => /\ SubSeq(l, 1, Len(l) - 1) \in Seq(S)
                          /\ Len(l) = Len(SubSeq(l, 1, Len(l) - 1)) + 1
                          /\ \A k \in 1 .. Len(SubSeq(l, 1, Len(l) - 1)) :
                                SubSeq(l, 1, Len(l) - 1)[k] = l[k]
<1>1. ASSUME NEW c \in S
      PROVE  /\ Append(l, c) \in Seq(S) /\ Len(Append(l, c)) = Len(l) + 1
             /\ Append(l, c)[Len(l) + 1] = c
             /\ \A k \in 1 .. Len(l) : Append(l, c)[k] = l[k]
  OBVIOUS
<1>2. ASSUME l # <<>>
      PROVE  /\ SubSeq(l, 1, Len(l) - 1) \in Seq(S)
             /\ Len(l) = Len(SubSeq(l, 1, Len(l) - 1)) + 1
             /\ \A k \in 1 .. Len(SubSeq(l, 1, Len(l) - 1)) :
                   SubSeq(l, 1, Len(l) - 1)[k] = l[k]
  <2>1. PICK n \in Nat : n = Len(l) - 1 /\ Len(l) = n + 1
    BY <1>2
  <2>2. PICK m : m = SubSeq(l, 1, n)
    OBVIOUS
  <2>3. Len(m) = n
    BY <2>1, <2>2
  <2>4. \A k \in 1 .. n : m[k] = l[k]
    BY <2>1, <2>2
  <2>5. m \in Seq(S)
    BY <2>1, <2>2
  <2> QED
    BY <2>1, <2>2, <2>3, <2>4, <2>5
<1> QED
  BY <1>1, <1>2

\* Prompt and line, when a character is appended or the last one is taken away.
LEMMA PromptAndLine ==
    ASSUME NEW l \in Seq(Printed)
    PROVE  /\ Prompt \o l \in Seq(Printed)
           /\ \A c \in Printed :
                 /\ Len(Prompt \o Append(l, c)) = Len(Prompt \o l) + 1
                 /\ (Prompt \o Append(l, c))[Len(Prompt \o l) + 1] = c
                 /\ \A k \in 1 .. Len(Prompt \o l) :
                       (Prompt \o Append(l, c))[k] = (Prompt \o l)[k]
           /\ l # <<>> =>
                 /\ Len(Prompt \o l) = Len(Prompt \o SubSeq(l, 1, Len(l) - 1)) + 1
                 /\ \A k \in 1 .. Len(Prompt \o SubSeq(l, 1, Len(l) - 1)) :
                       (Prompt \o SubSeq(l, 1, Len(l) - 1))[k] = (Prompt \o l)[k]
<1>1. Prompt \in Seq(Printed)
  <2>1. Prompt \in Seq(PromptChars) /\ PromptChars \subseteq Printed
    BY TerminalConstants DEF Printed
  <2> HIDE DEF PromptChars
  <2> QED
    BY <2>1
<1>2. PICK p \in Seq(Printed) : p = Prompt
  BY <1>1
<1>3. p \o l \in Seq(Printed) /\ Len(p \o l) = Len(p) + Len(l)
      /\ \A k \in 1 .. Len(p) + Len(l) :
            (p \o l)[k] = IF k <= Len(p) THEN p[k] ELSE l[k - Len(p)]
  OBVIOUS
<1>4. ASSUME NEW c \in Printed
      PROVE  /\ Len(p \o Append(l, c)) = Len(p \o l) + 1
             /\ (p \o Append(l, c))[Len(p \o l) + 1] = c
             /\ \A k \in 1 .. Len(p \o l) : (p \o Append(l, c))[k] = (p \o l)[k]
  <2>1. PICK m \in Seq(Printed) : m = Append(l, c)
    BY LineFacts
  <2>2. Len(m) = Len(l) + 1 /\ m[Len(l) + 1] = c /\ \A k \in 1 .. Len(l) : m[k] = l[k]
    BY <2>1, LineFacts
  <2>3. Len(p \o m) = Len(p) + Len(m)
        /\ \A k \in 1 .. Len(p) + Len(m) :
              (p \o m)[k] = IF k <= Len(p) THEN p[k] ELSE m[k - Len(p)]
    OBVIOUS
  <2>4. Len(p) \in Nat /\ Len(l) \in Nat
    OBVIOUS
  <2>5. Len(p \o m) = Len(p \o l) + 1
    BY <1>3, <2>2, <2>3, <2>4
  <2>6. (p \o m)[Len(p \o l) + 1] = c
    <3>1. (Len(p) + Len(l)) + 1 \in 1 .. Len(p) + Len(m)
      BY <2>2, <2>4
    <3>2. (Len(p) + Len(l)) + 1 - Len(p) = Len(l) + 1 /\ ~((Len(p) + Len(l)) + 1 <= Len(p))
      BY <2>4
    <3> QED
      BY <1>3, <2>2, <2>3, <3>1, <3>2
  <2>7. ASSUME NEW k \in 1 .. Len(p \o l) PROVE (p \o m)[k] = (p \o l)[k]
    <3>1. k \in 1 .. Len(p) + Len(l) /\ k \in 1 .. Len(p) + Len(m)
      BY <1>3, <2>2, <2>4
    <3>2. CASE k <= Len(p)
      BY <1>3, <2>3, <3>1, <3>2
    <3>3. CASE ~(k <= Len(p))
      <4>1. k - Len(p) \in 1 .. Len(l)
        BY <2>4, <3>1, <3>3
      <4> QED
        BY <1>3, <2>2, <2>3, <3>1, <3>3, <4>1
    <3> QED
      BY <3>2, <3>3
  <2> QED
    BY <2>1, <2>5, <2>6, <2>7
<1>5. ASSUME l # <<>>
      PROVE  /\ Len(p \o l) = Len(p \o SubSeq(l, 1, Len(l) - 1)) + 1
             /\ \A k \in 1 .. Len(p \o SubSeq(l, 1, Len(l) - 1)) :
                   (p \o SubSeq(l, 1, Len(l) - 1))[k] = (p \o l)[k]
  <2>1. PICK m \in Seq(Printed) : m = SubSeq(l, 1, Len(l) - 1)
    BY <1>5, LineFacts
  <2>2. Len(l) = Len(m) + 1 /\ \A k \in 1 .. Len(m) : m[k] = l[k]
    BY <1>5, <2>1, LineFacts
  <2>3. Len(p \o m) = Len(p) + Len(m)
        /\ \A k \in 1 .. Len(p) + Len(m) :
              (p \o m)[k] = IF k <= Len(p) THEN p[k] ELSE m[k - Len(p)]
    OBVIOUS
  <2>4. Len(p) \in Nat /\ Len(m) \in Nat
    OBVIOUS
  <2>5. Len(p \o l) = Len(p \o m) + 1
    BY <1>3, <2>2, <2>3, <2>4
  <2>6. ASSUME NEW k \in 1 .. Len(p \o m) PROVE (p \o m)[k] = (p \o l)[k]
    <3>1. k \in 1 .. Len(p) + Len(l) /\ k \in 1 .. Len(p) + Len(m)
      BY <2>2, <2>3, <2>4
    <3>2. CASE k <= Len(p)
      BY <1>3, <2>3, <3>1, <3>2
    <3>3. CASE ~(k <= Len(p))
      <4>1. k - Len(p) \in 1 .. Len(m)
        BY <2>4, <3>1, <3>3
      <4> QED
        BY <1>3, <2>2, <2>3, <3>1, <3>3, <4>1
    <3> QED
      BY <3>2, <3>3
  <2> QED
    BY <2>1, <2>5, <2>6
<1> QED
  BY <1>2, <1>3, <1>4, <1>5

\* An echoed character, or a backspace on a line that is not empty, changes screen
\* and line alike.
LEMMA EchoShows ==
    ASSUME NEW t \in Screens, ~clock, NEW l \in Seq(Printed), NEW c \in Chars, c # Tab,
           c # Newline, ~(c = Backspace /\ l = <<>>),
           Shows(t, Prompt \o l, Len(Prompt \o l))
    PROVE  /\ Edited(l, c) \in Seq(Printed)
           /\ Shows(puts_char(t, c), Prompt \o Edited(l, c), Len(Prompt \o Edited(l, c)))
<1> DEFINE s == Prompt \o l
<1>1. s \in Seq(Printed) /\ Len(s) \in Nat
  BY PromptAndLine
<1>2. PICK n \in Nat : n = Len(s)
  BY <1>1
<1>3. puts_char(t, c) \in Screens
  BY PutsCharTyped
<1>4. PICK u \in Screens : u = puts_char(t, c)
  BY <1>3
<1>5. CASE c = NUL
  <2>1. Edited(l, c) = l
    BY <1>5 DEF Edited, NUL, Backspace
  <2>2. puts_char(t, c) = t
    BY <1>5 DEF puts_char
  <2> QED
    BY <2>1, <2>2
<1>6. CASE c = Backspace
  <2>1. PICK m \in Seq(Printed) : m = SubSeq(l, 1, Len(l) - 1)
    BY <1>6, LineFacts
  <2>2. Edited(l, c) = m
    BY <1>6, <2>1 DEF Edited, Backspace, NUL
  <2>3. PICK z : z = Prompt \o m
    OBVIOUS
  <2>4. z \in Seq(Printed) /\ n = Len(z) + 1 /\ \A k \in 1 .. Len(z) : z[k] = s[k]
    BY <1>2, <1>6, <2>1, <2>3, PromptAndLine
  <2>5. PICK i \in Nat : i = Len(z) /\ n = i + 1
    BY <2>4
  <2>6. s[i + 1] # NUL
    <3>1. i + 1 \in 1 .. Len(s)
      BY <1>2, <2>5
    <3>2. s[i + 1] \in Printed
      <4> HIDE DEF s
      <4> QED
        BY <1>1, <3>1
    <3> QED
      BY <3>2, PrintedFacts
  <2>7. Shows(t, s, i + 1)
    BY <1>2, <2>5
  <2> HIDE DEF s
  <2>8. Shows(u, s, i)
    BY <1>4, <1>6, <2>6, <2>7, BackShows
  <2>9. Shows(u, z, i)
    BY <2>4, <2>5, <2>8, ShowsSame
  <2> QED
    BY <1>4, <2>2, <2>3, <2>5, <2>9
<1>7. CASE c \in Printed
  <2>1. c \in Shown \ NotPrinted
    BY <1>7, PrintedFacts
  <2>2. PICK m \in Seq(Printed) : m = Append(l, c)
    BY <1>7, LineFacts
  <2>3. Edited(l, c) = m
    BY <2>1, <2>2 DEF Edited, NotPrinted
  <2>4. PICK z : z = Prompt \o m
    OBVIOUS
  <2>5. Len(z) = n + 1 /\ z[n + 1] = c /\ \A k \in 1 .. n : z[k] = s[k]
    BY <1>2, <1>7, <2>2, <2>4, PromptAndLine
  <2>6. Shows(t, s, n)
    BY <1>2
  <2> HIDE DEF s
  <2>7. Shows(t, z, n)
    BY <2>5, <2>6, ShowsSame
  <2>8. Shows(u, z, n + 1)
    BY <1>4, <2>1, <2>5, <2>7, PutShows
  <2> QED
    BY <1>4, <2>3, <2>4, <2>5, <2>8
<1> QED
  BY <1>5, <1>6, <1>7, PrintedFacts

\* Every step keeps the screen and the line in agreement.
LEMMA EchoInvStep ==
    TerminalTyped /\ LineInv /\ EchoInv /\ [TerminalNext]_terminalVars => EchoInv'
<1> SUFFICES ASSUME TerminalTyped, LineInv, EchoInv, [TerminalNext]_terminalVars
             PROVE  EchoInv'
  OBVIOUS
<1>0. /\ terminal \in Screens /\ taken \in Seq(Chars) /\ keyboard_buffer \in Chars
      /\ isBufferEmpty \in BOOLEAN /\ buf \in Chars
  BY DEF TerminalTyped
<1>1. ASSUME PressKey PROVE EchoInv'
  <2>1. UNCHANGED <<terminal, line, buf, shell, clock>>
    BY <1>1 DEF PressKey
  <2>2. NoTab' => NoTab
    <3>1. PICK char \in Keys \cup EditKeys \cup {NUL} : keyboard_isr(char)
      BY <1>1 DEF PressKey
    <3>2. taken' = taken \/ taken' = Append(taken, char)
      BY <3>1 DEF keyboard_isr
    <3>3. char \in Chars
      BY DEF Chars
    <3>4. \A k \in 1 .. Len(taken) : k \in 1 .. Len(taken') /\ taken'[k] = taken[k]
      BY <1>0, <3>2, <3>3
    <3> QED
      BY <3>4 DEF NoTab
  <2> QED
    BY <2>1, <2>2 DEF EchoInv, Shows, Position, Number
<1>2. ASSUME ShowPrompt PROVE EchoInv'
  <2>1. terminal' = puts(terminal, Prompt) /\ line' = <<>> /\ buf' = NUL /\ UNCHANGED clock
    BY <1>2 DEF ShowPrompt
  <2>2. line' \in Seq(Printed) /\ buf' # Tab
    <3>1. <<>> \in Seq(Printed)
      OBVIOUS
    <3> QED
      BY <2>1, <3>1 DEF NUL, Tab
  <2>3. PICK z : z = Prompt \o <<>>
    OBVIOUS
  <2>4. z = Prompt
    <3>1. \A q \in Seq(PromptChars) : q \o <<>> = q
      OBVIOUS
    <3> QED
      BY <2>3, <3>1, TerminalConstants
  <2>5. ASSUME ~clock PROVE Shows(puts(terminal, Prompt), z, Len(z))
    BY <1>0, <2>4, <2>5, PromptShows
  <2> QED
    BY <2>1, <2>2, <2>3, <2>5 DEF EchoInv, Shows, Position, Number
<1>3. ASSUME Poll PROVE EchoInv'
  <2>1. shell = "poll" /\ UNCHANGED <<terminal, line, clock, taken>> /\ get_keyboard_buffer
    BY <1>3 DEF Poll
  <2>2. ASSUME NoTab, buf # Tab PROVE buf' # Tab
    <3>1. buf' = buf \/ buf' = keyboard_buffer
      BY <2>1 DEF get_keyboard_buffer
    <3>2. keyboard_buffer # Tab
      <4>1. CASE keyboard_buffer = NUL
        BY <4>1 DEF NUL, Tab
      <4>2. CASE keyboard_buffer # NUL
        <5>1. taken # <<>> /\ taken[Len(taken)] = keyboard_buffer
          BY <4>2 DEF LineInv
        <5>2. Len(taken) \in 1 .. Len(taken)
          BY <1>0, <5>1
        <5> QED
          BY <2>2, <5>1, <5>2 DEF NoTab
      <4> QED
        BY <4>1, <4>2
    <3> QED
      BY <2>2, <3>1, <3>2
  <2> QED
    BY <2>1, <2>2 DEF EchoInv, NoTab, Shows, Position, Number
<1>4. ASSUME Echo PROVE EchoInv'
  <2>1. /\ shell = "echo" /\ line' = Edited(line, buf) /\ UNCHANGED <<clock, taken>>
        /\ shell' = IF buf = Newline THEN "execute" ELSE "poll"
    BY <1>4 DEF Echo
  <2>2. SUFFICES ASSUME ~clock, NoTab, buf # Newline
                 PROVE  /\ line' \in Seq(Printed) /\ buf' # Tab
                        /\ Shows(terminal', Prompt \o line', Len(Prompt \o line'))
    BY <2>1 DEF EchoInv, NoTab, Shows, Position, Number
  <2>3. /\ line \in Seq(Printed) /\ buf # Tab
        /\ Shows(terminal, Prompt \o line, Len(Prompt \o line))
    BY <2>1, <2>2 DEF EchoInv
  <2>4. CASE buf = Backspace /\ line = <<>>
    <3>1. terminal' = terminal /\ buf' = buf
      BY <1>4, <2>4 DEF Echo
    <3>2. line' = line
      BY <2>1, <2>4 DEF Edited, Backspace, NUL
    <3> QED
      BY <2>3, <3>1, <3>2
  <2>5. CASE ~(buf = Backspace /\ line = <<>>)
    <3>1. terminal' = puts_char(terminal, buf) /\ buf' = NUL
      BY <1>4, <2>5 DEF Echo
    <3>2. /\ Edited(line, buf) \in Seq(Printed)
          /\ Shows(puts_char(terminal, buf), Prompt \o Edited(line, buf),
                   Len(Prompt \o Edited(line, buf)))
      BY <1>0, <2>2, <2>3, <2>5, EchoShows
    <3> QED
      BY <2>1, <3>1, <3>2 DEF NUL, Tab
  <2> QED
    BY <2>4, <2>5
<1>5. ASSUME Execute PROVE EchoInv'
  BY <1>5 DEF Execute, EchoInv
<1>6. ASSUME ClockWrite PROVE EchoInv'
  BY <1>6 DEF ClockWrite, EchoInv
<1>7. ASSUME UNCHANGED terminalVars PROVE EchoInv'
  BY <1>7 DEF terminalVars, EchoInv, NoTab, Shows, Position, Number
<1> QED
  BY <1>1, <1>2, <1>3, <1>4, <1>5, <1>6, <1>7 DEF TerminalNext, ShellStep

\* The cell k places before the cursor is the one of that number.
LEMMA BeforeShows ==
    ASSUME TerminalTyped, NEW s, NEW n \in Nat, Shows(terminal, s, n), NEW k \in 1 .. n,
           k <= terminal.row * Width + terminal.col
    PROVE  Before(k) = s[n + 1 - k]
<1>0. Width \in Nat /\ Width > 0 /\ Height \in Nat /\ Height > 1
      /\ Rows = 0 .. Height - 1 /\ Cols = 0 .. Width - 1
  BY SizeFacts DEF Rows, Cols
<1>1. PICK r \in Nat : r = terminal.row /\ r < Height
  BY <1>0 DEF TerminalTyped, Screens
<1>2. PICK c \in Nat : c = terminal.col /\ c < Width
  BY <1>0 DEF TerminalTyped, Screens
<1>3. PICK p \in Nat : p = r * Width + c /\ p = Width * r + c /\ Position(terminal) = p
  <2>1. r * Width = Width * r /\ Width * r \in Nat
    BY <1>0
  <2> QED
    BY <1>1, <1>2, <2>1 DEF Position, Number
<1>4. PICK at \in Nat : at = p - k /\ at = terminal.row * Width + terminal.col - k
  <2>1. terminal.row * Width + terminal.col = p
    BY <1>1, <1>2, <1>3
  <2>2. k <= p
    BY <2>1
  <2>a. PICK m \in Nat : m = terminal.row * Width
    BY <1>0, <1>1
  <2>b. m + c = p
    BY <1>2, <2>1, <2>a
  <2>c. k \in Nat
    OBVIOUS
  <2>d. p - k \in Nat
    BY <2>2, <2>c
  <2>e. terminal.row * Width + terminal.col - k = (m + c) - k
    BY <1>2, <2>a, <2>c
  <2>3. p - k \in Nat /\ p - k = terminal.row * Width + terminal.col - k
    BY <2>b, <2>d, <2>e
  <2> QED
    BY <2>3
<1>5. PICK x : x = at \div Width
  OBVIOUS
<1>6. PICK y : y = at % Width
  OBVIOUS
<1>7. x \in Nat /\ y \in Cols /\ at = Width * x + y
  BY <1>0, <1>5, <1>6, DivisionFacts
<1>8. x \in Rows
  <2>1. p < Height * Width
    <3>0. \A w, h \in Nat : r < h => w * (r + 1) <= w * h
      <4>1. ASSUME NEW w \in Nat, NEW h \in Nat, r < h PROVE w * (r + 1) <= w * h
        <5>1. PICK d \in Nat : h = (r + 1) + d
          <6>1. h - (r + 1) \in Nat /\ h = (r + 1) + (h - (r + 1))
            BY <4>1
          <6> QED
            BY <6>1
        <5>2. w * h = w * (r + 1) + w * d /\ w * d \in Nat /\ w * (r + 1) \in Nat
          BY <5>1
        <5> QED
          BY <5>2
      <4> QED
        BY <4>1
    <3>1. Width * (r + 1) <= Width * Height
      BY <1>0, <1>1, <3>0
    <3>2. Width * (r + 1) = Width * r + Width /\ Width * Height = Height * Width
          /\ Width * r \in Nat /\ Height * Width \in Nat
      BY <1>0, <1>1
    <3> QED
      BY <1>0, <1>2, <1>3, <3>1, <3>2
  <2>2. at < Height * Width
    <3>1. Height * Width \in Nat
      BY <1>0
    <3> QED
      BY <1>4, <2>1, <3>1
  <2>3. x < Height
    BY <1>0, <1>5, <2>2, QuotientBelow
  <2> QED
    BY <1>0, <1>7, <2>3
<1>9. Number(x, y) = at
  BY <1>7 DEF Number
<1>10. at < p /\ p - at = k /\ k <= n
  BY <1>4
<1>11. Cell(terminal, x, y) = s[n + 1 - k]
  BY <1>3, <1>7, <1>8, <1>9, <1>10 DEF Shows
<1>12. Before(k) = Cell(terminal, x, y)
  BY <1>4, <1>5, <1>6 DEF Before
<1> QED
  BY <1>11, <1>12

\* What the shell has of a line is what the user sees of it: prompt and line stand
\* before the cursor, in their order, across the ends of rows, after scrolling and after
\* backspaces that go back over the end of a row (puts_char in framebuffer.c, the
\* loop of user-shell.c).
THEOREM LineIsShown == TerminalSpec => []EchoFaithful
<1>1. TerminalInit => TerminalTyped /\ LineInv /\ EchoInv
  <2>1. TerminalInit => TerminalTyped
    BY InitTyped
  <2>2. TerminalInit => LineInv
    BY DEF TerminalInit, LineInv
  <2>3. TerminalInit => EchoInv
    BY DEF TerminalInit, EchoInv
  <2> QED
    BY <2>1, <2>2, <2>3
<1>2. TerminalTyped /\ LineInv /\ EchoInv /\ [TerminalNext]_terminalVars
         => TerminalTyped' /\ LineInv' /\ EchoInv'
  BY TerminalTypedStep, LineInvStep, EchoInvStep
<1>3. TerminalTyped /\ EchoInv => EchoFaithful
  <2> SUFFICES ASSUME TerminalTyped, EchoInv, shell = "poll", ~clock, NoTab
               PROVE  \A k \in 1 .. Len(Prompt \o line) :
                         k <= terminal.row * Width + terminal.col =>
                            Before(k) = (Prompt \o line)[Len(Prompt \o line) + 1 - k]
    BY DEF EchoFaithful, NoTab
  <2>1. line \in Seq(Printed) /\ Shows(terminal, Prompt \o line, Len(Prompt \o line))
    BY DEF EchoInv
  <2>2. PICK n \in Nat : n = Len(Prompt \o line)
    <3>1. Prompt \o line \in Seq(Printed)
      BY <2>1, PromptAndLine
    <3>2. \A q \in Seq(Printed) : Len(q) \in Nat
      OBVIOUS
    <3> QED
      BY <3>1, <3>2
  <2>3. PICK s : s = Prompt \o line
    OBVIOUS
  <2>4. Shows(terminal, s, n) /\ n = Len(s)
    BY <2>1, <2>2, <2>3
  <2> QED
    BY <2>2, <2>3, <2>4, BeforeShows
<1> QED
  BY <1>1, <1>2, <1>3, PTL DEF TerminalSpec
=============================================================================
