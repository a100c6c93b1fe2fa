------------------------------ MODULE Terminal ------------------------------
(***************************************************************************)
(* Keyboard, framebuffer and the line editor of the shell: keyboard.c,     *)
(* framebuffer.c, the loop of user-shell.c and the corner display of       *)
(* clock.c.                                                                *)
(*                                                                         *)
(* A key press is an interrupt that fills a buffer of one character; the   *)
(* shell polls it with system call 4 and echoes it with system call 5.     *)
(* Between any two of these the clock process may have written into the    *)
(* bottom right corner, and more keys may have come.                       *)
(***************************************************************************)
EXTENDS Integers, Sequences

Newline == "newline"
Backspace == "backspace"
Tab == "tab"
NUL == ""
Digit == "digit"                       \* what the clock shows

CONSTANTS
    Height, Width,    \* 25 rows of 80 columns
    TabWidth,         \* 4
    ClockCols,        \* columns 72 .. 79 of the bottom row
    Keys,             \* what keys yield, besides the editing keys
    EditKeys,         \* those of Newline, Backspace, Tab the user presses
    Prompt,           \* what the shell prints before it reads a line
    MaxKeys,          \* bound on the keys pressed
    KeepClock         \* TRUE: the clock, once started, is not killed

PromptChars == {Prompt[k] : k \in DOMAIN Prompt}
\* What a key of Keys or the prompt is not.
NotPrinted == {Newline, Backspace, Tab, NUL, Digit}

ASSUME TerminalConstants ==
    /\ Height \in Nat /\ Height > 1 /\ Width \in Nat \ {0}
    /\ TabWidth \in Nat \ {0} /\ MaxKeys \in Nat
    /\ ClockCols \subseteq 0 .. Width - 1
    /\ EditKeys \subseteq {Newline, Backspace, Tab}
    /\ Prompt \in Seq(PromptChars)
    /\ (Keys \cup PromptChars) \cap NotPrinted = {}
    /\ KeepClock \in BOOLEAN

VARIABLES
    terminal,         \* cells of the screen, row and col of the cursor
    keyboard_buffer,
    isBufferEmpty,
    line, buf,        \* of the shell's main
    shell,            \* where the shell is: "prompt", "poll", "echo", "execute"
    clock,            \* a process named clock is in _process_list
    keysPressed,      \* so far, for MaxKeys
    taken             \* history: keys that were buffered for this line

keyboard == <<keyboard_buffer, isBufferEmpty>>
terminalVars == <<terminal, keyboard, line, buf, shell, clock, keysPressed, taken>>

Rows == 0 .. Height - 1
Cols == 0 .. Width - 1
Bottom == Height - 1

Cell(t, r, c) == t.cells[r][c]
framebuffer_write(t, r, c, char) == [t EXCEPT !.cells[r][c] = char]
framebuffer_clear(t) ==
    [cells |-> [r \in Rows |-> [c \in Cols |-> NUL]], row |-> 0, col |-> 0]

-----------------------------------------------------------------------------
(* puts_char.                                                               *)

\* Mutants: the clock's digits scroll up with the text; the cursor's row is
\* not taken back.
ScrollKeepsDigits(t) ==
    [t EXCEPT !.row = @ - 1,
              !.cells = [r \in Rows |-> IF r = Bottom THEN [c \in Cols |-> NUL] ELSE t.cells[r+1]]]
ScrollKeepsRow(t) ==
    [t EXCEPT !.cells = [r \in Rows |-> [c \in Cols |->
                  IF r = Bottom \/ (clock /\ r = Bottom - 1 /\ c \in ClockCols)
                  THEN NUL ELSE Cell(t, r + 1, c)]]]

\* All rows up by one, the last one blank; what the clock had written into
\* the corner does not scroll with the text.
go_scroll(t) ==
    [t EXCEPT !.row = @ - 1,
              !.cells = [r \in Rows |-> [c \in Cols |->
                  IF r = Bottom \/ (clock /\ r = Bottom - 1 /\ c \in ClockCols)
                  THEN NUL ELSE Cell(t, r + 1, c)]]]

NextRow(t) ==
    LET down == [t EXCEPT !.row = @ + 1, !.col = 0]
    IN  IF down.row = Height THEN go_scroll(down) ELSE down

\* Where a backspace in column 0 lands: on the last character of the row above.
LastInRow(t, r) ==
    CHOOSE c \in Cols :
        /\ c = 0 \/ Cell(t, r, c) # NUL
        /\ \A e \in Cols : e > c => Cell(t, r, e) = NUL

Back(t) ==
    IF t.col > 0 THEN [t EXCEPT !.col = @ - 1]
    ELSE [t EXCEPT !.row = @ - 1, !.col = LastInRow(t, t.row - 1)]

Put(t, char) ==
    LET written == framebuffer_write(t, t.row, t.col, char)
    IN  IF t.col + 1 = Width THEN NextRow(written) ELSE [written EXCEPT !.col = @ + 1]

Tabbed(t) ==
    IF t.col + TabWidth >= Width THEN NextRow(t) ELSE [t EXCEPT !.col = @ + TabWidth]

\* Every branch ends by blanking the cell under the cursor.
puts_char(t, char) ==
    LET moved == CASE char = Newline -> NextRow(t)
                   [] char = Tab -> Tabbed(t)
                   [] char = Backspace -> Back(t)
                   [] OTHER -> Put(t, char)
    IN  IF char = NUL \/ (char = Backspace /\ t.row = 0 /\ t.col = 0) THEN t
        ELSE framebuffer_write(moved, moved.row, moved.col, NUL)

puts(t, chars) ==
    LET after[k \in 0 .. Len(chars)] ==
            IF k = 0 THEN t ELSE puts_char(after[k-1], chars[k])
    IN  after[Len(chars)]

-----------------------------------------------------------------------------
(* The keyboard.  Releases and keys without a character yield NUL, which    *)
(* takes the buffer like any other.                                         *)

\* Mutant: a key replaces one that was not read yet.
IsrOverwrites(char) ==
    /\ keyboard_buffer' = char
    /\ isBufferEmpty' = FALSE
    /\ taken' = IF char = NUL THEN taken ELSE Append(taken, char)

keyboard_isr(char) ==
    IF isBufferEmpty
    THEN /\ keyboard_buffer' = char
         /\ isBufferEmpty' = FALSE
         /\ taken' = IF char = NUL THEN taken ELSE Append(taken, char)
    ELSE UNCHANGED <<keyboard, taken>>

PressKey ==
    /\ keysPressed < MaxKeys
    /\ keysPressed' = keysPressed + 1
    /\ \E char \in Keys \cup EditKeys \cup {NUL} : keyboard_isr(char)
    /\ UNCHANGED <<terminal, line, buf, shell, clock>>

\* Mutant: the character is handed out but stays in the buffer.
BufferKept ==
    IF isBufferEmpty THEN UNCHANGED <<keyboard, buf>>
    ELSE buf' = keyboard_buffer /\ UNCHANGED keyboard

get_keyboard_buffer ==
    IF isBufferEmpty THEN UNCHANGED <<keyboard, buf>>
    ELSE /\ buf' = keyboard_buffer
         /\ isBufferEmpty' = TRUE
         /\ keyboard_buffer' = NUL

-----------------------------------------------------------------------------
(* The shell.                                                               *)

ShowPrompt ==
    /\ shell = "prompt"
    /\ terminal' = puts(terminal, Prompt)
    /\ line' = <<>>
    /\ buf' = NUL
    /\ taken' = IF keyboard_buffer = NUL THEN <<>> ELSE <<keyboard_buffer>>
    /\ shell' = "poll"
    /\ UNCHANGED <<keyboard, clock, keysPressed>>

Poll ==
    /\ shell = "poll"
    /\ get_keyboard_buffer
    /\ shell' = "echo"
    /\ UNCHANGED <<terminal, line, clock, keysPressed, taken>>

\* line after a character was read.
Edited(l, char) ==
    CASE char = NUL -> l
      [] char = Backspace -> IF l = <<>> THEN l ELSE SubSeq(l, 1, Len(l) - 1)
      [] OTHER -> Append(l, char)

\* Mutant: a backspace is echoed even if the line is empty.
EchoAlways ==
    /\ shell = "echo"
    /\ line' = Edited(line, buf)
    /\ terminal' = puts_char(terminal, buf)
    /\ buf' = NUL
    /\ shell' = IF buf = Newline THEN "execute" ELSE "poll"
    /\ UNCHANGED <<keyboard, clock, keysPressed, taken>>

\* The rest of the loop's body.  On an empty line a backspace goes back to
\* polling, and stays in buf until a key replaces it.
Echo ==
    /\ shell = "echo"
    /\ line' = Edited(line, buf)
    /\ IF buf = Backspace /\ line = <<>> THEN UNCHANGED <<terminal, buf>>
       ELSE /\ terminal' = puts_char(terminal, buf)
            /\ buf' = NUL
    /\ shell' = IF buf = Newline THEN "execute" ELSE "poll"
    /\ UNCHANGED <<keyboard, clock, keysPressed, taken>>

\* A command clears the screen or ends its output with a newline; it may start
\* the clock, or kill it.
Execute ==
    /\ shell = "execute"
    /\ \/ terminal' = framebuffer_clear(terminal) /\ UNCHANGED clock
       \/ /\ terminal' = puts_char(terminal, Newline)
          /\ clock' \in BOOLEAN
          /\ KeepClock => (clock => clock')
    /\ shell' = "prompt"
    /\ UNCHANGED <<keyboard, line, buf, keysPressed, taken>>

\* One system call 14 of the clock process.
ClockWrite ==
    /\ clock
    /\ \E c \in ClockCols : terminal' = framebuffer_write(terminal, Bottom, c, Digit)
    /\ UNCHANGED <<keyboard, line, buf, shell, clock, keysPressed, taken>>

TerminalInit ==
    /\ terminal = [cells |-> [r \in Rows |-> [c \in Cols |-> NUL]], row |-> 0, col |-> 0]
    /\ keyboard_buffer = NUL
    /\ isBufferEmpty = TRUE
    /\ line = <<>>
    /\ buf = NUL
    /\ shell = "prompt"
    /\ clock = FALSE
    /\ keysPressed = 0
    /\ taken = <<>>

ShellStep == ShowPrompt \/ Poll \/ Echo \/ Execute

TerminalNext == PressKey \/ ShellStep \/ ClockWrite

\* The scheduler brings the shell back to the CPU again and again.
TerminalSpec == /\ TerminalInit /\ [][TerminalNext]_terminalVars
                /\ WF_terminalVars(ShellStep)

-----------------------------------------------------------------------------
(* Properties.                                                              *)

\* The cursor is always on the screen, so that no cell is written outside it,
\* whatever is typed and however often the screen has scrolled.
TerminalTypeOK ==
    /\ shell \in {"prompt", "poll", "echo", "execute"}
    /\ terminal.cells \in [Rows -> [Cols -> Keys \cup {NUL, Digit} \cup PromptChars]]
    /\ terminal.row \in Rows
    /\ terminal.col \in Cols

\* What a sequence of keys makes of an empty line.
Typed(keys) ==
    LET typed[k \in 0 .. Len(keys)] ==
            IF k = 0 THEN <<>> ELSE Edited(typed[k-1], keys[k])
    IN  typed[Len(keys)]

Unread == IF keyboard_buffer = NUL THEN 0 ELSE 1

\* The line is the result of the keys that were buffered since the prompt,
\* each applied once and in order, those excepted that were not yet read.
LineAsTyped ==
    shell = "poll" =>
        line = Typed(SubSeq(taken, 1, Len(taken) - Unread))

\* The cell k places before the cursor.
Before(k) == LET at == terminal.row * Width + terminal.col - k
             IN  Cell(terminal, at \div Width, at % Width)

\* The screen shows prompt and line, ending at the cursor, across the ends of
\* rows and after scrolling and backspaces: as long as the clock, which writes
\* over both, does not run, and no tab was typed, of which a backspace undoes
\* one column.
EchoFaithful ==
    shell = "poll" /\ ~clock /\ (\A k \in 1 .. Len(taken) : taken[k] # Tab) =>
        LET shown == Prompt \o line
            onScreen == terminal.row * Width + terminal.col
        IN  \A k \in 1 .. Len(shown) :
                k <= onScreen => Before(k) = shown[Len(shown) + 1 - k]

\* The digits of the clock are seen in its corner only, unless it was killed.
ClockInCorner ==
    \A r \in Rows, c \in Cols :
        Cell(terminal, r, c) = Digit => r = Bottom /\ c \in ClockCols

\* A key that was buffered is read, so the next one can be.
KeysAreRead == ~isBufferEmpty ~> isBufferEmpty
=============================================================================
