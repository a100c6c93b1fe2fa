------------------------------- MODULE Clock --------------------------------
(***************************************************************************)
(* The clock program: it asks for the time, writes it digit by digit into  *)
(* the corner of the screen and begins again, while the chip counts on.     *)
(* Reading is Rtc's, and runs in the kernel; every write is a system call   *)
(* of its own.  The columns are those of the bottom row.                    *)
(***************************************************************************)
EXTENDS Rtc

VARIABLES
    face,      \* what the columns of the clock show
    written    \* writes done since the time was read

clockVars == <<rtcVars, face, written>>

Columns == 72 .. 79
\* What a cell shows besides a digit.
Blank == -1
Colon == -2

\* Column of a field's first digit.
Column(f) == CASE f = "second" -> 78 [] f = "minute" -> 75 [] f = "hour" -> 72

\* What is written, seven hours ahead of the chip.
Local(t) == [t EXCEPT !.hour = (@ + 7) % 24]

int_to_string(n) == IF n < 10 THEN <<n>> ELSE <<n \div 10, n % 10>>

\* Mutant: the zero is put behind the digit.
ZeroBehind(n) ==
    LET p == int_to_string(n) IN IF Len(p) = 1 THEN <<p[1], 0>> ELSE p

\* A number of one digit gets a zero in front.
TwoDigits(n) ==
    LET p == int_to_string(n) IN IF Len(p) = 1 THEN <<0, p[1]>> ELSE p

\* The two writes of a field.  A zero goes to the columns of the seconds, whatever
\* field it is.
FieldWrites(f, n) ==
    IF n = 0 THEN << <<79, 0>>, <<78, 0>> >>
    ELSE << <<Column(f), TwoDigits(n)[1]>>, <<Column(f) + 1, TwoDigits(n)[2]>> >>

Writes(t) ==
    FieldWrites("second", t.second) \o FieldWrites("minute", t.minute)
        \o FieldWrites("hour", t.hour) \o << <<77, Colon>>, <<74, Colon>> >>

Put ==
    /\ pc = "done" /\ written < Len(Writes(Local(time)))
    /\ LET w == Writes(Local(time))[written + 1]
       IN  face' = [face EXCEPT ![w[1]] = w[2]]
    /\ written' = written + 1
    /\ UNCHANGED rtcVars

\* The next call of read_rtc, which does not know the one before.
Again ==
    /\ pc = "done" /\ written = Len(Writes(Local(time)))
    /\ pc' = "wait" /\ pass' = "first"
    /\ last' = Zero
    /\ shown' = IF UpdateInProgress THEN {} ELSE {now}
    /\ updates' = IF UpdateInProgress THEN 1 ELSE 0
    /\ written' = 0
    /\ UNCHANGED <<chip, binary, hours24, now, stale, total, next, time, face>>

ClockInit == RtcInit /\ face = [c \in Columns |-> Blank] /\ written = 0

ClockNext == \/ RtcNext /\ UNCHANGED <<face, written>>
             \/ Put \/ Again

\* The scheduler comes back to the program, and nothing it does waits but for the
\* chip, which finishes an update it has begun.
ClockSpec == /\ ClockInit /\ [][ClockNext]_clockVars
             /\ WF_clockVars(Call /\ UNCHANGED <<face, written>>)
             /\ WF_clockVars(Put) /\ WF_clockVars(Again)
             /\ WF_clockVars(ChangeRegister /\ UNCHANGED <<face, written>>)

-----------------------------------------------------------------------------
(* Properties.                                                              *)

\* The fields of a time that the clock gets right: those that are not zero, and the
\* seconds unless another field is.
Telling(t) ==
    {f \in {"minute", "hour"} : t[f] # 0}
        \cup {f \in {"second"} : t.minute # 0 /\ t.hour # 0}

Shows(t, fields) ==
    \A f \in fields : /\ face[Column(f)] = t[f] \div 10
                      /\ face[Column(f) + 1] = t[f] % 10

Told == pc = "done" /\ written = Len(Writes(Local(time)))

\* After a round of writes the corner reads as the time that was read, in the fields
\* that are told right, with colons between.
FaceShowsTime ==
    Told => /\ Shows(Local(time), Telling(Local(time)))
            /\ face[74] = Colon /\ face[77] = Colon

\* The same for every field; it does not hold at a full hour or at midnight.
FaceShowsEveryField == Told => Shows(Local(time), Fields)

\* The corner keeps up with the chip: when that counts no further, its minutes and
\* seconds come to be shown and stay.  (The hour is off by twelve at noon and
\* midnight in 12-hour mode.)
FaceCatchesUp ==
    <>[](LET t == Plain(now) IN
         Shows(t, {f \in {"minute", "second"} : t.minute # 0 /\ f \in Telling(Local(time))}))
=============================================================================
