-------------------------------- MODULE Rtc ---------------------------------
(***************************************************************************)
(* Reading the real-time clock: read_rtc of cmos.c against a chip that     *)
(* goes on counting.                                                        *)
(*                                                                         *)
(* The chip raises the update flag, changes its registers one at a time    *)
(* and lowers the flag again; a register can be read in between.  Interrupts*)
(* do not stop it.  Only second, minute and hour are modelled: the date is *)
(* read and compared in the same way, and the century register is not used.*)
(***************************************************************************)
EXTENDS Integers, Sequences

CONSTANTS
    Starts,          \* times of day, in seconds, at which the first call may begin
    MaxUpdates,      \* bound on updates of the chip, for TLC
    UpdatesPerCall,  \* bound on those that come during one call
    Binaries,        \* register B bit 2: {TRUE} binary, {FALSE} BCD, or both
    Hours24          \* register B bit 1: {TRUE} 24-hour mode, or both

\* Times of day.
Day == {t \in Nat : t < 86400}

ASSUME RtcConstants ==
    /\ Starts \subseteq Day
    /\ MaxUpdates \in Nat /\ UpdatesPerCall \in Nat \ {0}
    /\ Binaries \subseteq BOOLEAN /\ Hours24 \subseteq BOOLEAN

Registers == <<"second", "minute", "hour">>     \* in the order they are read
Fields == {"second", "minute", "hour"}

VARIABLES
    chip,       \* its registers
    binary, hours24,
    now,        \* the time of day the chip counts
    stale,      \* registers an update in progress has still to change
    updates,    \* since the call began, the one it began in included
    total,      \* updates so far, for MaxUpdates
    pc,         \* "wait", "read", "compare", "convert", "done"
    next,       \* index of the register to read next
    pass,       \* "first" or "again"
    last, time, \* last_second ... and second ..., the globals of cmos.c
    shown       \* history: the times of day since the call began

chipVars == <<chip, binary, hours24, now, stale, updates, total, shown>>
callVars == <<pc, next, pass, last, time>>
rtcVars == <<chipVars, callVars>>

Bcd(n) == (n \div 10) * 16 + (n % 10)
PM == 128                                \* bit 7 of the hour register

\* What the chip holds in a register at time of day t.
HourShown(t) ==
    LET h == t \div 3600
        half == IF h % 12 = 0 THEN 12 ELSE h % 12
        coded(n) == IF binary THEN n ELSE Bcd(n)
    IN  IF hours24 THEN coded(h)
        ELSE coded(half) + (IF h >= 12 THEN PM ELSE 0)

Encoded(t) ==
    [f \in Fields |->
        CASE f = "hour" -> HourShown(t)
          [] f = "minute" -> LET m == (t \div 60) % 60 IN IF binary THEN m ELSE Bcd(m)
          [] f = "second" -> LET s == t % 60 IN IF binary THEN s ELSE Bcd(s)]

Zero == [f \in Fields |-> 0]

-----------------------------------------------------------------------------
(* The chip.                                                                *)

\* The flag goes up; the registers to change are those that differ.
BeginUpdate ==
    /\ stale = {}
    /\ total < MaxUpdates
    /\ pc # "done" => updates < UpdatesPerCall
    /\ now' = (now + 1) % 86400
    /\ stale' = {f \in Fields : Encoded(now')[f] # chip[f]}
    /\ updates' = updates + 1 /\ total' = total + 1
    /\ UNCHANGED <<chip, binary, hours24, shown, callVars>>

ChangeRegister ==
    /\ \E f \in stale :
          /\ chip' = [chip EXCEPT ![f] = Encoded(now)[f]]
          /\ stale' = stale \ {f}
    /\ shown' = IF stale' = {} THEN shown \cup {now} ELSE shown
    /\ UNCHANGED <<binary, hours24, now, updates, total, callVars>>

UpdateInProgress == stale # {}

-----------------------------------------------------------------------------
(* read_rtc.                                                                *)

\* Mutant: the loop does not wait for the flag again.
WaitOnce ==
    /\ pc = "wait"
    /\ pass = "first" => ~UpdateInProgress
    /\ pc' = "read"
    /\ next' = 1
    /\ UNCHANGED <<chipVars, pass, last, time>>

Wait ==
    /\ pc = "wait"
    /\ ~UpdateInProgress
    /\ pc' = "read"
    /\ next' = 1
    /\ UNCHANGED <<chipVars, pass, last, time>>

ReadRegister ==
    /\ pc = "read"
    /\ time' = [time EXCEPT ![Registers[next]] = chip[Registers[next]]]
    /\ next' = next + 1
    /\ pc' = IF next = Len(Registers) THEN "compare" ELSE "read"
    /\ UNCHANGED <<chipVars, pass, last>>

\* Mutant: the loop compares with the first pass for ever.
CompareWithFirst ==
    /\ pc = "compare"
    /\ IF pass = "again" /\ last = time
       THEN pc' = "convert" /\ UNCHANGED last
       ELSE pc' = "wait" /\ last' = IF pass = "first" THEN time ELSE last
    /\ pass' = "again"
    /\ UNCHANGED <<chipVars, next, time>>

\* Until two passes agree.
Compare ==
    /\ pc = "compare"
    /\ IF pass = "again" /\ last = time
       THEN pc' = "convert" /\ UNCHANGED last
       ELSE pc' = "wait" /\ last' = time
    /\ pass' = "again"
    /\ UNCHANGED <<chipVars, next, time>>

FromBcd(n) == (n % 16) + (n \div 16) * 10

\* BCD to binary, keeping bit 7 of the hour, then 12 to 24 hours.
Converted(t) ==
    LET decimal == IF binary THEN t
                   ELSE [f \in Fields |->
                            IF f = "hour" THEN FromBcd(t[f] % PM) + (t[f] \div PM) * PM
                            ELSE FromBcd(t[f])]
    IN  IF ~hours24 /\ decimal.hour >= PM
        THEN [decimal EXCEPT !.hour = (@ - PM + 12) % 24]
        ELSE decimal

Convert ==
    /\ pc = "convert"
    /\ time' = Converted(time)
    /\ pc' = "done"
    /\ UNCHANGED <<chipVars, next, pass, last>>

RtcInit ==
    /\ binary \in Binaries /\ hours24 \in Hours24
    /\ now \in Starts
    /\ chip = Encoded(now)
    /\ stale = {}
    /\ updates = 0 /\ total = 0
    /\ shown = {now}
    /\ pc = "wait" /\ next = 1 /\ pass = "first"
    /\ last = Zero /\ time = Zero

Call == Wait \/ ReadRegister \/ Compare \/ Convert

RtcNext == BeginUpdate \/ ChangeRegister \/ Call

\* The CPU runs on, and the chip finishes an update it has begun.
RtcSpec == /\ RtcInit /\ [][RtcNext]_rtcVars
           /\ WF_rtcVars(Call) /\ WF_rtcVars(ChangeRegister)

-----------------------------------------------------------------------------
(* Properties.                                                              *)

Plain(t) == [second |-> t % 60, minute |-> (t \div 60) % 60, hour |-> t \div 3600]

\* The time read_rtc leaves is one that the chip showed as a whole during the
\* call: no seconds of one minute with the minute of another, although updates
\* may begin between any two reads.  (In 12-hour mode, up to the twelve hours
\* that noon and midnight are off by.)
ReadIsInstant ==
    pc = "done" =>
        \E t \in shown :
            /\ time.second = Plain(t).second /\ time.minute = Plain(t).minute
            /\ IF hours24 THEN time.hour = Plain(t).hour
               ELSE time.hour % 12 = Plain(t).hour % 12

\* cmos.c converts a 12 hour clock to a 24 hour clock if necessary.
HourIn24Hours ==
    pc = "done" => \E t \in shown : time.hour = Plain(t).hour
=============================================================================
