----------------------------- MODULE ClockProofs -----------------------------
(***************************************************************************)
(* read_rtc leaves a time of day that the chip showed as a whole, in either*)
(* coding, from whatever time the call begins at and however many updates  *)
(* come between its reads, as long as they are fewer than sixty.  (Sixty   *)
(* may bring the same second back in another minute, and two passes that   *)
(* are torn alike then agree; the kernel reads with interrupts off, far    *)
(* below a minute.)  The clock program puts it into the corner of the      *)
(* screen, in the fields it gets right.                                     *)
(*                                                                         *)
(* The argument for a call: the chip was at rest when the last pass began.  *)
(* Each field was read once before that moment and once after it, and both *)
(* times it had the same value.  The seconds do not come back within a      *)
(* minute, so they are those of that moment; the other fields do not leave *)
(* a value and come back to it, so they are those of that moment as well.  *)
(*                                                                         *)
(* The argument for the corner: each register, read at any time, shows a   *)
(* field of some time of day, so the numbers written have two digits; and  *)
(* what a column shows is the last of the writes to it, of which the eight  *)
(* of a round are known.                                                   *)
(***************************************************************************)
EXTENDS Clock, SequenceTheorems, TLAPS

-----------------------------------------------------------------------------
(* One call of the driver.                                                  *)

\* The time of day after k updates from time of day s.
TimeAt(s, k) == (s + k) % 86400

Coded(n) == IF binary THEN n ELSE Bcd(n)
Half(h) == IF h % 12 = 0 THEN 12 ELSE h % 12

\* Decoding a two-digit number gives it back.
LEMMA BcdDecodes ==
    ASSUME NEW n \in Nat, n < 100
    PROVE  /\ Bcd(n) \in Nat /\ Bcd(n) < 154
           /\ FromBcd(Bcd(n)) = n
  BY DEF Bcd, FromBcd

\* The fields of a time of day.
LEMMA PlainFields ==
    ASSUME NEW t \in Day
    PROVE  /\ Plain(t).second = t % 60 /\ t % 60 \in 0 .. 59
           /\ Plain(t).minute = (t \div 60) % 60 /\ (t \div 60) % 60 \in 0 .. 59
           /\ Plain(t).hour = t \div 3600 /\ t \div 3600 \in 0 .. 23
<1>1. /\ Plain(t).second = t % 60
      /\ Plain(t).minute = (t \div 60) % 60
      /\ Plain(t).hour = t \div 3600
  BY DEF Plain
<1>2. /\ t % 60 \in 0 .. 59 /\ (t \div 60) % 60 \in 0 .. 59
      /\ t \div 3600 \in 0 .. 23
  BY DEF Day
<1> QED
  BY <1>1, <1>2

\* What the registers hold.
LEMMA EncodedFields ==
    ASSUME NEW t \in Day
    PROVE  /\ Encoded(t).second = Coded(Plain(t).second)
           /\ Encoded(t).minute = Coded(Plain(t).minute)
           /\ Encoded(t).hour =
                 IF hours24 THEN Coded(Plain(t).hour)
                 ELSE Coded(Half(Plain(t).hour)) + (IF Plain(t).hour >= 12 THEN PM ELSE 0)
  BY PlainFields DEF Encoded, HourShown, Fields, Coded, Half

\* The three registers hold numbers.
LEMMA EncodedTyped ==
    ASSUME NEW t \in Day
    PROVE  Encoded(t) \in [Fields -> Int]
<1>1. /\ Encoded(t).second \in Int /\ Encoded(t).minute \in Int
      /\ Encoded(t).hour \in Int
  <2>1. ASSUME NEW n \in Int PROVE Coded(n) \in Int
    BY DEF Coded, Bcd
  <2>2. Half(Plain(t).hour) \in Int /\ PM \in Int
    BY PlainFields DEF Half, PM
  <2> QED
    BY <2>1, <2>2, EncodedFields, PlainFields
<1>2. \A f \in Fields : Encoded(t)[f] \in Int
  BY <1>1 DEF Fields
<1>3. \E e : Encoded(t) = [f \in Fields |-> e[f]]
  <2> DEFINE e(f) == CASE f = "hour" -> HourShown(t)
                       [] f = "minute" -> LET m == (t \div 60) % 60
                                          IN IF binary THEN m ELSE Bcd(m)
                       [] f = "second" -> LET n == t % 60 IN IF binary THEN n ELSE Bcd(n)
  <2>1. Encoded(t) = [f \in Fields |-> e(f)]
    BY DEF Encoded
  <2> HIDE DEF e
  <2>2. Encoded(t) = [f \in Fields |-> Encoded(t)[f]]
    BY <2>1
  <2> QED
    BY <2>2
<1> QED
  BY <1>2, <1>3

\* No coding gives two numbers of two digits one code.
LEMMA CodedOnce ==
    ASSUME NEW n \in Nat, NEW m \in Nat, n < 100, m < 100, Coded(n) = Coded(m)
    PROVE  n = m
  BY BcdDecodes DEF Coded

\* A register shows the same at two times only if the field is the same.
LEMMA ShownOnce ==
    ASSUME NEW t \in Day, NEW u \in Day, NEW f \in Fields
    PROVE  Encoded(t)[f] = Encoded(u)[f] <=> Plain(t)[f] = Plain(u)[f]
<1>1. CASE f = "second"
  BY <1>1, EncodedFields, PlainFields, CodedOnce
<1>2. CASE f = "minute"
  BY <1>2, EncodedFields, PlainFields, CodedOnce
<1>3. CASE f = "hour"
  <2> DEFINE h == Plain(t).hour
             g == Plain(u).hour
  <2>1. h \in 0 .. 23 /\ g \in 0 .. 23
    BY PlainFields
  <2>2. /\ Encoded(t).hour = IF hours24 THEN Coded(h)
                             ELSE Coded(Half(h)) + (IF h >= 12 THEN PM ELSE 0)
        /\ Encoded(u).hour = IF hours24 THEN Coded(g)
                             ELSE Coded(Half(g)) + (IF g >= 12 THEN PM ELSE 0)
    BY EncodedFields
  <2> HIDE DEF h, g
  <2>3. CASE hours24
    BY <2>1, <2>2, <2>3, <1>3, CodedOnce DEF h, g
  <2>4. CASE ~hours24
    <3>1. /\ Half(h) \in 1 .. 12 /\ Half(g) \in 1 .. 12
          /\ Half(h) = Half(g) /\ (h >= 12 <=> g >= 12) => h = g
      BY <2>1 DEF Half
    <3>2. /\ Coded(Half(h)) \in Nat /\ Coded(Half(h)) < 128
          /\ Coded(Half(g)) \in Nat /\ Coded(Half(g)) < 128
      <4>1. ASSUME NEW n \in 1 .. 12
            PROVE  Coded(n) \in Nat /\ Coded(n) < 128
        BY DEF Coded, Bcd
      <4> QED
        BY <3>1, <4>1
    <3>3. Encoded(t).hour = Encoded(u).hour
             => Coded(Half(h)) = Coded(Half(g)) /\ (h >= 12 <=> g >= 12)
      <4> DEFINE a == Coded(Half(h))
                 b == Coded(Half(g))
      <4>1. a \in Nat /\ a < 128 /\ b \in Nat /\ b < 128
        BY <3>2
      <4>2. /\ Encoded(t).hour = a + (IF h >= 12 THEN 128 ELSE 0)
            /\ Encoded(u).hour = b + (IF g >= 12 THEN 128 ELSE 0)
        BY <2>2, <2>4 DEF PM
      <4> HIDE DEF a, b
      <4>3. Encoded(t).hour = Encoded(u).hour => a = b /\ (h >= 12 <=> g >= 12)
        BY <2>1, <4>1, <4>2
      <4> QED
        BY <4>3 DEF a, b
    <3>4. Encoded(t).hour = Encoded(u).hour => h = g
      BY <3>1, <3>3, CodedOnce
    <3> QED
      BY <1>3, <2>2, <3>4 DEF h, g
  <2> QED
    BY <2>3, <2>4
<1> QED
  BY <1>1, <1>2, <1>3 DEF Fields

\* Convert decodes what the registers show (up to noon and midnight).
LEMMA ConvertedBack ==
    ASSUME NEW t \in Day, NEW x, x = Encoded(t)
    PROVE  /\ Converted(x).second = Plain(t).second
           /\ Converted(x).minute = Plain(t).minute
           /\ IF hours24 THEN Converted(x).hour = Plain(t).hour
              ELSE Converted(x).hour % 12 = Plain(t).hour % 12
           /\ Converted(x).hour \in 0 .. 23
<1> DEFINE h == Plain(t).hour
           decimal == IF binary THEN x
                      ELSE [f \in Fields |->
                               IF f = "hour"
                               THEN FromBcd(x[f] % PM) + (x[f] \div PM) * PM
                               ELSE FromBcd(x[f])]
<1>1. /\ h \in 0 .. 23 /\ Half(h) \in 1 .. 12
      /\ Plain(t).second \in 0 .. 59 /\ Plain(t).minute \in 0 .. 59
  BY PlainFields DEF Half
<1>2. /\ x.second = Coded(Plain(t).second)
      /\ x.minute = Coded(Plain(t).minute)
      /\ x.hour = IF hours24 THEN Coded(h)
                  ELSE Coded(Half(h)) + (IF h >= 12 THEN PM ELSE 0)
  BY EncodedFields
<1>3. Converted(x) = IF ~hours24 /\ decimal.hour >= PM
                     THEN [decimal EXCEPT !.hour = (@ - PM + 12) % 24]
                     ELSE decimal
  BY DEF Converted
<1>4. x = [f \in Fields |-> x[f]]
  BY EncodedTyped
<1> HIDE DEF h
<1>5. /\ decimal = [f \in Fields |-> decimal[f]]
      /\ decimal.second = Plain(t).second /\ decimal.minute = Plain(t).minute
      /\ decimal.hour = IF hours24 THEN h
                        ELSE Half(h) + (IF h >= 12 THEN PM ELSE 0)
  <2>1. CASE binary
    BY <1>2, <1>4, <2>1 DEF Coded
  <2>2. CASE ~binary
    <3>1. decimal = [f \in Fields |->
                        IF f = "hour"
                        THEN FromBcd(x[f] % PM) + (x[f] \div PM) * PM
                        ELSE FromBcd(x[f])]
      BY <2>2
    <3>2. decimal.second = Plain(t).second /\ decimal.minute = Plain(t).minute
      <4>1. /\ x.second = Bcd(Plain(t).second)
            /\ x.minute = Bcd(Plain(t).minute)
        BY <1>2, <2>2 DEF Coded
      <4>2. /\ decimal.second = FromBcd(x.second)
            /\ decimal.minute = FromBcd(x.minute)
        BY <3>1 DEF Fields
      <4>3. /\ FromBcd(Bcd(Plain(t).second)) = Plain(t).second
            /\ FromBcd(Bcd(Plain(t).minute)) = Plain(t).minute
        BY <1>1, BcdDecodes
      <4> HIDE DEF decimal
      <4> QED
        BY <4>1, <4>2, <4>3
    <3>3. decimal.hour = FromBcd(x.hour % PM) + (x.hour \div PM) * PM
      BY <3>1 DEF Fields
    <3>4. ASSUME NEW n \in 0 .. 23
          PROVE  /\ Bcd(n) \in Nat /\ Bcd(n) < 128
                 /\ Bcd(n) % PM = Bcd(n) /\ Bcd(n) \div PM = 0
                 /\ (Bcd(n) + PM) % PM = Bcd(n) /\ (Bcd(n) + PM) \div PM = 1
      BY DEF Bcd, PM
    <3>5. decimal.hour = IF hours24 THEN h
                         ELSE Half(h) + (IF h >= 12 THEN PM ELSE 0)
      <4>1. CASE hours24
        <5>1. x.hour % PM = Bcd(h) /\ x.hour \div PM = 0
          BY <1>1, <1>2, <2>2, <3>4, <4>1 DEF Coded
        <5> QED
          BY <1>1, <3>3, <4>1, <5>1, BcdDecodes DEF PM
      <4>2. CASE ~hours24
        <5>1. Half(h) \in 0 .. 23
          BY <1>1
        <5>2. /\ x.hour % PM = Bcd(Half(h))
              /\ x.hour \div PM = IF h >= 12 THEN 1 ELSE 0
          BY <1>1, <1>2, <2>2, <3>4, <4>2, <5>1 DEF Coded
        <5> QED
          BY <1>1, <3>3, <4>2, <5>1, <5>2, BcdDecodes DEF PM
      <4> QED
        BY <4>1, <4>2
    <3> QED
      BY <3>1, <3>2, <3>5
  <2> QED
    BY <2>1, <2>2
<1> HIDE DEF decimal
<1>6. CASE hours24
  BY <1>1, <1>3, <1>5, <1>6 DEF h
<1>7. CASE ~hours24
  <2>1. CASE h >= 12
    <3>1. decimal.hour >= PM /\ decimal.hour - PM + 12 = Half(h) + 12
      BY <1>1, <1>5, <1>7, <2>1 DEF PM
    <3>2. /\ Converted(x).second = decimal.second
          /\ Converted(x).minute = decimal.minute
          /\ Converted(x).hour = (Half(h) + 12) % 24
      BY <1>3, <1>5, <1>7, <3>1 DEF Fields
    <3>3. ((Half(h) + 12) % 24) % 12 = h % 12 /\ (Half(h) + 12) % 24 \in 0 .. 23
      BY <1>1 DEF Half
    <3> QED
      BY <1>5, <1>7, <3>2, <3>3 DEF h
  <2>2. CASE h < 12
    <3>1. ~(decimal.hour >= PM) /\ decimal.hour = Half(h)
      BY <1>1, <1>5, <1>7, <2>2 DEF PM
    <3>2. Converted(x) = decimal
      BY <1>3, <3>1
    <3>3. Half(h) % 12 = h % 12 /\ Half(h) \in 0 .. 23
      BY <1>1 DEF Half
    <3> QED
      BY <1>5, <1>7, <3>1, <3>2, <3>3 DEF h
  <2> QED
    BY <1>1, <2>1, <2>2
<1> QED
  BY <1>6, <1>7

-----------------------------------------------------------------------------
(* Sixty seconds.                                                           *)

LEMMA TimeAtInDay ==
    ASSUME NEW s \in Day, NEW k \in Nat
    PROVE  /\ TimeAt(s, k) \in Day
           /\ TimeAt(s, k + 1) = (TimeAt(s, k) + 1) % 86400
           /\ TimeAt(s, 0) = s
  BY DEF TimeAt, Day

\* Within a minute the seconds do not come back.
LEMMA SecondsDiffer ==
    ASSUME NEW s \in Day, NEW i \in Nat, NEW j \in Nat, i < 60, j < 60,
           Plain(TimeAt(s, i)).second = Plain(TimeAt(s, j)).second
    PROVE  i = j
<1>1. ASSUME NEW k \in Nat
      PROVE  Plain(TimeAt(s, k)).second = (s + k) % 60
  BY DEF TimeAt, Day, Plain
<1>2. (s + i) % 60 = (s + j) % 60
  BY <1>1
<1> QED
  BY <1>2 DEF Day

\* Within a minute no field leaves a value and comes back to it.
LEMMA NoReturn ==
    ASSUME NEW s \in Day, NEW i \in Nat, NEW j \in Nat, NEW k \in Nat,
           i <= j, j <= k, k < 60, NEW f \in Fields,
           Plain(TimeAt(s, i))[f] = Plain(TimeAt(s, k))[f]
    PROVE  Plain(TimeAt(s, j))[f] = Plain(TimeAt(s, i))[f]
<1>0. ASSUME NEW n \in Nat
      PROVE  /\ TimeAt(s, n) \in Day
             /\ TimeAt(s, n) \div 60 = ((s + n) \div 60) % 1440
             /\ TimeAt(s, n) \div 3600 = ((s + n) \div 3600) % 24
  BY DEF TimeAt, Day
<1>1. CASE f = "second"
  <2>1. i = k
    BY <1>1, SecondsDiffer
  <2> QED
    BY <2>1
<1>2. CASE f = "minute"
  <2>1. ASSUME NEW n \in Nat
        PROVE  Plain(TimeAt(s, n)).minute = ((s + n) \div 60) % 60
    <3>1. Plain(TimeAt(s, n)).minute = (((s + n) \div 60) % 1440) % 60
      BY <1>0 DEF Plain
    <3>2. ASSUME NEW m \in Nat PROVE (m % 1440) % 60 = m % 60
      OBVIOUS
    <3>3. (s + n) \div 60 \in Nat
      BY DEF Day
    <3> QED
      BY <3>1, <3>2, <3>3
  <2>2. ((s + i) \div 60) % 60 = ((s + k) \div 60) % 60
    BY <1>2, <2>1
  <2>3. ((s + j) \div 60) % 60 = ((s + i) \div 60) % 60
    BY <2>2 DEF Day
  <2> QED
    BY <1>2, <2>1, <2>3
<1>3. CASE f = "hour"
  <2>1. ASSUME NEW n \in Nat
        PROVE  Plain(TimeAt(s, n)).hour = ((s + n) \div 3600) % 24
    BY <1>0 DEF Plain
  <2>2. ((s + i) \div 3600) % 24 = ((s + k) \div 3600) % 24
    BY <1>3, <2>1
  <2>3. ((s + j) \div 3600) % 24 = ((s + i) \div 3600) % 24
    BY <2>2 DEF Day
  <2> QED
    BY <1>3, <2>1, <2>3
<1> QED
  BY <1>1, <1>2, <1>3 DEF Fields
-----------------------------------------------------------------------------
(* The invariant.                                                           *)

RtcTyped ==
    /\ stale \subseteq Fields
    /\ updates \in Nat
    /\ pc # "done" => updates <= UpdatesPerCall
    /\ chip \in [Fields -> Int]
    /\ last \in [Fields -> Int] /\ time \in [Fields -> Int]
    /\ pc \in {"wait", "read", "compare", "convert", "done"}
    /\ pass \in {"first", "again"}
    /\ pc = "read" => next \in 1 .. 3
    /\ pc = "compare" => next = 4

\* The chip counts from s: a register not yet changed shows the time before
\* the update, and at rest the chip shows a time of the history.
ChipFrom(s) ==
    /\ now = TimeAt(s, updates)
    /\ \A f \in Fields \ stale : chip[f] = Encoded(now)[f]
    /\ \A f \in stale : chip[f] = Encoded(TimeAt(s, updates - 1))[f]
    /\ IF stale = {} THEN now \in shown ELSE updates > 0
    /\ shown \subseteq Day

\* A reading of a register between the updates i and j of the chip.
ReadWithin(s, x, f, i, j) == \E k \in i .. j : x[f] = Encoded(TimeAt(s, k))[f]

\* The pass under way began after update w, with the chip at rest; what it has
\* read is no older, and what the pass before it read is no newer.
PassSince(s, w) ==
    /\ TimeAt(s, w) \in shown
    /\ stale # {} => w < updates
    /\ \A n \in 1 .. next - 1 : ReadWithin(s, time, Registers[n], w, updates)
    /\ pass = "again" => \A f \in Fields : ReadWithin(s, last, f, 0, w)

CallFrom(s) ==
    /\ pc = "wait" /\ pass = "again" =>
          \A f \in Fields : ReadWithin(s, last, f, 0, updates)
    /\ pc \in {"read", "compare"} => \E w \in 0 .. updates : PassSince(s, w)
    /\ pc = "convert" => \E t \in shown : time = Encoded(t)
    /\ ReadIsInstant

RtcInv == RtcTyped /\ \E s \in Day : ChipFrom(s) /\ CallFrom(s)

\* The fields in the order they are read.
LEMMA RegisterFacts ==
    /\ Registers[1] = "second" /\ Registers[2] = "minute" /\ Registers[3] = "hour"
    /\ Len(Registers) = 3
    /\ \A n \in 1 .. 3 : Registers[n] \in Fields
  BY DEF Registers, Fields

\* Two passes agree, one read up to the moment the chip was at rest after
\* update w and one from then on: both read the time of that moment.
LEMMA PassesAgree ==
    ASSUME NEW s \in Day, NEW w \in Nat, NEW u \in Nat, w <= u, u < 60,
           NEW x, \A f \in Fields : ReadWithin(s, x, f, 0, w),
           \A f \in Fields : ReadWithin(s, x, f, w, u)
    PROVE  \A f \in Fields : x[f] = Encoded(TimeAt(s, w))[f]
<1>1. \A n \in Nat : TimeAt(s, n) \in Day
  BY TimeAtInDay
<1>2. ASSUME NEW f \in Fields
      PROVE  \E i \in 0 .. w, k \in w .. u :
                /\ x[f] = Encoded(TimeAt(s, i))[f]
                /\ Plain(TimeAt(s, i))[f] = Plain(TimeAt(s, k))[f]
  <2>1. PICK i \in 0 .. w : x[f] = Encoded(TimeAt(s, i))[f]
    BY DEF ReadWithin
  <2>2. PICK k \in w .. u : x[f] = Encoded(TimeAt(s, k))[f]
    BY DEF ReadWithin
  <2>3. TimeAt(s, i) \in Day /\ TimeAt(s, k) \in Day
    BY <1>1
  <2>4. Plain(TimeAt(s, i))[f] = Plain(TimeAt(s, k))[f]
    <3>1. PICK t \in Day, v \in Day : t = TimeAt(s, i) /\ v = TimeAt(s, k)
      BY <2>3
    <3>2. Encoded(t)[f] = Encoded(v)[f]
      BY <2>1, <2>2, <3>1
    <3>3. Plain(t)[f] = Plain(v)[f]
      BY <3>2, ShownOnce
    <3> QED
      BY <3>1, <3>3
  <2> QED
    BY <2>1, <2>4
<1>3. ASSUME NEW f \in Fields
      PROVE  x[f] = Encoded(TimeAt(s, w))[f]
  <2>1. PICK i \in 0 .. w, k \in w .. u :
                /\ x[f] = Encoded(TimeAt(s, i))[f]
                /\ Plain(TimeAt(s, i))[f] = Plain(TimeAt(s, k))[f]
    BY <1>2
  <2>2. Plain(TimeAt(s, w))[f] = Plain(TimeAt(s, i))[f]
    <3>1. i \in Nat /\ k \in Nat /\ i <= w /\ w <= k /\ k < 60
      OBVIOUS
    <3>2. Plain(TimeAt(s, i))[f] = Plain(TimeAt(s, k))[f]
      BY <2>1
    <3> QED
      BY <3>1, <3>2, NoReturn
  <2>3. TimeAt(s, i) \in Day /\ TimeAt(s, w) \in Day
    BY <1>1
  <2>4. Encoded(TimeAt(s, w))[f] = Encoded(TimeAt(s, i))[f]
    BY <2>2, <2>3, ShownOnce
  <2> QED
    BY <2>1, <2>4
<1> QED
  BY <1>3
-----------------------------------------------------------------------------
(* Its steps.                                                               *)

\* The coding of the chip does not change during a call.
LEMMA EncodedStays ==
    ASSUME UNCHANGED <<binary, hours24>>, NEW t
    PROVE  Encoded(t)' = Encoded(t)
  BY DEF Encoded, HourShown

LEMMA RtcInitInv == RtcInit => RtcInv
<1> SUFFICES ASSUME RtcInit PROVE RtcInv
  OBVIOUS
<1>1. now \in Day
  BY RtcConstants DEF RtcInit
<1>2. Zero \in [Fields -> Int] /\ Encoded(now) \in [Fields -> Int]
  <2>1. Zero \in [Fields -> Int]
    BY DEF Zero, Fields
  <2> QED
    BY <1>1, <2>1, EncodedTyped
<1>3. RtcTyped
  BY <1>2, RtcConstants DEF RtcInit, RtcTyped
<1>4. ChipFrom(now)
  BY <1>1, TimeAtInDay DEF RtcInit, ChipFrom
<1>5. CallFrom(now)
  BY DEF RtcInit, CallFrom, ReadIsInstant
<1> QED
  BY <1>1, <1>3, <1>4, <1>5 DEF RtcInv

\* BeginUpdate raises the flag for one register at least, the second.
LEMMA BeginUpdateInv ==
    ASSUME UpdatesPerCall < 60, RtcTyped, BeginUpdate,
           NEW s \in Day, ChipFrom(s), CallFrom(s)
    PROVE  RtcTyped' /\ ChipFrom(s)' /\ CallFrom(s)'
<1>1. /\ stale = {} /\ now' = (now + 1) % 86400 /\ updates' = updates + 1
      /\ stale' = {f \in Fields : Encoded(now')[f] # chip[f]}
      /\ UNCHANGED <<chip, binary, hours24, shown, pc, next, pass, last, time>>
      /\ updates \in Nat /\ (pc # "done" => updates' <= UpdatesPerCall)
  <2>1. /\ stale = {} /\ now' = (now + 1) % 86400 /\ updates' = updates + 1
        /\ stale' = {f \in Fields : Encoded(now')[f] # chip[f]}
        /\ UNCHANGED <<chip, binary, hours24, shown, pc, next, pass, last, time>>
        /\ pc # "done" => updates < UpdatesPerCall
    BY DEF BeginUpdate, callVars
  <2>2. updates \in Nat /\ UpdatesPerCall \in Nat
    BY RtcConstants DEF RtcTyped
  <2> QED
    BY <2>1, <2>2
<1>2. /\ now = TimeAt(s, updates) /\ now' = TimeAt(s, updates')
      /\ now \in Day /\ now' \in Day
  BY <1>1, TimeAtInDay DEF ChipFrom
<1>3. /\ chip = chip' /\ \A f \in Fields : chip[f] = Encoded(now)[f]
      /\ now \in shown
  BY <1>1 DEF ChipFrom
<1>4. \A t : Encoded(t)' = Encoded(t)
  BY <1>1, EncodedStays
<1>5. "second" \in stale'
  <2>1. Plain(now).second # Plain(now').second
    BY <1>1, <1>2 DEF Plain, Day
  <2>2. Encoded(now')["second"] # Encoded(now)["second"]
    BY <1>2, <2>1, ShownOnce DEF Fields
  <2> QED
    BY <1>1, <1>3, <2>2 DEF Fields
<1>6. RtcTyped'
  BY <1>1 DEF RtcTyped
<1>7. ChipFrom(s)'
  <2>1. (Encoded(now))' = Encoded(now')
    BY <1>1 DEF Encoded, HourShown
  <2>2. \A f \in Fields \ stale' : chip'[f] = (Encoded(now))'[f]
    BY <1>1, <2>1
  <2>3. \A f \in stale' : chip'[f] = (Encoded(TimeAt(s, updates - 1)))'[f]
    <3>1. updates' - 1 = updates
      BY <1>1
    <3>2. (Encoded(TimeAt(s, updates - 1)))' = Encoded(TimeAt(s, updates' - 1))
      BY <1>1 DEF Encoded, HourShown
    <3> QED
      BY <1>1, <1>2, <1>3, <3>1, <3>2
  <2> QED
    BY <1>1, <1>2, <1>5, <2>2, <2>3 DEF ChipFrom
<1>8. CallFrom(s)'
  <2>1. ASSUME pc' = "wait", pass' = "again", NEW f \in Fields
        PROVE  ReadWithin(s, last, f, 0, updates)'
    <3>1. PICK k \in 0 .. updates : last[f] = Encoded(TimeAt(s, k))[f]
      BY <1>1, <2>1 DEF CallFrom, ReadWithin
    <3> QED
      BY <1>1, <1>4, <3>1 DEF ReadWithin
  <2>2. ASSUME pc' \in {"read", "compare"}
        PROVE  \E w \in 0 .. updates' : PassSince(s, w)'
    <3>1. PICK w \in 0 .. updates : PassSince(s, w)
      BY <1>1, <2>2 DEF CallFrom
    <3>2. \A n \in 1 .. next - 1 : ReadWithin(s, time, Registers[n], w, updates)'
      BY <1>1, <1>4, <3>1 DEF PassSince, ReadWithin
    <3>3. pass = "again" => \A f \in Fields : ReadWithin(s, last, f, 0, w)'
      BY <1>1, <1>4, <3>1 DEF PassSince, ReadWithin
    <3>4. PassSince(s, w)'
      BY <1>1, <3>1, <3>2, <3>3 DEF PassSince
    <3> QED
      BY <1>1, <3>4
  <2>3. pc' = "convert" => \E t \in shown' : time' = Encoded(t)'
    BY <1>1, <1>4 DEF CallFrom
  <2>4. ReadIsInstant'
    BY <1>1 DEF CallFrom, ReadIsInstant, Plain
  <2> QED
    BY <2>1, <2>2, <2>3, <2>4 DEF CallFrom
<1> QED
  BY <1>6, <1>7, <1>8

\* ChangeRegister shows the new time once no register is left to change.
LEMMA ChangeRegisterInv ==
    ASSUME RtcTyped, ChangeRegister, NEW s \in Day, ChipFrom(s), CallFrom(s)
    PROVE  RtcTyped' /\ ChipFrom(s)' /\ CallFrom(s)'
<1>1. PICK f \in stale : /\ chip' = [chip EXCEPT ![f] = Encoded(now)[f]]
                         /\ stale' = stale \ {f}
  BY DEF ChangeRegister
<1>2. /\ shown' = IF stale' = {} THEN shown \cup {now} ELSE shown
      /\ UNCHANGED <<binary, hours24, now, updates, pc, next, pass, last, time>>
  BY DEF ChangeRegister, callVars
<1>3. /\ now \in Day /\ Encoded(now) \in [Fields -> Int] /\ f \in Fields
      /\ updates > 0 /\ updates \in Nat /\ now = TimeAt(s, updates)
  <2>1. /\ f \in Fields /\ updates > 0 /\ now = TimeAt(s, updates)
    BY <1>1 DEF ChipFrom, RtcTyped
  <2>2. updates \in Nat
    BY RtcConstants DEF RtcTyped
  <2>3. now \in Day
    BY <2>1, <2>2, TimeAtInDay
  <2> QED
    BY <2>1, <2>2, <2>3, EncodedTyped
<1>4. /\ \A t : Encoded(t)' = Encoded(t)
      /\ (Encoded(now))' = Encoded(now)
      /\ (Encoded(TimeAt(s, updates - 1)))' = Encoded(TimeAt(s, updates - 1))
  BY <1>2 DEF Encoded, HourShown
<1>5. RtcTyped'
  BY <1>1, <1>2, <1>3 DEF RtcTyped
<1>6. ChipFrom(s)'
  <2>1. /\ chip'[f] = Encoded(now)[f]
        /\ \A g \in Fields \ {f} : chip'[g] = chip[g]
    BY <1>1, <1>3 DEF RtcTyped
  <2>2. \A g \in Fields \ stale' : chip'[g] = Encoded(now)[g]
    BY <1>1, <2>1 DEF ChipFrom
  <2>3. \A g \in stale' : chip'[g] = Encoded(TimeAt(s, updates - 1))[g]
    BY <1>1, <2>1 DEF ChipFrom, RtcTyped
  <2>4. shown' \subseteq Day /\ (stale' = {} => now \in shown')
    BY <1>2, <1>3 DEF ChipFrom
  <2> QED
    BY <1>2, <1>3, <1>4, <2>2, <2>3, <2>4 DEF ChipFrom
<1>7. CallFrom(s)'
  <2>1. shown \subseteq shown' /\ (stale' # {} => stale # {})
    BY <1>1, <1>2
  <2>2. pc' = "wait" /\ pass' = "again" =>
            \A g \in Fields : ReadWithin(s, last, g, 0, updates)'
    BY <1>2, <1>4 DEF CallFrom, ReadWithin
  <2>3. ASSUME pc' \in {"read", "compare"}
        PROVE  \E w \in 0 .. updates' : PassSince(s, w)'
    <3>1. PICK w \in 0 .. updates : PassSince(s, w)
      BY <1>2, <2>3 DEF CallFrom
    <3>2. \A n \in 1 .. next - 1 : ReadWithin(s, time, Registers[n], w, updates)'
      BY <1>2, <1>4, <3>1 DEF PassSince, ReadWithin
    <3>3. pass = "again" => \A g \in Fields : ReadWithin(s, last, g, 0, w)'
      BY <1>2, <1>4, <3>1 DEF PassSince, ReadWithin
    <3>4. PassSince(s, w)'
      BY <1>2, <2>1, <3>1, <3>2, <3>3 DEF PassSince
    <3> QED
      BY <1>2, <3>4
  <2>4. pc' = "convert" => \E t \in shown' : time' = Encoded(t)'
    BY <1>2, <1>4, <2>1 DEF CallFrom
  <2>5. ReadIsInstant'
    BY <1>2, <2>1 DEF CallFrom, ReadIsInstant, Plain
  <2> QED
    BY <2>2, <2>3, <2>4, <2>5 DEF CallFrom
<1> QED
  BY <1>5, <1>6, <1>7

\* Wait lets a pass begin with the chip at rest, after the updates so far.
LEMMA WaitInv ==
    ASSUME RtcTyped, Wait, NEW s \in Day, ChipFrom(s), CallFrom(s)
    PROVE  RtcTyped' /\ ChipFrom(s)' /\ CallFrom(s)'
<1>1. /\ pc = "wait" /\ stale = {} /\ pc' = "read" /\ next' = 1
      /\ UNCHANGED <<chip, binary, hours24, now, stale, updates, shown>>
      /\ UNCHANGED <<pass, last, time>>
  BY DEF Wait, UpdateInProgress, chipVars
<1>2. updates \in Nat
  BY RtcConstants DEF RtcTyped
<1>3. \A t : Encoded(t)' = Encoded(t)
  BY <1>1, EncodedStays
<1>4. /\ (Encoded(now))' = Encoded(now)
      /\ (Encoded(TimeAt(s, updates - 1)))' = Encoded(TimeAt(s, updates - 1))
  BY <1>1 DEF Encoded, HourShown
<1>5. RtcTyped'
  BY <1>1 DEF RtcTyped
<1>6. ChipFrom(s)'
  BY <1>1, <1>4 DEF ChipFrom
<1>7. PassSince(s, updates)'
  <2>1. TimeAt(s, updates) \in shown'
    BY <1>1 DEF ChipFrom
  <2>2. pass = "again" => \A f \in Fields : ReadWithin(s, last, f, 0, updates)'
    BY <1>1, <1>3 DEF CallFrom, ReadWithin
  <2> QED
    BY <1>1, <2>1, <2>2 DEF PassSince
<1>8. CallFrom(s)'
  <2>1. \E w \in 0 .. updates' : PassSince(s, w)'
    BY <1>1, <1>2, <1>7 DEF PassSince, ReadWithin
  <2> QED
    BY <1>1, <2>1 DEF CallFrom, ReadIsInstant
<1> QED
  BY <1>5, <1>6, <1>8

\* ReadRegister reads what the register shows now, or showed before the update in
\* progress, and that update began after the pass did.
LEMMA ReadRegisterInv ==
    ASSUME RtcTyped, ReadRegister, NEW s \in Day, ChipFrom(s), CallFrom(s)
    PROVE  RtcTyped' /\ ChipFrom(s)' /\ CallFrom(s)'
<1>0. PICK f \in Fields : f = Registers[next]
  BY RegisterFacts DEF ReadRegister, RtcTyped
<1>1. /\ pc = "read" /\ time' = [time EXCEPT ![f] = chip[f]] /\ next' = next + 1
      /\ pc' = IF next = 3 THEN "compare" ELSE "read"
      /\ UNCHANGED <<chip, binary, hours24, now, stale, updates, shown>>
      /\ UNCHANGED <<pass, last>>
  BY <1>0, RegisterFacts DEF ReadRegister, chipVars
<1>2. updates \in Nat /\ next \in 1 .. 3
  BY <1>1, RtcConstants, RegisterFacts DEF RtcTyped
<1>3. \A t : Encoded(t)' = Encoded(t)
  BY <1>1, EncodedStays
<1>4. /\ (Encoded(now))' = Encoded(now)
      /\ (Encoded(TimeAt(s, updates - 1)))' = Encoded(TimeAt(s, updates - 1))
  BY <1>1 DEF Encoded, HourShown
<1>5. /\ time' \in [Fields -> Int] /\ time'[f] = chip[f]
      /\ \A g \in Fields \ {f} : time'[g] = time[g]
  BY <1>1, <1>2 DEF RtcTyped
<1>6. RtcTyped'
  BY <1>1, <1>2, <1>5 DEF RtcTyped
<1>7. ChipFrom(s)'
  BY <1>1, <1>4 DEF ChipFrom
<1>8. PICK w \in 0 .. updates : PassSince(s, w)
  BY <1>1 DEF CallFrom
<1>9. PassSince(s, w)'
  <2>1. \E k \in w .. updates : chip[f] = Encoded(TimeAt(s, k))[f]
    <3>1. CASE f \in stale
      <4>1. chip[f] = Encoded(TimeAt(s, updates - 1))[f] /\ w < updates
        BY <1>8, <3>1 DEF ChipFrom, PassSince
      <4> QED
        BY <1>2, <1>8, <4>1
    <3>2. CASE f \notin stale
      <4>1. chip[f] = Encoded(TimeAt(s, updates))[f]
        BY <1>2, <3>2 DEF ChipFrom
      <4> QED
        BY <1>2, <1>8, <4>1
    <3> QED
      BY <3>1, <3>2
  <2>2. ReadWithin(s, time, f, w, updates)'
    BY <1>1, <1>3, <1>5, <2>1 DEF ReadWithin
  <2>3. ASSUME NEW n \in 1 .. next - 1
        PROVE  ReadWithin(s, time, Registers[n], w, updates)'
    <3>1. Registers[n] \in Fields \ {f}
      BY <1>0, <1>2, RegisterFacts DEF Registers
    <3>2. PICK k \in w .. updates :
             time[Registers[n]] = Encoded(TimeAt(s, k))[Registers[n]]
      BY <1>8 DEF PassSince, ReadWithin
    <3> QED
      BY <1>1, <1>3, <1>5, <3>1, <3>2 DEF ReadWithin
  <2>4. ASSUME NEW n \in 1 .. next' - 1
        PROVE  ReadWithin(s, time, Registers[n], w, updates)'
    <3>1. n \in 1 .. next - 1 \/ n = next
      BY <1>1, <1>2
    <3>2. CASE n = next
      BY <1>0, <2>2, <3>2
    <3> QED
      BY <2>3, <3>1, <3>2
  <2>5. pass = "again" => \A g \in Fields : ReadWithin(s, last, g, 0, w)'
    BY <1>1, <1>3, <1>8 DEF PassSince, ReadWithin
  <2> QED
    BY <1>1, <1>8, <2>4, <2>5 DEF PassSince
<1>10. CallFrom(s)'
  BY <1>1, <1>8, <1>9 DEF CallFrom, ReadIsInstant
<1> QED
  BY <1>6, <1>7, <1>10

\* Compare ends the passes with the time of the moment the last one began.
LEMMA CompareInv ==
    ASSUME UpdatesPerCall < 60, RtcTyped, Compare,
           NEW s \in Day, ChipFrom(s), CallFrom(s)
    PROVE  RtcTyped' /\ ChipFrom(s)' /\ CallFrom(s)'
<1>1. /\ pc = "compare" /\ pass' = "again"
      /\ IF pass = "again" /\ last = time
         THEN pc' = "convert" /\ last' = last
         ELSE pc' = "wait" /\ last' = time
      /\ UNCHANGED <<chip, binary, hours24, now, stale, updates, shown>>
      /\ UNCHANGED <<next, time>>
  BY DEF Compare, chipVars
<1>2. updates \in Nat /\ updates < 60 /\ next = 4
  BY <1>1, RtcConstants DEF RtcTyped
<1>3. \A t : Encoded(t)' = Encoded(t)
  BY <1>1, EncodedStays
<1>4. /\ (Encoded(now))' = Encoded(now)
      /\ (Encoded(TimeAt(s, updates - 1)))' = Encoded(TimeAt(s, updates - 1))
  BY <1>1 DEF Encoded, HourShown
<1>5. RtcTyped'
  BY <1>1 DEF RtcTyped
<1>6. ChipFrom(s)'
  BY <1>1, <1>4 DEF ChipFrom
<1>7. PICK w \in 0 .. updates : PassSince(s, w)
  BY <1>1 DEF CallFrom
<1>8. \A f \in Fields : ReadWithin(s, time, f, w, updates)
  <2>1. \A n \in 1 .. 3 : ReadWithin(s, time, Registers[n], w, updates)
    BY <1>2, <1>7 DEF PassSince
  <2> QED
    BY <2>1, RegisterFacts DEF Fields
<1>9. CASE pass = "again" /\ last = time
  <2>1. \A f \in Fields : ReadWithin(s, time, f, 0, w)
    BY <1>7, <1>9 DEF PassSince
  <2>2. \A f \in Fields : time[f] = Encoded(TimeAt(s, w))[f]
    BY <1>2, <1>7, <1>8, <2>1, PassesAgree
  <2>3. TimeAt(s, w) \in shown /\ TimeAt(s, w) \in Day
    BY <1>2, <1>7, TimeAtInDay DEF PassSince
  <2>4. time = Encoded(TimeAt(s, w))
    BY <2>2, <2>3, EncodedTyped DEF RtcTyped
  <2> QED
    BY <1>1, <1>3, <1>5, <1>6, <1>9, <2>3, <2>4 DEF CallFrom, ReadIsInstant
<1>10. CASE ~(pass = "again" /\ last = time)
  <2>1. ASSUME NEW f \in Fields PROVE ReadWithin(s, last, f, 0, updates)'
    <3>1. PICK k \in w .. updates : time[f] = Encoded(TimeAt(s, k))[f]
      BY <1>8 DEF ReadWithin
    <3>2. k \in 0 .. updates
      BY <1>2, <1>7
    <3> QED
      BY <1>1, <1>3, <1>10, <3>1, <3>2 DEF ReadWithin
  <2> QED
    BY <1>1, <1>5, <1>6, <1>10, <2>1 DEF CallFrom, ReadIsInstant
<1> QED
  BY <1>9, <1>10

\* Converting keeps three registers of numbers.
LEMMA ConvertedTyped ==
    ASSUME NEW x \in [Fields -> Int]
    PROVE  Converted(x) \in [Fields -> Int]
<1> DEFINE decimal == IF binary THEN x
                      ELSE [f \in Fields |->
                               IF f = "hour"
                               THEN FromBcd(x[f] % PM) + (x[f] \div PM) * PM
                               ELSE FromBcd(x[f])]
<1>1. decimal \in [Fields -> Int]
  <2>1. ASSUME NEW n \in Int
        PROVE  FromBcd(n) \in Int /\ FromBcd(n % PM) + (n \div PM) * PM \in Int
    BY DEF FromBcd, PM
  <2>2. CASE binary
    BY <2>2
  <2>3. CASE ~binary
    BY <2>1, <2>3
  <2> QED
    BY <2>2, <2>3
<1>2. Converted(x) = IF ~hours24 /\ decimal.hour >= PM
                     THEN [decimal EXCEPT !["hour"] = (decimal["hour"] - PM + 12) % 24]
                     ELSE decimal
  BY DEF Converted
<1> HIDE DEF decimal
<1>3. ASSUME NEW n \in Int PROVE (n - PM + 12) % 24 \in Int
  BY DEF PM
<1> QED
  BY <1>1, <1>2, <1>3 DEF Fields

\* Convert leaves the time whose registers the passes read.
LEMMA ConvertInv ==
    ASSUME RtcTyped, Convert, NEW s \in Day, ChipFrom(s), CallFrom(s)
    PROVE  RtcTyped' /\ ChipFrom(s)' /\ CallFrom(s)'
<1>1. /\ pc = "convert" /\ pc' = "done" /\ time' = Converted(time)
      /\ UNCHANGED <<chip, binary, hours24, now, stale, updates, shown>>
      /\ UNCHANGED <<next, pass, last>>
  BY DEF Convert, chipVars
<1>2. /\ (Encoded(now))' = Encoded(now)
      /\ (Encoded(TimeAt(s, updates - 1)))' = Encoded(TimeAt(s, updates - 1))
  BY <1>1 DEF Encoded, HourShown
<1>3. RtcTyped'
  BY <1>1, ConvertedTyped DEF RtcTyped
<1>4. ChipFrom(s)'
  BY <1>1, <1>2 DEF ChipFrom
<1>5. PICK t \in shown : time = Encoded(t)
  BY <1>1 DEF CallFrom
<1>6. /\ time'.second = Plain(t).second /\ time'.minute = Plain(t).minute
      /\ IF hours24 THEN time'.hour = Plain(t).hour
         ELSE time'.hour % 12 = Plain(t).hour % 12
  <2>1. t \in Day
    BY DEF ChipFrom
  <2> QED
    BY <1>1, <1>5, <2>1, ConvertedBack
<1>7. ReadIsInstant'
  BY <1>1, <1>6 DEF ReadIsInstant, Plain
<1>8. CallFrom(s)'
  BY <1>1, <1>7 DEF CallFrom
<1> QED
  BY <1>3, <1>4, <1>8

\* A step that changes nothing changes none of it.
LEMMA RtcStutterInv ==
    ASSUME RtcTyped, UNCHANGED rtcVars, NEW s \in Day, ChipFrom(s), CallFrom(s)
    PROVE  RtcTyped' /\ ChipFrom(s)' /\ CallFrom(s)'
<1>1. /\ UNCHANGED <<chip, binary, hours24, now, stale, updates, shown>>
      /\ UNCHANGED <<pc, next, pass, last, time>>
  BY DEF rtcVars, chipVars, callVars
<1>2. \A t : Encoded(t)' = Encoded(t)
  BY <1>1, EncodedStays
<1>3. /\ (Encoded(now))' = Encoded(now)
      /\ (Encoded(TimeAt(s, updates - 1)))' = Encoded(TimeAt(s, updates - 1))
  BY <1>1 DEF Encoded, HourShown
<1>4. RtcTyped'
  BY <1>1 DEF RtcTyped
<1>5. ChipFrom(s)'
  BY <1>1, <1>3 DEF ChipFrom
<1>6. CallFrom(s)'
  <2>1. \A w : PassSince(s, w)' <=> PassSince(s, w)
    BY <1>1, <1>2 DEF PassSince, ReadWithin
  <2>2. ReadIsInstant'
    BY <1>1 DEF CallFrom, ReadIsInstant, Plain
  <2>3. pc = "wait" /\ pass = "again" =>
            \A f \in Fields : ReadWithin(s, last, f, 0, updates)'
    BY <1>1, <1>2 DEF CallFrom, ReadWithin
  <2>4. pc' = "convert" => \E t \in shown' : time' = Encoded(t)'
    BY <1>1, <1>2 DEF CallFrom
  <2> QED
    BY <1>1, <2>1, <2>2, <2>3, <2>4 DEF CallFrom
<1> QED
  BY <1>4, <1>5, <1>6

\* Every step of the chip and of the call keeps the invariant.
LEMMA RtcStepInv ==
    ASSUME UpdatesPerCall < 60, RtcInv, [RtcNext]_rtcVars
    PROVE  RtcInv'
<1>1. RtcTyped
  BY DEF RtcInv
<1>2. PICK s \in Day : ChipFrom(s) /\ CallFrom(s)
  BY DEF RtcInv
<1>3. RtcTyped' /\ ChipFrom(s)' /\ CallFrom(s)'
  <2>1. CASE BeginUpdate
    BY <1>1, <1>2, <2>1, BeginUpdateInv
  <2>2. CASE ChangeRegister
    BY <1>1, <1>2, <2>2, ChangeRegisterInv
  <2>3. CASE Wait
    BY <1>1, <1>2, <2>3, WaitInv
  <2>4. CASE ReadRegister
    BY <1>1, <1>2, <2>4, ReadRegisterInv
  <2>5. CASE Compare
    BY <1>1, <1>2, <2>5, CompareInv
  <2>6. CASE Convert
    BY <1>1, <1>2, <2>6, ConvertInv
  <2>7. CASE UNCHANGED rtcVars
    BY <1>1, <1>2, <2>7, RtcStutterInv
  <2> QED
    BY <2>1, <2>2, <2>3, <2>4, <2>5, <2>6, <2>7 DEF RtcNext, Call
<1> QED
  BY <1>3 DEF RtcInv

\* The time read_rtc leaves is one that the chip showed as a whole during the
\* call, whenever the call begins and wherever updates come between the reads.
THEOREM TimeReadIsInstant ==
    ASSUME UpdatesPerCall < 60
    PROVE  RtcSpec => []ReadIsInstant
<1>1. RtcInit => RtcInv
  BY RtcInitInv
<1>2. RtcInv /\ [RtcNext]_rtcVars => RtcInv'
  BY RtcStepInv
<1>3. RtcInv => ReadIsInstant
  BY DEF RtcInv, CallFrom
<1> QED
  BY <1>1, <1>2, <1>3, PTL DEF RtcSpec

-----------------------------------------------------------------------------
(* What the program reads.                                                  *)

\* A register as the chip shows it at some time of day.
Legible(x, f) == \E t \in Day : x[f] = Encoded(t)[f]

ClockReads ==
    /\ RtcTyped
    /\ now \in Day
    /\ \A f \in Fields : Legible(chip, f)
    /\ pc = "read" => \A n \in 1 .. next - 1 : Legible(time, Registers[n])
    /\ pc \in {"compare", "convert"} => \A f \in Fields : Legible(time, f)
    /\ pc = "done" => /\ time.second \in 0 .. 59 /\ time.minute \in 0 .. 59
                      /\ time.hour \in 0 .. 23

\* Converting treats the registers one by one.
LEMMA ConvertedByField ==
    ASSUME NEW x \in [Fields -> Int], NEW y \in [Fields -> Int],
           NEW f \in Fields, x[f] = y[f]
    PROVE  Converted(x)[f] = Converted(y)[f]
<1> DEFINE D(z) == IF binary THEN z
                   ELSE [g \in Fields |->
                            IF g = "hour"
                            THEN FromBcd(z[g] % PM) + (z[g] \div PM) * PM
                            ELSE FromBcd(z[g])]
<1>1. ASSUME NEW z \in [Fields -> Int]
      PROVE  D(z) = [g \in Fields |-> D(z)[g]]
  <2>1. CASE binary
    BY <2>1
  <2>2. CASE ~binary
    BY <2>2
  <2> QED
    BY <2>1, <2>2
<1>2. D(x)[f] = D(y)[f]
  <2>1. CASE binary
    BY <2>1
  <2>2. CASE ~binary
    BY <2>2
  <2> QED
    BY <2>1, <2>2
<1>3. \A z : Converted(z) = IF ~hours24 /\ D(z)["hour"] >= PM
                            THEN [D(z) EXCEPT !["hour"] = (D(z)["hour"] - PM + 12) % 24]
                            ELSE D(z)
  BY DEF Converted
<1> HIDE DEF D
<1>4. ASSUME NEW z \in [Fields -> Int]
      PROVE  /\ f # "hour" => Converted(z)[f] = D(z)[f]
             /\ f = "hour" => Converted(z)[f] =
                   IF ~hours24 /\ D(z)[f] >= PM THEN (D(z)[f] - PM + 12) % 24
                   ELSE D(z)[f]
  BY <1>1, <1>3 DEF Fields
<1> QED
  BY <1>2, <1>4

\* From legible registers Convert makes numbers of two digits.
LEMMA ConvertedInRange ==
    ASSUME NEW x \in [Fields -> Int], \A f \in Fields : Legible(x, f)
    PROVE  /\ Converted(x).second \in 0 .. 59 /\ Converted(x).minute \in 0 .. 59
           /\ Converted(x).hour \in 0 .. 23
<1>1. ASSUME NEW f \in Fields
      PROVE  \E t \in Day : Converted(x)[f] = Converted(Encoded(t))[f]
  <2>1. PICK t \in Day : x[f] = Encoded(t)[f]
    BY DEF Legible
  <2>2. Encoded(t) \in [Fields -> Int]
    BY EncodedTyped
  <2> QED
    BY <2>1, <2>2, ConvertedByField
<1>2. ASSUME NEW t \in Day
      PROVE  /\ Converted(Encoded(t)).second \in 0 .. 59
             /\ Converted(Encoded(t)).minute \in 0 .. 59
             /\ Converted(Encoded(t)).hour \in 0 .. 23
  BY ConvertedBack, PlainFields
<1> QED
  BY <1>1, <1>2 DEF Fields

\* Tomorrow begins where today ends.
LEMMA NextInDay ==
    ASSUME NEW t \in Day
    PROVE  (t + 1) % 86400 \in Day
  BY DEF Day

LEMMA ReadsInit == RtcInit => ClockReads
<1> SUFFICES ASSUME RtcInit PROVE ClockReads
  OBVIOUS
<1>1. RtcTyped
  BY RtcInitInv DEF RtcInv
<1>2. now \in Day
  BY RtcConstants DEF RtcInit
<1>3. \A f \in Fields : Legible(chip, f)
  BY <1>2 DEF RtcInit, Legible
<1> QED
  BY <1>1, <1>2, <1>3 DEF RtcInit, ClockReads

\* The chip's own steps put legible values into its registers.
LEMMA ChipReads ==
    ASSUME ClockReads, BeginUpdate \/ ChangeRegister
    PROVE  ClockReads'
<1>1. /\ UNCHANGED <<binary, hours24, pc, next, pass, last, time>>
  BY DEF BeginUpdate, ChangeRegister, callVars
<1>2. \A t : Encoded(t)' = Encoded(t)
  BY <1>1, EncodedStays
<1>3. /\ now' \in Day /\ stale' \subseteq Fields /\ updates' \in Nat
      /\ pc # "done" => updates' <= UpdatesPerCall
      /\ chip' \in [Fields -> Int] /\ \A f \in Fields : Legible(chip, f)'
  <2>1. CASE BeginUpdate
    <3>1. /\ chip' = chip /\ now' = (now + 1) % 86400
          /\ stale' = {f \in Fields : Encoded(now')[f] # chip[f]}
          /\ updates' = updates + 1 /\ (pc # "done" => updates < UpdatesPerCall)
      BY <2>1 DEF BeginUpdate
    <3>2. updates' \in Nat /\ (pc # "done" => updates' <= UpdatesPerCall)
      BY <3>1, RtcConstants DEF ClockReads, RtcTyped
    <3>3. now' \in Day
      BY <3>1, NextInDay DEF ClockReads
    <3> QED
      BY <1>2, <3>1, <3>2, <3>3 DEF ClockReads, RtcTyped, Legible
  <2>2. CASE ChangeRegister
    <3>1. PICK f \in stale : /\ chip' = [chip EXCEPT ![f] = Encoded(now)[f]]
                             /\ stale' = stale \ {f}
      BY <2>2 DEF ChangeRegister
    <3>2. now' = now /\ updates' = updates
      BY <2>2 DEF ChangeRegister
    <3>3. f \in Fields /\ Encoded(now)[f] \in Int
      BY <3>1, EncodedTyped DEF ClockReads, RtcTyped
    <3>4. \A g \in Fields : chip'[g] = chip[g] \/ chip'[g] = Encoded(now)[g]
      BY <3>1 DEF ClockReads, RtcTyped
    <3>5. chip' \in [Fields -> Int]
      BY <3>1, <3>3 DEF ClockReads, RtcTyped
    <3> QED
      BY <1>2, <3>1, <3>2, <3>4, <3>5 DEF ClockReads, RtcTyped, Legible
  <2> QED
    BY <2>1, <2>2
<1>4. RtcTyped'
  BY <1>1, <1>3 DEF ClockReads, RtcTyped
<1>5. pc' = "read" => \A n \in 1 .. next' - 1 : Legible(time, Registers[n])'
  BY <1>1, <1>2 DEF ClockReads, Legible
<1>6. pc' \in {"compare", "convert"} => \A f \in Fields : Legible(time, f)'
  BY <1>1, <1>2 DEF ClockReads, Legible
<1>7. pc' = "done" => /\ time'.second \in 0 .. 59 /\ time'.minute \in 0 .. 59
                      /\ time'.hour \in 0 .. 23
  BY <1>1 DEF ClockReads
<1> QED
  BY <1>3, <1>4, <1>5, <1>6, <1>7 DEF ClockReads

\* read_rtc reads them one after the other and then converts them.
LEMMA CallReads ==
    ASSUME ClockReads, Call
    PROVE  ClockReads'
<1>1. UNCHANGED <<chip, binary, hours24, now, stale, updates>>
  BY DEF Call, Wait, ReadRegister, Compare, Convert, chipVars
<1>2. \A t : Encoded(t)' = Encoded(t)
  BY <1>1, EncodedStays
<1>3. now' \in Day /\ \A f \in Fields : Legible(chip, f)'
  BY <1>1, <1>2 DEF ClockReads, Legible
<1>4. CASE Wait
  <2>1. pc = "wait" /\ pc' = "read" /\ next' = 1 /\ UNCHANGED <<pass, last, time>>
    BY <1>4 DEF Wait
  <2>2. RtcTyped'
    BY <1>1, <2>1 DEF ClockReads, RtcTyped
  <2> QED
    BY <1>3, <2>1, <2>2 DEF ClockReads
<1>5. CASE ReadRegister
  <2>0. PICK f \in Fields : f = Registers[next]
    BY <1>5, RegisterFacts DEF ReadRegister, ClockReads, RtcTyped
  <2>1. /\ pc = "read" /\ time' = [time EXCEPT ![f] = chip[f]] /\ next' = next + 1
        /\ pc' = IF next = 3 THEN "compare" ELSE "read"
        /\ UNCHANGED <<pass, last>>
    BY <1>5, <2>0, RegisterFacts DEF ReadRegister
  <2>2. next \in 1 .. 3
    BY <2>1 DEF ClockReads, RtcTyped
  <2>3. /\ time' \in [Fields -> Int] /\ time'[f] = chip[f]
        /\ \A g \in Fields \ {f} : time'[g] = time[g]
    BY <2>1 DEF ClockReads, RtcTyped
  <2>4. RtcTyped'
    BY <1>1, <2>1, <2>2, <2>3 DEF ClockReads, RtcTyped
  <2>5. ASSUME NEW n \in 1 .. next
        PROVE  Legible(time, Registers[n])'
    <3>1. CASE n = next
      <4>1. Registers[n] = f
        BY <2>0, <3>1
      <4>2. PICK t \in Day : chip[f] = Encoded(t)[f]
        BY DEF ClockReads, Legible
      <4>3. time'[f] = Encoded(t)'[f]
        BY <1>2, <2>3, <4>2
      <4> QED
        BY <4>1, <4>3 DEF Legible
    <3>2. CASE n # next
      <4>1. n \in 1 .. next - 1 /\ Registers[n] \in Fields \ {f}
        BY <2>0, <2>2, <3>2, RegisterFacts DEF Registers
      <4>2. Legible(time, Registers[n]) /\ time'[Registers[n]] = time[Registers[n]]
        BY <2>1, <2>3, <4>1 DEF ClockReads
      <4> QED
        BY <1>2, <4>2 DEF Legible
    <3> QED
      BY <3>1, <3>2
  <2>6. CASE next = 3
    <3>1. \A n \in 1 .. 3 : Legible(time, Registers[n])'
      BY <2>5, <2>6
    <3>2. \A g \in Fields : Legible(time, g)'
      BY <3>1, RegisterFacts DEF Fields
    <3> QED
      BY <1>3, <2>1, <2>4, <2>6, <3>2 DEF ClockReads
  <2>7. CASE next # 3
    <3>1. ASSUME NEW n \in 1 .. next' - 1
          PROVE  Legible(time, Registers[n])'
      <4>1. n \in 1 .. next
        BY <2>1, <2>2
      <4> QED
        BY <2>5, <4>1
    <3> QED
      BY <1>3, <2>1, <2>4, <2>7, <3>1 DEF ClockReads
  <2> QED
    BY <2>6, <2>7
<1>6. CASE Compare
  <2>1. /\ pc = "compare" /\ pc' \in {"convert", "wait"} /\ pass' = "again"
        /\ last' \in {last, time} /\ UNCHANGED <<next, time>>
    BY <1>6 DEF Compare
  <2>2. RtcTyped'
    BY <1>1, <2>1 DEF ClockReads, RtcTyped
  <2>3. \A f \in Fields : Legible(time, f)'
    BY <1>2, <2>1 DEF ClockReads, Legible
  <2> QED
    BY <1>3, <2>1, <2>2, <2>3 DEF ClockReads
<1>7. CASE Convert
  <2>1. /\ pc = "convert" /\ pc' = "done" /\ time' = Converted(time)
        /\ UNCHANGED <<next, pass, last>>
    BY <1>7 DEF Convert
  <2>2. time \in [Fields -> Int] /\ \A f \in Fields : Legible(time, f)
    BY <2>1 DEF ClockReads, RtcTyped
  <2>3. /\ time' \in [Fields -> Int]
        /\ time'.second \in 0 .. 59 /\ time'.minute \in 0 .. 59
        /\ time'.hour \in 0 .. 23
    BY <2>1, <2>2, ConvertedInRange, ConvertedTyped
  <2>4. RtcTyped'
    BY <1>1, <2>1, <2>3 DEF ClockReads, RtcTyped
  <2> QED
    BY <1>3, <2>1, <2>3, <2>4 DEF ClockReads
<1> QED
  BY <1>4, <1>5, <1>6, <1>7 DEF Call

-----------------------------------------------------------------------------
(* What it writes.                                                          *)

\* A time of day whose fields have two digits at most.
Readable(t) ==
    /\ t.second \in 0 .. 59 /\ t.minute \in 0 .. 59 /\ t.hour \in 0 .. 23

LEMMA TwoWrites ==
    ASSUME NEW f \in Fields, NEW n \in Nat, n < 60
    PROVE  /\ FieldWrites(f, n) = <<FieldWrites(f, n)[1], FieldWrites(f, n)[2]>>
           /\ FieldWrites(f, n)[1][1] = IF n = 0 THEN 79 ELSE Column(f)
           /\ FieldWrites(f, n)[2][1] = IF n = 0 THEN 78 ELSE Column(f) + 1
           /\ FieldWrites(f, n)[1][2] = n \div 10
           /\ FieldWrites(f, n)[2][2] = n % 10
<1>1. n < 10 => TwoDigits(n) = <<0, n>>
  BY DEF TwoDigits, int_to_string
<1>2. n >= 10 => TwoDigits(n) = <<n \div 10, n % 10>>
  <2>1. n >= 10 => int_to_string(n) = <<n \div 10, n % 10>>
    BY DEF int_to_string
  <2>2. Len(<<n \div 10, n % 10>>) # 1
    OBVIOUS
  <2> QED
    BY <2>1, <2>2 DEF TwoDigits
<1>3. n < 10 => n \div 10 = 0 /\ n % 10 = n
  OBVIOUS
<1>4. TwoDigits(n)[1] = n \div 10 /\ TwoDigits(n)[2] = n % 10
  BY <1>1, <1>2, <1>3
<1>5. FieldWrites(f, n) =
         IF n = 0 THEN << <<79, 0>>, <<78, 0>> >>
         ELSE << <<Column(f), n \div 10>>, <<Column(f) + 1, n % 10>> >>
  BY <1>4 DEF FieldWrites
<1> QED
  BY <1>5

\* A pair put behind a sequence.
LEMMA PairBehind ==
    ASSUME NEW S, NEW q \in Seq(S), NEW g \in S, NEW h \in S,
           NEW r, r = q \o <<g, h>>
    PROVE  /\ r \in Seq(S) /\ Len(r) = Len(q) + 2
           /\ \A i \in 1 .. Len(q) : r[i] = q[i]
           /\ r[Len(q) + 1] = g /\ r[Len(q) + 2] = h
<1> DEFINE z == <<g, h>>
<1>1. z \in Seq(S) /\ Len(z) = 2 /\ z[1] = g /\ z[2] = h
  OBVIOUS
<1> HIDE DEF z
<1>2. r = q \o z
  BY DEF z
<1>3. /\ r \in Seq(S) /\ Len(r) = Len(q) + Len(z)
      /\ \A i \in 1 .. Len(q) + Len(z) :
            r[i] = IF i <= Len(q) THEN q[i] ELSE z[i - Len(q)]
  BY <1>1, <1>2, ConcatProperties
<1>4. Len(q) \in Nat
  OBVIOUS
<1>5. \A i \in 1 .. Len(q) : r[i] = q[i]
  BY <1>1, <1>3, <1>4
<1>6. r[Len(q) + 1] = z[1] /\ r[Len(q) + 2] = z[2]
  BY <1>1, <1>3, <1>4
<1> QED
  BY <1>1, <1>3, <1>5, <1>6

\* Four pairs one after the other.
LEMMA FourPairs ==
    ASSUME NEW a, NEW b, NEW c, NEW d, NEW e, NEW f, NEW g, NEW h, NEW r,
           r = <<a, b>> \o <<c, d>> \o <<e, f>> \o <<g, h>>
    PROVE  /\ Len(r) = 8
           /\ r[1] = a /\ r[2] = b /\ r[3] = c /\ r[4] = d
           /\ r[5] = e /\ r[6] = f /\ r[7] = g /\ r[8] = h
<1> DEFINE S == {a, b, c, d, e, f, g, h}
           o == <<a, b>>
           p == o \o <<c, d>>
           q == p \o <<e, f>>
           z == q \o <<g, h>>
<1>p. p = o \o <<c, d>>
  OBVIOUS
<1>q. q = p \o <<e, f>>
  OBVIOUS
<1>z. z = q \o <<g, h>> /\ r = z
  OBVIOUS
<1>1. o \in Seq(S) /\ Len(o) = 2 /\ o[1] = a /\ o[2] = b
  OBVIOUS
<1>2. c \in S /\ d \in S /\ e \in S /\ f \in S /\ g \in S /\ h \in S
  OBVIOUS
<1> HIDE DEF S, o, p, q, z
<1>3. /\ p \in Seq(S) /\ Len(p) = Len(o) + 2
      /\ \A i \in 1 .. Len(o) : p[i] = o[i]
      /\ p[Len(o) + 1] = c /\ p[Len(o) + 2] = d
  <2>1. o \in Seq(S) /\ c \in S /\ d \in S
    BY <1>1, <1>2
  <2> QED
    BY <1>p, <2>1, PairBehind
<1>4. /\ q \in Seq(S) /\ Len(q) = Len(p) + 2
      /\ \A i \in 1 .. Len(p) : q[i] = p[i]
      /\ q[Len(p) + 1] = e /\ q[Len(p) + 2] = f
  <2>1. p \in Seq(S) /\ e \in S /\ f \in S
    BY <1>2, <1>3
  <2> QED
    BY <1>q, <2>1, PairBehind
<1>6. /\ Len(z) = Len(q) + 2
      /\ \A i \in 1 .. Len(q) : z[i] = q[i]
      /\ z[Len(q) + 1] = g /\ z[Len(q) + 2] = h
  <2>1. z = q \o <<g, h>> /\ q \in Seq(S) /\ g \in S /\ h \in S
    BY <1>z, <1>2, <1>4
  <2> QED
    BY <2>1, PairBehind
<1>7. p[1] = a /\ p[2] = b /\ p[3] = c /\ p[4] = d /\ Len(p) = 4
  BY <1>1, <1>3
<1>8. /\ q[1] = a /\ q[2] = b /\ q[3] = c /\ q[4] = d
      /\ q[5] = e /\ q[6] = f /\ Len(q) = 6
  BY <1>4, <1>7
<1> QED
  BY <1>6, <1>8, <1>z

\* The eight writes of a round: two a field, seconds first, and the colons.
LEMMA RoundOfWrites ==
    ASSUME NEW t, Readable(t)
    PROVE  /\ Len(Writes(t)) = 8
           /\ Writes(t)[1] = FieldWrites("second", t.second)[1]
           /\ Writes(t)[2] = FieldWrites("second", t.second)[2]
           /\ Writes(t)[3] = FieldWrites("minute", t.minute)[1]
           /\ Writes(t)[4] = FieldWrites("minute", t.minute)[2]
           /\ Writes(t)[5] = FieldWrites("hour", t.hour)[1]
           /\ Writes(t)[6] = FieldWrites("hour", t.hour)[2]
           /\ Writes(t)[7] = <<77, Colon>> /\ Writes(t)[8] = <<74, Colon>>
<1>1. ASSUME NEW f \in Fields, NEW n \in Nat, n < 60
      PROVE  FieldWrites(f, n) = <<FieldWrites(f, n)[1], FieldWrites(f, n)[2]>>
  BY <1>1, TwoWrites, Zenon
<1>2. /\ t.second \in Nat /\ t.minute \in Nat /\ t.hour \in Nat
      /\ t.second < 60 /\ t.minute < 60 /\ t.hour < 60
      /\ "second" \in Fields /\ "minute" \in Fields /\ "hour" \in Fields
  BY DEF Readable, Fields
<1> DEFINE x == FieldWrites("second", t.second)
           y == FieldWrites("minute", t.minute)
           z == FieldWrites("hour", t.hour)
<1>3. x = <<x[1], x[2]>> /\ y = <<y[1], y[2]>> /\ z = <<z[1], z[2]>>
  BY <1>1, <1>2
<1>4. Writes(t) = x \o y \o z \o << <<77, Colon>>, <<74, Colon>> >>
  BY DEF Writes
<1> HIDE DEF x, y, z
<1>5. Writes(t) = <<x[1], x[2]>> \o <<y[1], y[2]>> \o <<z[1], z[2]>>
                    \o << <<77, Colon>>, <<74, Colon>> >>
  BY <1>3, <1>4, Zenon
<1> QED
  BY <1>5, FourPairs DEF x, y, z

\* Each goes to a column of the clock.
LEMMA WritesInColumns ==
    ASSUME NEW t, Readable(t), NEW i \in 1 .. 8
    PROVE  Writes(t)[i][1] \in Columns /\ Writes(t)[i][2] \in Int
<1>1. /\ t.second \in Nat /\ t.minute \in Nat /\ t.hour \in Nat
      /\ t.second < 60 /\ t.minute < 60 /\ t.hour < 60
      /\ "second" \in Fields /\ "minute" \in Fields /\ "hour" \in Fields
  BY DEF Readable, Fields
<1>2. ASSUME NEW f \in Fields, NEW n \in Nat, n < 60
      PROVE  /\ FieldWrites(f, n)[1][1] \in Columns /\ FieldWrites(f, n)[1][2] \in Int
             /\ FieldWrites(f, n)[2][1] \in Columns /\ FieldWrites(f, n)[2][2] \in Int
  <2>1. Column(f) \in {72, 75, 78}
    BY DEF Column, Fields
  <2>2. CASE n = 0
    BY <2>2, TwoWrites DEF Columns
  <2>3. CASE n # 0
    <3>1. n \div 10 \in Int /\ n % 10 \in Int
      OBVIOUS
    <3>2. Column(f) \in Columns /\ Column(f) + 1 \in Columns
      BY <2>1 DEF Columns
    <3>3. /\ FieldWrites(f, n)[1][1] = Column(f) /\ FieldWrites(f, n)[1][2] = n \div 10
          /\ FieldWrites(f, n)[2][1] = Column(f) + 1 /\ FieldWrites(f, n)[2][2] = n % 10
      BY <1>2, <2>3, TwoWrites
    <3> QED
      BY <3>1, <3>2, <3>3
  <2> QED
    BY <2>2, <2>3
<1>3. 77 \in Columns /\ 74 \in Columns /\ Colon \in Int
  BY DEF Columns, Colon
<1>4. CASE i \in {1, 2, 3, 4, 5, 6}
  <2> DEFINE x == FieldWrites("second", t.second)
             y == FieldWrites("minute", t.minute)
             z == FieldWrites("hour", t.hour)
  <2>1. Writes(t)[i] \in {x[1], x[2], y[1], y[2], z[1], z[2]}
    BY <1>4, RoundOfWrites
  <2>2. \A p \in {x[1], x[2], y[1], y[2], z[1], z[2]} : p[1] \in Columns /\ p[2] \in Int
    BY <1>1, <1>2
  <2> QED
    BY <2>1, <2>2
<1>5. CASE i \in {7, 8}
  BY <1>3, <1>5, RoundOfWrites
<1> QED
  BY <1>4, <1>5

-----------------------------------------------------------------------------
(* What the corner shows.                                                   *)

\* A column that none of the writes w from the i-th to the n-th went to but the i-th
\* shows what that one put there.
LastWritesStand(w, n) ==
    \A i \in 1 .. n :
        (\A j \in 1 .. n : j > i => w[j][1] # w[i][1]) => face[w[i][1]] = w[i][2]

FaceInv ==
    /\ written \in 0 .. 8 /\ face \in [Columns -> Int]
    /\ pc # "done" => written = 0
    /\ LastWritesStand(Writes(Local(time)), written)

\* The time read, seven hours on, is one of two digits a field.
LEMMA LocalReadable ==
    ASSUME ClockReads, pc = "done"
    PROVE  Readable(Local(time))
<1>1. /\ time \in [Fields -> Int] /\ time.second \in 0 .. 59
      /\ time.minute \in 0 .. 59 /\ time.hour \in 0 .. 23
  BY DEF ClockReads, RtcTyped
<1>2. Local(time) = [time EXCEPT !["hour"] = (time["hour"] + 7) % 24]
  BY DEF Local
<1>3. (time["hour"] + 7) % 24 \in 0 .. 23
  BY <1>1
<1>4. /\ Local(time).second = time.second /\ Local(time).minute = time.minute
      /\ Local(time).hour = (time["hour"] + 7) % 24
  BY <1>1, <1>2 DEF Fields
<1> QED
  BY <1>1, <1>3, <1>4 DEF Readable

\* A full round leaves the fields that are told right.
LEMMA RoundTells ==
    ASSUME NEW t, Readable(t), face \in [Columns -> Int],
           LastWritesStand(Writes(t), 8)
    PROVE  Shows(t, Telling(t)) /\ face[74] = Colon /\ face[77] = Colon
<1> DEFINE w == Writes(t)
<1>1. /\ t.second \in Nat /\ t.minute \in Nat /\ t.hour \in Nat
      /\ t.second < 60 /\ t.minute < 60 /\ t.hour < 60
      /\ "second" \in Fields /\ "minute" \in Fields /\ "hour" \in Fields
  BY DEF Readable, Fields
<1>3. /\ Column("second") = 78 /\ Column("minute") = 75 /\ Column("hour") = 72
  BY DEF Column
<1>4. /\ w[1][1] = IF t.second = 0 THEN 79 ELSE 78
      /\ w[2][1] = IF t.second = 0 THEN 78 ELSE 79
      /\ w[1][2] = t.second \div 10 /\ w[2][2] = t.second % 10
      /\ w[3][1] = IF t.minute = 0 THEN 79 ELSE 75
      /\ w[4][1] = IF t.minute = 0 THEN 78 ELSE 76
      /\ w[3][2] = t.minute \div 10 /\ w[4][2] = t.minute % 10
      /\ w[5][1] = IF t.hour = 0 THEN 79 ELSE 72
      /\ w[6][1] = IF t.hour = 0 THEN 78 ELSE 73
      /\ w[5][2] = t.hour \div 10 /\ w[6][2] = t.hour % 10
      /\ w[7][1] = 77 /\ w[7][2] = Colon /\ w[8][1] = 74 /\ w[8][2] = Colon
  <2>1. /\ w[1] = FieldWrites("second", t.second)[1]
        /\ w[2] = FieldWrites("second", t.second)[2]
        /\ w[3] = FieldWrites("minute", t.minute)[1]
        /\ w[4] = FieldWrites("minute", t.minute)[2]
        /\ w[5] = FieldWrites("hour", t.hour)[1]
        /\ w[6] = FieldWrites("hour", t.hour)[2]
        /\ w[7] = <<77, Colon>> /\ w[8] = <<74, Colon>>
    BY RoundOfWrites
  <2> HIDE DEF w
  <2>2. /\ w[1][1] = IF t.second = 0 THEN 79 ELSE 78
        /\ w[2][1] = IF t.second = 0 THEN 78 ELSE 79
        /\ w[1][2] = t.second \div 10 /\ w[2][2] = t.second % 10
    BY <1>1, <1>3, <2>1, TwoWrites
  <2>3. /\ w[3][1] = IF t.minute = 0 THEN 79 ELSE 75
        /\ w[4][1] = IF t.minute = 0 THEN 78 ELSE 76
        /\ w[3][2] = t.minute \div 10 /\ w[4][2] = t.minute % 10
    BY <1>1, <1>3, <2>1, TwoWrites
  <2>4. /\ w[5][1] = IF t.hour = 0 THEN 79 ELSE 72
        /\ w[6][1] = IF t.hour = 0 THEN 78 ELSE 73
        /\ w[5][2] = t.hour \div 10 /\ w[6][2] = t.hour % 10
    BY <1>1, <1>3, <2>1, TwoWrites
  <2>5. w[7][1] = 77 /\ w[7][2] = Colon /\ w[8][1] = 74 /\ w[8][2] = Colon
    BY <2>1
  <2> QED
    BY <2>2, <2>3, <2>4, <2>5
<1>5. ASSUME NEW i \in 1 .. 8, \A j \in 1 .. 8 : j > i => w[j][1] # w[i][1]
      PROVE  face[w[i][1]] = w[i][2]
  BY <1>5 DEF LastWritesStand
<1> HIDE DEF w
<1>6. face[74] = Colon /\ face[77] = Colon
  <2>1. \A j \in 1 .. 8 : j > 8 => w[j][1] # w[8][1]
    OBVIOUS
  <2>2. \A j \in 1 .. 8 : j > 7 => w[j][1] # w[7][1]
    BY <1>4
  <2> QED
    BY <1>4, <1>5, <2>1, <2>2
<1>7. ASSUME t.hour # 0
      PROVE  face[72] = t.hour \div 10 /\ face[73] = t.hour % 10
  <2>1. \A j \in 1 .. 8 : j > 5 => w[j][1] # w[5][1]
    BY <1>4, <1>7
  <2>2. \A j \in 1 .. 8 : j > 6 => w[j][1] # w[6][1]
    BY <1>4, <1>7
  <2> QED
    BY <1>4, <1>5, <1>7, <2>1, <2>2
<1>8. ASSUME t.minute # 0
      PROVE  face[75] = t.minute \div 10 /\ face[76] = t.minute % 10
  <2>1. \A j \in 1 .. 8 : j > 3 => w[j][1] # w[3][1]
    BY <1>4, <1>8
  <2>2. \A j \in 1 .. 8 : j > 4 => w[j][1] # w[4][1]
    BY <1>4, <1>8
  <2> QED
    BY <1>4, <1>5, <1>8, <2>1, <2>2
<1>9. ASSUME t.minute # 0, t.hour # 0
      PROVE  face[78] = t.second \div 10 /\ face[79] = t.second % 10
  <2>1. \A j \in 1 .. 8 : j > 1 => w[j][1] # w[1][1]
    BY <1>4, <1>9
  <2>2. \A j \in 1 .. 8 : j > 2 => w[j][1] # w[2][1]
    BY <1>4, <1>9
  <2>3. face[w[1][1]] = w[1][2] /\ face[w[2][1]] = w[2][2]
    BY <1>5, <2>1, <2>2
  <2> QED
    BY <1>1, <1>4, <2>3
<1> QED
  BY <1>3, <1>6, <1>7, <1>8, <1>9 DEF Shows, Telling

-----------------------------------------------------------------------------
(* The steps of the program.                                                *)

\* Put makes the next of the writes, which the earlier ones do not outlive.
LEMMA PutStands ==
    ASSUME ClockReads, FaceInv, Put
    PROVE  FaceInv'
<1>1. /\ pc = "done" /\ Readable(Local(time)) /\ Len(Writes(Local(time))) = 8
  BY LocalReadable, RoundOfWrites DEF Put
<1>2. /\ written \in 0 .. 7 /\ written' = written + 1 /\ pc' = pc /\ time' = time
  BY <1>1 DEF Put, FaceInv, rtcVars, callVars
<1>3. PICK w : w = Writes(Local(time))
  OBVIOUS
<1>4. Writes(Local(time))' = w
  BY <1>2, <1>3
<1>5. PICK c \in Columns, v \in Int : w[written + 1][1] = c /\ w[written + 1][2] = v
  BY <1>1, <1>2, <1>3, WritesInColumns
<1>6. face' = [face EXCEPT ![c] = v]
  BY <1>3, <1>5 DEF Put
<1>7. /\ face' \in [Columns -> Int] /\ face'[c] = v
      /\ \A d \in Columns \ {c} : face'[d] = face[d]
  BY <1>5, <1>6 DEF FaceInv
<1>8. ASSUME NEW i \in 1 .. written',
             \A j \in 1 .. written' : j > i => w[j][1] # w[i][1]
      PROVE  face'[w[i][1]] = w[i][2]
  <2>1. CASE i = written + 1
    BY <1>5, <1>7, <2>1
  <2>2. CASE i # written + 1
    <3>1. /\ i \in 1 .. written /\ written + 1 \in 1 .. written' /\ written + 1 > i
          /\ i \in 1 .. 8
      BY <1>2, <2>2
    <3>2. w[i][1] \in Columns \ {c}
      BY <1>1, <1>3, <1>5, <1>8, <3>1, WritesInColumns
    <3>3. \A j \in 1 .. written : j > i => w[j][1] # w[i][1]
      BY <1>2, <1>8
    <3>4. face[w[i][1]] = w[i][2]
      BY <1>3, <3>1, <3>3 DEF FaceInv, LastWritesStand
    <3> QED
      BY <1>7, <3>2, <3>4
  <2> QED
    BY <2>1, <2>2
<1>9. LastWritesStand(Writes(Local(time)), written)'
  BY <1>4, <1>8 DEF LastWritesStand
<1> QED
  BY <1>1, <1>2, <1>7, <1>9 DEF FaceInv

\* No other step writes while a round is under way.
LEMMA OthersStand ==
    ASSUME FaceInv,
           \/ RtcNext /\ UNCHANGED <<face, written>>
           \/ Again
           \/ UNCHANGED clockVars
    PROVE  FaceInv'
<1>1. ASSUME UNCHANGED <<face, written, pc, time>>
      PROVE  FaceInv'
  BY <1>1 DEF FaceInv, LastWritesStand
<1>2. ASSUME written' = 0, UNCHANGED face
      PROVE  FaceInv'
  BY <1>2 DEF FaceInv, LastWritesStand
<1>3. CASE RtcNext /\ UNCHANGED <<face, written>>
  <2>1. CASE BeginUpdate \/ ChangeRegister
    BY <1>1, <1>3, <2>1 DEF BeginUpdate, ChangeRegister, callVars
  <2>2. CASE Call
    <3>1. pc # "done"
      BY <2>2 DEF Call, Wait, ReadRegister, Compare, Convert
    <3> QED
      BY <1>2, <1>3, <3>1 DEF FaceInv
  <2> QED
    BY <1>3, <2>1, <2>2 DEF RtcNext
<1>4. CASE Again
  BY <1>2, <1>4 DEF Again
<1>5. CASE UNCHANGED clockVars
  BY <1>1, <1>5 DEF clockVars, rtcVars, callVars
<1> QED
  BY <1>3, <1>4, <1>5

\* The program and the chip keep what is read legible.
LEMMA ClockReadsStep ==
    ASSUME ClockReads, [ClockNext]_clockVars
    PROVE  ClockReads'
<1>1. ASSUME UNCHANGED rtcVars
      PROVE  ClockReads'
  <2>1. /\ UNCHANGED <<chip, binary, hours24, now, stale, updates, shown>>
        /\ UNCHANGED <<pc, next, pass, last, time>>
    BY <1>1 DEF rtcVars, chipVars, callVars
  <2>2. \A t : Encoded(t)' = Encoded(t)
    BY <2>1, EncodedStays
  <2>3. RtcTyped'
    BY <2>1 DEF ClockReads, RtcTyped
  <2>4. \A f : Legible(chip, f)' <=> Legible(chip, f)
    BY <2>1, <2>2 DEF Legible
  <2>5. \A f : Legible(time, f)' <=> Legible(time, f)
    BY <2>1, <2>2 DEF Legible
  <2> QED
    BY <2>1, <2>3, <2>4, <2>5 DEF ClockReads
<1>2. CASE RtcNext
  BY <1>2, ChipReads, CallReads DEF RtcNext
<1>3. CASE Put
  BY <1>1, <1>3 DEF Put
<1>4. CASE Again
  <2>1. /\ UNCHANGED <<chip, binary, hours24, now, stale, next, time>>
        /\ pc' = "wait" /\ pass' = "first" /\ last' = Zero
        /\ updates' \in 0 .. 1
    BY <1>4 DEF Again
  <2>2. \A t : Encoded(t)' = Encoded(t)
    BY <2>1, EncodedStays
  <2>3. Zero \in [Fields -> Int]
    BY DEF Zero, Fields
  <2>4. RtcTyped'
    BY <2>1, <2>3, RtcConstants DEF ClockReads, RtcTyped
  <2>5. \A f \in Fields : Legible(chip, f)'
    BY <2>1, <2>2 DEF ClockReads, Legible
  <2> QED
    BY <2>1, <2>4, <2>5 DEF ClockReads
<1>5. CASE UNCHANGED clockVars
  BY <1>1, <1>5 DEF clockVars
<1> QED
  BY <1>2, <1>3, <1>4, <1>5 DEF ClockNext

\* After every round of writes the corner reads as the time that was read, in
\* the fields the program tells right, whatever the coding of the chip and however
\* many updates the chip makes meanwhile.
THEOREM CornerShowsTime == ClockSpec => []FaceShowsTime
<1> DEFINE Inv == ClockReads /\ FaceInv
<1>1. ClockInit => Inv
  <2>1. ClockInit => ClockReads
    BY ReadsInit DEF ClockInit
  <2>2. ClockInit => FaceInv
    BY DEF ClockInit, FaceInv, LastWritesStand, Columns, Blank
  <2> QED
    BY <2>1, <2>2
<1>2. Inv /\ [ClockNext]_clockVars => Inv'
  BY ClockReadsStep, PutStands, OthersStand DEF ClockNext
<1>3. Inv => FaceShowsTime
  <2> SUFFICES ASSUME ClockReads, FaceInv, Told
               PROVE  /\ Shows(Local(time), Telling(Local(time)))
                      /\ face[74] = Colon /\ face[77] = Colon
    BY DEF FaceShowsTime
  <2>1. Readable(Local(time))
    BY LocalReadable DEF Told
  <2>2. written = 8
    BY <2>1, RoundOfWrites DEF Told
  <2> QED
    BY <2>1, <2>2, RoundTells DEF FaceInv
<1> QED
  BY <1>1, <1>2, <1>3, PTL DEF ClockSpec

\* The next call knows nothing of the one before, and the history begins anew: the
\* chip counts from now, or from the second before if an update is in progress.
LEMMA AgainInv ==
    ASSUME RtcTyped, Again, NEW s \in Day, ChipFrom(s)
    PROVE  RtcTyped' /\ \E t \in Day : ChipFrom(t)' /\ CallFrom(t)'
<1>1. /\ UNCHANGED <<chip, binary, hours24, now, stale, next, time>>
      /\ pc' = "wait" /\ pass' = "first" /\ last' = Zero
      /\ shown' = IF stale # {} THEN {} ELSE {now}
      /\ updates' = IF stale # {} THEN 1 ELSE 0
  BY DEF Again, UpdateInProgress
<1>2. (Encoded(now))' = Encoded(now)
  BY <1>1 DEF Encoded, HourShown
<1>3. RtcTyped'
  BY <1>1, RtcConstants DEF RtcTyped, Zero, Fields
<1>4. updates \in Nat /\ now = TimeAt(s, updates) /\ now \in Day
  BY TimeAtInDay DEF ChipFrom, RtcTyped
<1>5. CASE stale = {}
  <2>1. now = TimeAt(now, 0)
    BY <1>4, TimeAtInDay
  <2>2. ChipFrom(now)'
    BY <1>1, <1>2, <1>4, <1>5, <2>1 DEF ChipFrom
  <2> QED
    BY <1>1, <1>3, <1>4, <2>2 DEF CallFrom, ReadIsInstant
<1>6. CASE stale # {}
  <2> DEFINE before == TimeAt(s, updates - 1)
  <2>1. updates - 1 \in Nat /\ updates = (updates - 1) + 1
    BY <1>4, <1>6 DEF ChipFrom
  <2>2. before \in Day /\ now = (before + 1) % 86400
    <3>1. PICK k \in Nat : k = updates - 1
      BY <2>1
    <3>2. before = TimeAt(s, k) /\ now = TimeAt(s, k + 1)
      <4> HIDE DEF before
      <4>1. updates = k + 1
        BY <2>1, <3>1
      <4>2. before = TimeAt(s, k)
        BY <3>1 DEF before
      <4> QED
        BY <1>4, <4>1, <4>2
    <3> HIDE DEF before
    <3> QED
      BY <3>1, <3>2, TimeAtInDay
  <2>3. TimeAt(before, 0) = before /\ TimeAt(before, 1) = (TimeAt(before, 0) + 1) % 86400
    <3>1. 0 \in Nat /\ 0 + 1 = 1
      OBVIOUS
    <3> HIDE DEF before
    <3> QED
      BY <2>2, <3>1, TimeAtInDay
  <2>4. \A f \in stale : chip[f] = Encoded(before)[f]
    BY DEF ChipFrom
  <2> HIDE DEF before
  <2>5. PICK t \in Day : t = before
    BY <2>2
  <2>6. (Encoded(t))' = Encoded(t) /\ updates' = 1 /\ 1 - 1 = 0
    BY <1>1, <1>6 DEF Encoded, HourShown
  <2>7. ChipFrom(t)'
    BY <1>1, <1>2, <1>6, <2>2, <2>3, <2>4, <2>5, <2>6 DEF ChipFrom
  <2> QED
    BY <1>1, <1>3, <2>5, <2>7 DEF CallFrom, ReadIsInstant
<1> QED
  BY <1>5, <1>6

\* In each of the calls the program makes, one after the other, read_rtc leaves a
\* time that the chip showed as a whole during that call.
THEOREM EveryCallReadsInstant ==
    ASSUME UpdatesPerCall < 60
    PROVE  ClockSpec => []ReadIsInstant
<1>1. ClockInit => RtcInv
  BY RtcInitInv DEF ClockInit
<1>2. RtcInv /\ [ClockNext]_clockVars => RtcInv'
  <2> SUFFICES ASSUME RtcInv, [ClockNext]_clockVars PROVE RtcInv'
    OBVIOUS
  <2>1. CASE RtcNext \/ UNCHANGED rtcVars
    BY <2>1, RtcStepInv
  <2>2. CASE Put
    BY <2>2, RtcStepInv DEF Put
  <2>3. CASE Again
    <3>1. PICK s \in Day : ChipFrom(s) /\ CallFrom(s)
      BY DEF RtcInv
    <3> QED
      BY <2>3, <3>1, AgainInv DEF RtcInv
  <2>4. CASE UNCHANGED clockVars
    BY <2>4, RtcStepInv DEF clockVars
  <2> QED
    BY <2>1, <2>2, <2>3, <2>4 DEF ClockNext
<1>3. RtcInv => ReadIsInstant
  BY DEF RtcInv, CallFrom
<1> QED
  BY <1>1, <1>2, <1>3, PTL DEF ClockSpec
=============================================================================
