------------------------------ MODULE AtaProofs ------------------------------
(***************************************************************************)
(* Theorems about the disk driver: what write_blocks is given comes to the *)
(* blocks it names, read_blocks delivers what was written last, for any    *)
(* number of blocks a call and words a block, wherever the device is when  *)
(* the next call begins.                                                    *)
(*                                                                         *)
(* A write returns when the device has taken the last word, not when it    *)
(* has stored the last block.  The invariant therefore speaks of the       *)
(* medium to come: the blocks with the one the device still holds.         *)
(***************************************************************************)
EXTENDS Ata, InductionLemmas, SequenceTheorems

-----------------------------------------------------------------------------
(* The invariant.                                                           *)

Contents == Int \X Int
BlockContents == [Words -> Contents]
Memory(n) == [1 .. HALF_BLOCK_SIZE * n -> Contents]
Calls == [op : {"read", "write"},
          pc : {"idle", "wait", "select", "command", "busy", "ready", "data"},
          address : Nat, count : Nat, port : Nat, block : Nat, word : Nat,
          memory : UNION {Memory(n) : n \in Nat}]

Drives == [busy : BOOLEAN, mode : {"none", "read", "write"}, at : Int, left : Int,
           buffer : Seq(Contents)]

AtaTyped ==
    /\ blocks \in [Blocks -> BlockContents] /\ written \in [Blocks -> BlockContents]
    /\ registers \in [head : Int, count : Int, low : Int, mid : Int, high : Int]
    /\ drive \in Drives
    /\ call \in [Programs -> Calls]
    /\ calls \in Nat

\* The request of a call is within the device, its buffer as long.
Requested(c) ==
    /\ c.count # 0 /\ c.address + c.count <= BlockCount
    /\ c.memory \in Memory(c.count)
    /\ c.block < c.count

\* The medium once the device has stored what it holds.
MediumToCome ==
    IF drive.busy /\ drive.mode = "write" /\ drive.buffer # <<>>
    THEN [blocks EXCEPT ![drive.at] = drive.buffer] ELSE blocks

\* Nothing is asked of the device; it may have to store the last block yet.
Settling ==
    /\ \/ drive = Resting
       \/ /\ drive.busy /\ drive.mode = "write" /\ drive.left = 1
          /\ drive.at \in Blocks /\ drive.buffer \in BlockContents
    /\ MediumToCome = written

\* The registers that call c has set.
Addressed(c) ==
    /\ drive = Resting /\ blocks = written /\ c.block = 0
    /\ \A k \in 1 .. c.port - 1 : registers[Ports[k]] = RegisterValue(c, Ports[k])

\* The device is at block b of call c.
Serving(c, b, busy, buffer) ==
    drive = [busy |-> busy, mode |-> c.op, at |-> c.address + b, left |-> c.count - b,
             buffer |-> buffer]

WordOf(c, b, w) == c.memory[HALF_BLOCK_SIZE * b + w]

\* What was written, with the first n blocks of call c.
Overwritten(c, n) ==
    [b \in Blocks |-> IF b \notin c.address .. c.address + n - 1 THEN written[b]
                      ELSE [w \in Words |-> WordOf(c, b - c.address, w)]]

Source(c) == blocks[c.address + c.block]

Reading(c) ==
    /\ blocks = written
    /\ \A b \in 0 .. c.block - 1, w \in Words : WordOf(c, b, w) = blocks[c.address + b][w]
    /\ c.pc = "busy" => \/ Serving(c, c.block, TRUE, <<>>)
                        \/ Serving(c, c.block, FALSE, Source(c))
    /\ c.pc = "ready" => Serving(c, c.block, FALSE, Source(c))
    /\ c.pc = "data" =>
          /\ c.word < HALF_BLOCK_SIZE
          /\ Serving(c, c.block, FALSE, drive.buffer)
          /\ Len(drive.buffer) = HALF_BLOCK_SIZE - c.word
          /\ \A k \in 1 .. Len(drive.buffer) : drive.buffer[k] = Source(c)[c.word + k]
          /\ \A w \in 1 .. c.word : WordOf(c, c.block, w) = Source(c)[w]

Writing(c) ==
    /\ MediumToCome = Overwritten(c, c.block)
    /\ c.pc = "busy" => \/ Serving(c, c.block, TRUE, <<>>)
                        \/ Serving(c, c.block, FALSE, <<>>)
                        \/ /\ c.block # 0 /\ drive.buffer \in BlockContents
                           /\ Serving(c, c.block - 1, TRUE, drive.buffer)
    /\ c.pc = "ready" => Serving(c, c.block, FALSE, <<>>)
    /\ c.pc = "data" =>
          /\ c.word < HALF_BLOCK_SIZE
          /\ Serving(c, c.block, FALSE, drive.buffer)
          /\ Len(drive.buffer) = c.word
          /\ \A k \in 1 .. c.word : drive.buffer[k] = WordOf(c, c.block, k)

\* Where the call c is, the others being idle.
Underway(c) ==
    /\ Requested(c)
    /\ c.pc = "wait" => Settling /\ c.block = 0 /\ c.port = 1
    /\ c.pc = "select" => Addressed(c) /\ c.port \in 1 .. 5
    /\ c.pc = "command" => Addressed(c) /\ c.port = 6
    /\ c.pc \in {"busy", "ready", "data"} => IF c.op = "read" THEN Reading(c) ELSE Writing(c)

Idling(p) == call[p].pc = "idle"

AtaInv ==
    /\ AtaTyped
    /\ \A p, q \in Programs : ~Idling(p) /\ ~Idling(q) => p = q
    /\ (\A p \in Programs : Idling(p)) => Settling
    /\ \A p \in Programs : ~Idling(p) => Underway(call[p])

-----------------------------------------------------------------------------
(* Numbers.                                                                 *)

\* The places of a buffer: one for each word of each block.
LEMMA PlaceFacts ==
    ASSUME NEW b \in Nat, NEW w \in Words
    PROVE  /\ HALF_BLOCK_SIZE * b + w \in Nat \ {0}
           /\ \A n \in Nat : b < n => HALF_BLOCK_SIZE * b + w \in 1 .. HALF_BLOCK_SIZE * n
           /\ \A e \in Nat, v \in Words :
                 HALF_BLOCK_SIZE * b + w = HALF_BLOCK_SIZE * e + v => b = e /\ w = v
<1>0. PICK h \in Nat \ {0} : h = HALF_BLOCK_SIZE
  BY AtaConstants
<1>1. w \in 1 .. h
  BY <1>0 DEF Words
<1>2. h * b \in Nat
  BY <1>0
<1>3. ASSUME NEW n \in Nat, b < n PROVE h * b + w \in 1 .. h * n
  <2>1. h * (b + 1) <= h * n
    BY <1>3
  <2>2. h * (b + 1) = h * b + h
    OBVIOUS
  <2>3. h * n \in Nat
    OBVIOUS
  <2> QED
    BY <1>1, <1>2, <2>1, <2>2, <2>3
<1>4. ASSUME NEW x \in Nat, NEW y \in Nat, NEW u \in 1 .. h, NEW v \in 1 .. h, x < y
      PROVE  h * x + u < h * y + v
  <2>1. h * (x + 1) <= h * y
    BY <1>4
  <2>2. h * (x + 1) = h * x + h
    OBVIOUS
  <2>3. h * x \in Nat /\ h * y \in Nat
    OBVIOUS
  <2> QED
    BY <2>1, <2>2, <2>3
<1>5. ASSUME NEW e \in Nat, NEW v \in 1 .. h, h * b + w = h * e + v PROVE b = e /\ w = v
  <2>1. h * e \in Nat
    OBVIOUS
  <2>2. ~(b < e) /\ ~(e < b)
    BY <1>1, <1>2, <1>4, <1>5, <2>1
  <2>3. b = e
    BY <2>2
  <2> QED
    BY <1>1, <1>2, <1>5, <2>3
<1>6. \A v \in Words : v \in 1 .. h
  BY <1>0 DEF Words
<1> QED
  BY <1>0, <1>1, <1>2, <1>3, <1>5, <1>6

\* The device's block number is the one the registers were set from, if it is of no
\* more bits than they hold: 28 in the code.
Addressable == BlockCount <= (((16 * Base) * Base) * Base)

LEMMA AddressDecoded ==
    ASSUME Addressable, NEW a \in Nat, a < BlockCount
    PROVE  a = (a % Base) + Base * (((a \div Base) % Base)
                 + Base * ((((a \div Base) \div Base) % Base)
                 + Base * ((((a \div Base) \div Base) \div Base) % 16)))
<1>0. Base \in Nat /\ Base > 0 /\ BlockCount \in Nat
  BY AtaConstants
<1>1. PICK m \in Nat : m = 16 * Base
  BY <1>0
<1>2. PICK n \in Nat : n = m * Base
  BY <1>0
<1>3. a < n * Base
  BY <1>0, <1>1, <1>2 DEF Addressable
<1>4. PICK q \in Nat : q = a \div Base /\ q < n /\ a = Base * q + (a % Base)
  BY <1>0, <1>3, DivisionFacts, QuotientBelow
<1>5. PICK r \in Nat : r = q \div Base /\ r < m /\ q = Base * r + (q % Base)
  BY <1>0, <1>2, <1>4, DivisionFacts, QuotientBelow
<1>6. PICK s \in Nat : s = r \div Base /\ s < 16 /\ r = Base * s + (r % Base)
  BY <1>0, <1>1, <1>5, DivisionFacts, QuotientBelow
<1>7. s % 16 = s
  BY <1>6
<1>8. a % Base \in Nat /\ q % Base \in Nat /\ r % Base \in Nat
  BY <1>0, DivisionFacts
<1> QED
  BY <1>0, <1>4, <1>5, <1>6, <1>7, <1>8
-----------------------------------------------------------------------------
(* Steps of the device.                                                     *)

\* A block is a sequence of its words.
LEMMA BlockFacts ==
    ASSUME NEW x \in BlockContents
    PROVE  /\ x \in Seq(Contents) /\ Len(x) = HALF_BLOCK_SIZE /\ x # <<>>
           /\ \A w \in Words : x[w] \in Contents
<1>1. HALF_BLOCK_SIZE \in Nat /\ HALF_BLOCK_SIZE > 0
  BY AtaConstants
<1>2. x \in [1 .. HALF_BLOCK_SIZE -> Contents]
  BY DEF BlockContents, Words
<1>3. x \in Seq(Contents) /\ Len(x) = HALF_BLOCK_SIZE
  BY <1>1, <1>2
<1> QED
  BY <1>1, <1>2, <1>3 DEF Words

\* A sequence of as many words is a block.
LEMMA FullBlock ==
    ASSUME NEW x \in Seq(Contents), Len(x) = HALF_BLOCK_SIZE
    PROVE  x \in BlockContents
  BY DEF BlockContents, Words

\* The device's state stays one.
LEMMA DriveTyped ==
    ASSUME drive \in Drives
    PROVE  /\ Resting \in Drives
           /\ \A busy \in BOOLEAN : NextBlock(busy) \in Drives
<1>1. <<>> \in Seq(Contents)
  OBVIOUS
<1>2. Resting \in Drives
  BY <1>1 DEF Resting, Drives
<1>3. ASSUME NEW busy \in BOOLEAN PROVE NextBlock(busy) \in Drives
  <2>1. drive.at + 1 \in Int /\ drive.left - 1 \in Int
    BY DEF Drives
  <2> QED
    BY <1>1, <1>2, <2>1 DEF NextBlock, Drives
<1> QED
  BY <1>2, <1>3

\* What the invariant says of the calls, when no call takes a step.
LEMMA OthersInv ==
    ASSUME AtaInv, UNCHANGED call, AtaTyped', Settling => Settling',
           \A c \in Calls : Underway(c) => Underway(c)'
    PROVE  AtaInv'
  BY DEF AtaInv, AtaTyped, Idling

\* The device reads a block: a read waits for it.
LEMMA FetchInv == AtaInv /\ Fetch => AtaInv'
<1> SUFFICES ASSUME AtaInv, Fetch PROVE AtaInv'
  OBVIOUS
<1> USE DEF AtaInv, AtaTyped, Fetch
<1>1. Settling => Settling'
  BY DEF Settling, Resting
<1>2. ASSUME NEW c \in Calls, Underway(c) PROVE Underway(c)'
  <2>1. drive.busy /\ drive.mode = "read"
    OBVIOUS
  <2>2. c.pc # "wait" /\ c.pc # "select" /\ c.pc # "command"
    BY <1>2, <2>1 DEF Underway, Settling, Addressed, Resting
  <2>3. Requested(c)
    BY <1>2 DEF Underway
  <2>4. c.op = "write" => ~Writing(c) \/ c.pc = "idle"
    BY <2>1, <2>2 DEF Writing, Serving, Calls
  <2>5. CASE c.pc \in {"busy", "ready", "data"}
    <3>1. c.op = "read" /\ Reading(c)
      BY <1>2, <2>4, <2>5 DEF Underway, Calls
    <3>2. c.pc = "busy"
      BY <2>1, <2>5, <3>1 DEF Reading, Serving
    <3>3. Serving(c, c.block, TRUE, <<>>)
      BY <2>1, <3>1, <3>2 DEF Reading, Serving
    <3>4. Serving(c, c.block, FALSE, Source(c))'
      BY <3>3 DEF Serving, Source
    <3>5. Reading(c)'
      BY <3>1, <3>2, <3>4 DEF Reading, Source, WordOf
    <3> QED
      BY <2>3, <3>1, <3>2, <3>5 DEF Underway, Requested
  <2>6. CASE c.pc = "idle"
    BY <2>3, <2>6 DEF Underway, Requested
  <2> QED
    BY <2>2, <2>5, <2>6 DEF Calls
<1>3. AtaTyped'
  <2>1. drive.at \in Blocks
    <3>1. ~Settling
      BY DEF Settling, Resting
    <3>2. PICK p \in Programs : ~Idling(p) /\ Underway(call[p])
      BY <3>1
    <3>3. PICK c \in Calls : c = call[p]
      BY <3>2
    <3>4. Underway(c) /\ c.pc # "idle"
      BY <3>2, <3>3 DEF Idling
    <3>5. c.pc \in {"busy", "ready", "data"}
      <4>1. c.pc \in {"idle", "wait", "select", "command", "busy", "ready", "data"}
        BY DEF Calls
      <4>2. c.pc # "wait"
        BY <3>1, <3>4 DEF Underway
      <4>3. ~Addressed(c)
        BY DEF Addressed, Resting
      <4>4. c.pc # "select" /\ c.pc # "command"
        BY <3>4, <4>3 DEF Underway
      <4> QED
        BY <3>4, <4>1, <4>2, <4>4
    <3>6. c.op = "read" /\ Reading(c)
      <4>1. c.op \in {"read", "write"}
        BY DEF Calls
      <4>2. drive.busy /\ drive.mode = "read"
        OBVIOUS
      <4>3. c.op = "write" => ~Writing(c)
        BY <3>5, <4>2 DEF Writing, Serving
      <4> QED
        BY <3>4, <3>5, <4>1, <4>3 DEF Underway
    <3>7. drive.at = c.address + c.block
      BY <3>5, <3>6 DEF Reading, Serving
    <3>8. c.address \in Nat /\ c.block \in Nat /\ c.count \in Nat
      BY DEF Calls
    <3>9. c.address + c.count <= BlockCount /\ c.block < c.count
      BY <3>4 DEF Underway, Requested
    <3>10. BlockCount \in Nat
      BY AtaConstants
    <3>11. c.address + c.block \in 0 .. BlockCount - 1
      BY <3>8, <3>9, <3>10, Z3
    <3> QED
      BY <3>7, <3>11 DEF Blocks
  <2>2. blocks[drive.at] \in Seq(Contents)
    BY <2>1, BlockFacts
  <2>3. drive' \in Drives
    BY <2>2 DEF Drives
  <2> QED
    BY <2>3
<1> QED
  BY <1>1, <1>2, <1>3, OthersInv

\* The device makes ready to take the first block of a write.
LEMMA AcceptInv == AtaInv /\ Accept => AtaInv'
<1> SUFFICES ASSUME AtaInv, Accept PROVE AtaInv'
  OBVIOUS
<1> USE DEF AtaInv, AtaTyped, Accept
<1>1. drive.busy /\ drive.mode = "write" /\ drive.buffer = <<>>
  OBVIOUS
<1>2. ~Settling
  BY BlockFacts DEF Settling, Resting
<1>3. ASSUME NEW c \in Calls, Underway(c) PROVE Underway(c)'
  <2>1. Requested(c) /\ c.pc # "wait" /\ c.pc # "select" /\ c.pc # "command"
    BY <1>1, <1>2, <1>3 DEF Underway, Addressed, Resting
  <2>2. CASE c.pc \in {"busy", "ready", "data"}
    <3>1. c.op = "write" /\ Writing(c)
      BY <1>1, <1>3, <2>2 DEF Underway, Calls, Reading, Serving
    <3>2. c.pc = "busy"
      BY <1>1, <2>2, <3>1 DEF Writing, Serving
    <3>3. Serving(c, c.block, TRUE, <<>>)
      BY <1>1, <3>1, <3>2, BlockFacts DEF Writing, Serving
    <3>4. Serving(c, c.block, FALSE, <<>>)'
      BY <3>3 DEF Serving
    <3>5. Overwritten(c, c.block)' = Overwritten(c, c.block)
      BY DEF Overwritten
    <3>6. MediumToCome' = MediumToCome
      BY <1>1 DEF MediumToCome
    <3>7. Writing(c)'
      BY <3>1, <3>2, <3>4, <3>5, <3>6 DEF Writing
    <3> QED
      BY <2>1, <3>1, <3>2, <3>7 DEF Underway, Requested
  <2>3. CASE c.pc = "idle"
    BY <2>1, <2>3 DEF Underway, Requested
  <2> QED
    BY <2>1, <2>2, <2>3 DEF Calls
<1>4. AtaTyped'
  BY DEF Drives
<1> QED
  BY <1>2, <1>3, <1>4, OthersInv

\* The device stores the block it was given: the medium to come is the same.
LEMMA StoreInv == AtaInv /\ Store => AtaInv'
<1> SUFFICES ASSUME AtaInv, Store PROVE AtaInv'
  OBVIOUS
<1> USE DEF AtaInv, AtaTyped, Store
<1>1. drive.busy /\ drive.mode = "write" /\ Len(drive.buffer) = HALF_BLOCK_SIZE
  OBVIOUS
<1>2. drive.buffer # <<>> /\ drive.buffer \in BlockContents
  <2>1. drive.buffer \in Seq(Contents)
    BY DEF Drives
  <2> QED
    BY <1>1, <2>1, FullBlock, BlockFacts
<1>3. MediumToCome = blocks'
  BY <1>1, <1>2 DEF MediumToCome
<1>4. MediumToCome' = blocks'
  BY DEF MediumToCome, NextBlock, Resting
<1>5. Settling => Settling'
  <2>1. Settling => drive.left = 1
    BY <1>1 DEF Settling, Resting
  <2> QED
    BY <1>3, <1>4, <2>1 DEF Settling, NextBlock
<1>6. ASSUME NEW c \in Calls, Underway(c) PROVE Underway(c)'
  <2>1. Requested(c) /\ c.pc # "select" /\ c.pc # "command"
    BY <1>1, <1>6 DEF Underway, Addressed, Resting
  <2>2. CASE c.pc \in {"busy", "ready", "data"}
    <3>1. c.op = "write" /\ Writing(c)
      BY <1>1, <1>6, <2>2 DEF Underway, Calls, Reading, Serving
    <3>2. c.pc = "busy"
      BY <1>1, <2>2, <3>1 DEF Writing, Serving
    <3>3. c.block # 0 /\ Serving(c, c.block - 1, TRUE, drive.buffer)
      BY <1>1, <1>2, <3>1, <3>2 DEF Writing, Serving
    <3>4. c.address \in Nat /\ c.block \in Nat /\ c.count \in Nat /\ c.block < c.count
      BY <2>1 DEF Calls, Requested
    <3> DEFINE b == c.block - 1
    <3>a. drive.left = c.count - b /\ drive.at = c.address + b
      BY <3>3 DEF Serving
    <3>5. drive.left # 1 /\ drive.left - 1 = c.count - c.block
      BY <3>4, <3>a, Z3
    <3>6. drive.at + 1 = c.address + c.block
      BY <3>4, <3>a, Z3
    <3>7. drive.mode = c.op
      BY <3>3 DEF Serving
    <3>8. Serving(c, c.block, FALSE, <<>>)'
      <4>1. drive' = [drive EXCEPT !.busy = FALSE, !.at = @ + 1, !.left = @ - 1,
                                   !.buffer = <<>>]
        BY <3>5 DEF NextBlock
      <4> QED
        BY <3>5, <3>6, <3>7, <4>1 DEF Serving, Drives
    <3>9. Overwritten(c, c.block)' = Overwritten(c, c.block)
      BY DEF Overwritten
    <3>10. Writing(c)'
      BY <1>3, <1>4, <3>1, <3>2, <3>8, <3>9 DEF Writing
    <3> QED
      BY <2>1, <3>1, <3>2, <3>10 DEF Underway, Requested
  <2>3. CASE c.pc = "wait"
    BY <1>5, <1>6, <2>1, <2>3 DEF Underway, Requested
  <2>4. CASE c.pc = "idle"
    BY <2>1, <2>4 DEF Underway, Requested
  <2> QED
    BY <2>1, <2>2, <2>3, <2>4 DEF Calls
<1>7. AtaTyped'
  <2>1. blocks' \in [Blocks -> BlockContents]
    BY <1>2
  <2>2. drive' \in Drives
    BY DriveTyped
  <2> QED
    BY <2>1, <2>2
<1> QED
  BY <1>5, <1>6, <1>7, OthersInv
-----------------------------------------------------------------------------
(* Steps of a call, the others being idle.                                  *)

LEMMA CallInv ==
    ASSUME AtaInv, NEW p \in Programs, \A q \in Programs \ {p} : Idling(q),
           NEW e \in Calls, call' = [call EXCEPT ![p] = e], AtaTyped',
           e.pc # "idle" => Underway(e)', e.pc = "idle" => Settling'
    PROVE  AtaInv'
<1>1. call'[p] = e /\ \A q \in Programs \ {p} : call'[q] = call[q]
  BY DEF AtaInv, AtaTyped
<1>2. \A q \in Programs \ {p} : Idling(q)'
  BY <1>1 DEF Idling
<1>3. Idling(p)' <=> e.pc = "idle"
  BY <1>1 DEF Idling
<1>4. \A q, r \in Programs : ~Idling(q)' /\ ~Idling(r)' => q = r
  BY <1>2
<1>5. (\A q \in Programs : Idling(q)') => Settling'
  BY <1>3
<1>6. \A q \in Programs : ~Idling(q)' => Underway(call[q])'
  BY <1>1, <1>2, <1>3
<1> QED
  BY <1>4, <1>5, <1>6 DEF AtaInv

\* A call in progress is the only one.
LEMMA CallFacts ==
    ASSUME AtaInv, NEW p \in Programs, call[p].pc # "idle"
    PROVE  /\ call[p] \in Calls /\ Underway(call[p])
           /\ \A q \in Programs \ {p} : Idling(q)
  BY DEF AtaInv, AtaTyped, Idling

LEMMA NoCallTyped ==
    NoCall \in Calls /\ NoCall.pc = "idle" /\ NoCall.port = 1 /\ NoCall.block = 0
<1>1. PICK m : m = <<>>
  OBVIOUS
<1>2. m \in Memory(0)
  <2>1. HALF_BLOCK_SIZE * 0 = 0
    BY AtaConstants
  <2>2. <<>> \in [1 .. 0 -> Contents]
    OBVIOUS
  <2> QED
    BY <1>1, <2>1, <2>2 DEF Memory
<1>3. m \in UNION {Memory(n) : n \in Nat}
  BY <1>2
<1>4. NoCall = [op |-> "read", pc |-> "idle", address |-> 0, count |-> 0,
                port |-> 1, block |-> 0, word |-> 0, memory |-> m]
  BY <1>1 DEF NoCall
<1> QED
  BY <1>3, <1>4 DEF Calls

LEMMA BeginInv ==
    ASSUME OneAtATime, AtaInv, NEW p \in Programs, Begin(p)
    PROVE  AtaInv'
<1>1. PICK op \in {"read", "write"}, address \in Blocks, count \in 1 .. MaxCount :
         /\ call[p].pc = "idle" /\ calls < MaxCalls
         /\ OneAtATime => \A q \in Programs : call[q].pc = "idle"
         /\ address + count <= BlockCount
         /\ calls' = calls + 1
         /\ call' = [call EXCEPT ![p] =
               [NoCall EXCEPT !.op = op, !.pc = "wait", !.address = address, !.count = count,
                   !.memory = [k \in 1 .. count * HALF_BLOCK_SIZE |->
                                  IF op = "write" THEN <<calls', k>> ELSE Noise]]]
         /\ UNCHANGED <<blocks, registers, drive, written>>
  BY Zenon DEF Begin
<1>2. calls' \in Nat
  BY <1>1 DEF AtaInv, AtaTyped
<1>3. PICK m : m = [k \in 1 .. count * HALF_BLOCK_SIZE |->
                       IF op = "write" THEN <<calls', k>> ELSE Noise]
  OBVIOUS
<1>4. count \in Nat /\ count # 0 /\ count * HALF_BLOCK_SIZE = HALF_BLOCK_SIZE * count
  BY AtaConstants
<1>5. m \in Memory(count)
  <2>1. m = [k \in 1 .. HALF_BLOCK_SIZE * count |->
                       IF op = "write" THEN <<calls', k>> ELSE Noise]
    BY <1>3, <1>4
  <2>2. \A k \in 1 .. HALF_BLOCK_SIZE * count :
            (IF op = "write" THEN <<calls', k>> ELSE Noise) \in Contents
    BY <1>2 DEF Contents, Noise
  <2> QED
    BY <2>1, <2>2 DEF Memory
<1>6. PICK e : e = [NoCall EXCEPT !.op = op, !.pc = "wait", !.address = address,
                                  !.count = count, !.memory = m]
  OBVIOUS
<1>a. /\ e \in Calls /\ e.pc = "wait" /\ e.address = address /\ e.count = count
      /\ e.port = 1 /\ e.block = 0 /\ e.memory = m
  <2>1. NoCall \in Calls /\ NoCall.port = 1 /\ NoCall.block = 0
    BY NoCallTyped
  <2>2. PICK memories : memories = UNION {Memory(n) : n \in Nat}
    OBVIOUS
  <2>3. m \in memories
    BY <1>4, <1>5, <2>2
  <2>4. Calls = [op : {"read", "write"},
                 pc : {"idle", "wait", "select", "command", "busy", "ready", "data"},
                 address : Nat, count : Nat, port : Nat, block : Nat, word : Nat,
                 memory : memories]
    BY <2>2 DEF Calls
  <2>5. address \in Nat
    BY AtaConstants DEF Blocks
  <2>6. PICK r \in Calls : r = NoCall
    BY <2>1
  <2>7. e = [r EXCEPT !.op = op, !.pc = "wait", !.address = address, !.count = count,
                      !.memory = m]
    BY <1>6, <2>6
  <2>8. e \in Calls
    BY <1>4, <2>3, <2>4, <2>5, <2>7
  <2>9. e.pc = "wait" /\ e.address = address /\ e.count = count /\ e.memory = m
    BY <2>4, <2>7
  <2>10. e.port = r.port /\ e.block = r.block
    BY <2>4, <2>7
  <2> QED
    BY <2>1, <2>6, <2>8, <2>9, <2>10
<1>7. call' = [call EXCEPT ![p] = e]
  BY <1>1, <1>3, <1>6, Zenon
<1>8. e \in Calls
  BY <1>a
<1>9. AtaTyped'
  BY <1>1, <1>2, <1>7, <1>8 DEF AtaInv, AtaTyped
<1>10. \A q \in Programs : Idling(q)
  BY <1>1 DEF Idling
<1>11. Settling'
  BY <1>1, <1>10 DEF AtaInv, Settling, MediumToCome
<1>12. Requested(e)
  BY <1>1, <1>4, <1>5, <1>a DEF Requested
<1>13. Underway(e)'
  BY <1>11, <1>12, <1>a DEF Underway, Requested
<1> QED
  BY <1>7, <1>a, <1>8, <1>9, <1>10, <1>13, CallInv

LEMMA BusyWaitInv ==
    ASSUME AtaInv, NEW p \in Programs, ATA_busy_wait(p)
    PROVE  AtaInv'
<1>1. PICK c : c = call[p]
  OBVIOUS
<1>2. c.pc \in {"wait", "busy"} /\ ~drive.busy
  BY <1>1 DEF ATA_busy_wait
<1>3. c \in Calls /\ Underway(c) /\ \A q \in Programs \ {p} : Idling(q)
  BY <1>1, <1>2, CallFacts
<1>4. PICK e : e = [c EXCEPT !.pc = IF c.pc = "wait" THEN "select" ELSE "ready"]
  OBVIOUS
<1>5. call' = [call EXCEPT ![p] = e] /\ UNCHANGED <<blocks, registers, drive, calls, written>>
  BY <1>1, <1>4 DEF ATA_busy_wait
<1>6. e \in Calls
  BY <1>3, <1>4 DEF Calls
<1>7. AtaTyped'
  BY <1>5, <1>6 DEF AtaInv, AtaTyped
<1>8. Requested(e)'
  BY <1>3, <1>4 DEF Underway, Requested, Calls
<1>9. CASE c.pc = "wait"
  <2>1. drive = Resting /\ blocks = written
    BY <1>2, <1>3, <1>9 DEF Underway, Settling, MediumToCome
  <2>2. e.pc = "select" /\ e.block = 0 /\ e.port = 1
    BY <1>3, <1>4, <1>9 DEF Underway, Calls
  <2>3. Addressed(e)'
    BY <1>5, <2>1, <2>2 DEF Addressed
  <2>4. Underway(e)'
    BY <1>8, <2>2, <2>3 DEF Underway
  <2> QED
    BY <1>3, <1>5, <1>6, <1>7, <2>2, <2>4, CallInv
<1>10. CASE c.pc = "busy"
  <2>1. /\ e.pc = "ready" /\ e.op = c.op /\ e.block = c.block /\ e.address = c.address
        /\ e.count = c.count /\ e.memory = c.memory
    BY <1>3, <1>4, <1>10 DEF Calls
  <2>2. ASSUME c.op = "read" PROVE Underway(e)'
    <3>1. Reading(c)
      BY <1>3, <1>10, <2>2 DEF Underway
    <3>2. Serving(c, c.block, FALSE, Source(c))
      BY <1>2, <1>10, <3>1 DEF Reading, Serving
    <3>3. Serving(e, e.block, FALSE, Source(e))'
      BY <1>5, <2>1, <3>2 DEF Serving, Source
    <3>4. Reading(e)'
      BY <1>5, <2>1, <3>1, <3>3 DEF Reading, WordOf
    <3> QED
      BY <1>8, <2>1, <2>2, <3>4 DEF Underway
  <2>3. ASSUME c.op = "write" PROVE Underway(e)'
    <3>1. Writing(c)
      BY <1>3, <1>10, <2>3 DEF Underway
    <3>2. Serving(c, c.block, FALSE, <<>>)
      BY <1>2, <1>10, <3>1 DEF Writing, Serving
    <3>3. Serving(e, e.block, FALSE, <<>>)'
      BY <1>5, <2>1, <3>2 DEF Serving
    <3>4. Overwritten(e, e.block)' = Overwritten(c, c.block)
      BY <1>5, <2>1 DEF Overwritten, WordOf
    <3>5. Writing(e)'
      BY <1>5, <2>1, <3>1, <3>3, <3>4 DEF Writing, MediumToCome
    <3> QED
      BY <1>8, <2>1, <2>3, <3>5 DEF Underway
  <2>4. Underway(e)'
    BY <1>3, <2>2, <2>3 DEF Calls
  <2> QED
    BY <1>3, <1>5, <1>6, <1>7, <2>1, <2>4, CallInv
<1> QED
  BY <1>2, <1>9, <1>10

LEMMA DrqWaitInv ==
    ASSUME AtaInv, NEW p \in Programs, ATA_DRQ_wait(p)
    PROVE  AtaInv'
<1>1. PICK c : c = call[p]
  OBVIOUS
<1>2. c.pc = "ready"
  BY <1>1 DEF ATA_DRQ_wait
<1>3. c \in Calls /\ Underway(c) /\ \A q \in Programs \ {p} : Idling(q)
  BY <1>1, <1>2, CallFacts
<1>4. PICK e : e = [c EXCEPT !.pc = "data", !.word = 0]
  OBVIOUS
<1>5. call' = [call EXCEPT ![p] = e] /\ UNCHANGED <<blocks, registers, drive, calls, written>>
  BY <1>1, <1>3, <1>4 DEF ATA_DRQ_wait, AtaInv, AtaTyped
<1>6. e \in Calls
  BY <1>3, <1>4 DEF Calls
<1>7. AtaTyped'
  BY <1>5, <1>6 DEF AtaInv, AtaTyped
<1>8. Requested(e)'
  BY <1>3, <1>4 DEF Underway, Requested, Calls
<1>9. /\ e.pc = "data" /\ e.op = c.op /\ e.block = c.block /\ e.address = c.address
      /\ e.count = c.count /\ e.memory = c.memory /\ e.word = 0
  BY <1>3, <1>4 DEF Calls
<1>10. HALF_BLOCK_SIZE \in Nat /\ HALF_BLOCK_SIZE > 0
  BY AtaConstants
<1>11. ASSUME c.op = "read" PROVE Underway(e)'
  <2>1. Reading(c) /\ Serving(c, c.block, FALSE, Source(c))
    BY <1>2, <1>3, <1>11 DEF Underway, Reading
  <2>2. Serving(e, e.block, FALSE, drive.buffer)' /\ drive.buffer = Source(c)
    BY <1>5, <1>9, <2>1 DEF Serving
  <2>3. Source(c) \in BlockContents
    <3>1. c.address + c.block \in Blocks
      BY <1>3, AtaConstants DEF Underway, Requested, Calls, Blocks
    <3> QED
      BY <3>1 DEF Source, AtaInv, AtaTyped
  <2>4. Source(e)' = Source(c)
    BY <1>5, <1>9 DEF Source
  <2>5. Len(drive.buffer) = HALF_BLOCK_SIZE - e.word
    BY <1>9, <1>10, <2>2, <2>3, BlockFacts
  <2>6. \A k \in 1 .. Len(drive.buffer) : drive.buffer[k] = Source(c)[e.word + k]
    <3>1. \A k \in 1 .. Len(drive.buffer) : 0 + k = k
      BY <1>9, <1>10, <2>5
    <3> QED
      BY <1>9, <2>2, <3>1
  <2>7. blocks' = written' /\ drive' = drive
    BY <1>5, <2>1 DEF Reading
  <2>8. \A b \in 0 .. e.block - 1, w \in Words : WordOf(e, b, w) = blocks'[e.address + b][w]
    BY <1>5, <1>9, <2>1 DEF Reading, WordOf
  <2>9. \A w \in 1 .. e.word : FALSE
    BY <1>9
  <2>10. Reading(e)'
    BY <1>9, <1>10, <2>2, <2>4, <2>5, <2>6, <2>7, <2>8, <2>9 DEF Reading, WordOf
  <2> QED
    BY <1>8, <1>9, <1>11, <2>10 DEF Underway
<1>12. ASSUME c.op = "write" PROVE Underway(e)'
  <2>1. Writing(c) /\ Serving(c, c.block, FALSE, <<>>)
    BY <1>2, <1>3, <1>12 DEF Underway, Writing
  <2>2. Serving(e, e.block, FALSE, drive.buffer)' /\ drive.buffer = <<>>
    BY <1>5, <1>9, <2>1 DEF Serving
  <2>3. Overwritten(e, e.block)' = Overwritten(c, c.block)
    BY <1>5, <1>9 DEF Overwritten, WordOf
  <2>4. Len(drive.buffer) = 0
    BY <2>2
  <2>5. MediumToCome' = Overwritten(e, e.block)' /\ drive' = drive
    BY <1>5, <2>1, <2>3 DEF Writing, MediumToCome
  <2>6. \A k \in 1 .. e.word : FALSE
    BY <1>9
  <2>7. Writing(e)'
    BY <1>9, <1>10, <2>2, <2>4, <2>5, <2>6 DEF Writing
  <2> QED
    BY <1>8, <1>9, <1>12, <2>7 DEF Underway
<1>13. Underway(e)'
  BY <1>3, <1>11, <1>12 DEF Calls
<1> QED
  BY <1>3, <1>5, <1>6, <1>7, <1>9, <1>13, CallInv

\* The registers are set one after the other.
LEMMA SelectInv ==
    ASSUME AtaInv, NEW p \in Programs, Select(p)
    PROVE  AtaInv'
<1>1. PICK c : c = call[p]
  OBVIOUS
<1>2. c.pc = "select"
  BY <1>1 DEF Select
<1>3. c \in Calls /\ Underway(c) /\ \A q \in Programs \ {p} : Idling(q)
  BY <1>1, <1>2, CallFacts
<1>4. Addressed(c) /\ c.port \in 1 .. 5 /\ Requested(c)
  BY <1>2, <1>3 DEF Underway
<1>5. PICK e : e = [c EXCEPT !.port = c.port + 1, !.pc = IF c.port = 5 THEN "command" ELSE "select"]
  OBVIOUS
<1>6. Len(Ports) = 5
  BY DEF Ports
<1>7. /\ call' = [call EXCEPT ![p] = e]
      /\ registers' = [registers EXCEPT ![Ports[c.port]] = RegisterValue(c, Ports[c.port])]
      /\ UNCHANGED <<blocks, drive, calls, written>>
  BY <1>1, <1>2, <1>3, <1>4, <1>5, <1>6 DEF Select, AtaInv, AtaTyped, Addressed, Resting
<1>8. e \in Calls /\ e.pc \in {"select", "command"}
  <2>1. c.port + 1 \in Nat
    BY <1>4
  <2> QED
    BY <1>3, <1>5, <2>1 DEF Calls
<1>9. /\ e.op = c.op /\ e.block = c.block /\ e.address = c.address
      /\ e.count = c.count /\ e.memory = c.memory /\ e.port = c.port + 1
      /\ e.pc = "command" <=> e.port = 6
  BY <1>3, <1>4, <1>5 DEF Calls
<1>10. \A port : RegisterValue(e, port) = RegisterValue(c, port)
  BY <1>9 DEF RegisterValue
<1>11. PICK n \in 1 .. 5 : n = c.port
  BY <1>4
<1>12. \A k \in 1 .. 5 : Ports[k] \in {"head", "count", "low", "mid", "high"}
  BY DEF Ports
<1>13. \A k \in 1 .. 5 : k # n => Ports[k] # Ports[n]
  BY DEF Ports
<1>14. \A k \in 1 .. 5 : RegisterValue(c, Ports[k]) \in Int
  <2>1. Base \in Nat /\ Base > 0 /\ c.address \in Nat /\ c.count \in Nat
    BY <1>3, AtaConstants DEF Calls
  <2>2. PICK q \in Nat : q = c.address \div Base
    BY <2>1, DivisionFacts
  <2>3. PICK r \in Nat : r = q \div Base
    BY <2>1, DivisionFacts
  <2>4. PICK s \in Nat : s = r \div Base
    BY <2>1, DivisionFacts
  <2>5. c.address % Base \in Int /\ q % Base \in Int /\ r % Base \in Int /\ s % 16 \in Int
    BY <2>1, DivisionFacts
  <2> QED
    BY <1>12, <2>1, <2>2, <2>3, <2>4, <2>5 DEF RegisterValue
<1>15. registers' \in [head : Int, count : Int, low : Int, mid : Int, high : Int]
  BY <1>7, <1>11, <1>12, <1>14 DEF AtaInv, AtaTyped
<1>16. AtaTyped'
  BY <1>7, <1>8, <1>15 DEF AtaInv, AtaTyped
<1>17. ASSUME NEW k \in 1 .. e.port - 1 PROVE registers'[Ports[k]] = RegisterValue(e, Ports[k])
  <2>1. k \in 1 .. 5 /\ (k = n \/ k \in 1 .. c.port - 1)
    BY <1>9, <1>11, <1>17
  <2>2. CASE k = n
    <3>1. registers'[Ports[n]] = RegisterValue(c, Ports[n])
      BY <1>7, <1>11, <1>12 DEF AtaInv, AtaTyped
    <3> QED
      BY <1>10, <2>2, <3>1
  <2>3. CASE k # n
    <3>1. registers[Ports[k]] = RegisterValue(c, Ports[k])
      BY <1>4, <2>1, <2>3 DEF Addressed
    <3>2. registers'[Ports[k]] = registers[Ports[k]]
      BY <1>7, <1>11, <1>12, <1>13, <2>1, <2>3 DEF AtaInv, AtaTyped
    <3> QED
      BY <1>10, <3>1, <3>2
  <2> QED
    BY <2>2, <2>3
<1>18. Addressed(e)'
  BY <1>4, <1>7, <1>9, <1>17 DEF Addressed
<1>19. Requested(e)'
  BY <1>4, <1>9 DEF Requested
<1>20. Underway(e)'
  BY <1>4, <1>8, <1>9, <1>18, <1>19 DEF Underway
<1> QED
  BY <1>3, <1>7, <1>8, <1>16, <1>20, CallInv

\* The device starts at the block the call names.
LEMMA CommandInv ==
    ASSUME Addressable, AtaInv, NEW p \in Programs, Command(p)
    PROVE  AtaInv'
<1>1. PICK c : c = call[p]
  OBVIOUS
<1>2. c.pc = "command"
  BY <1>1 DEF Command
<1>3. c \in Calls /\ Underway(c) /\ \A q \in Programs \ {p} : Idling(q)
  BY <1>1, <1>2, CallFacts
<1>4. Addressed(c) /\ c.port = 6 /\ Requested(c)
  BY <1>2, <1>3 DEF Underway
<1>5. PICK e : e = [c EXCEPT !.pc = "busy"]
  OBVIOUS
<1>6. /\ call' = [call EXCEPT ![p] = e] /\ drive' = Started(c.op)
      /\ UNCHANGED <<blocks, registers, calls, written>>
  BY <1>1, <1>5 DEF Command
<1>7. e \in Calls
  BY <1>3, <1>5 DEF Calls
<1>8. /\ e.op = c.op /\ e.block = c.block /\ e.address = c.address
      /\ e.count = c.count /\ e.memory = c.memory /\ e.pc = "busy"
  BY <1>3, <1>5 DEF Calls
<1>9. c.address \in Nat /\ c.count \in Nat /\ c.count # 0 /\ BlockCount \in Nat
      /\ c.address + c.count <= BlockCount /\ c.block = 0
  BY <1>3, <1>4, AtaConstants DEF Calls, Requested, Addressed
<1>10. /\ registers.head = (((c.address \div Base) \div Base) \div Base) % 16
       /\ registers.count = c.count
       /\ registers.low = c.address % Base
       /\ registers.mid = (c.address \div Base) % Base
       /\ registers.high = ((c.address \div Base) \div Base) % Base
  <2>1. \A k \in 1 .. 5 : registers[Ports[k]] = RegisterValue(c, Ports[k])
    BY <1>4 DEF Addressed
  <2>2. /\ Ports[1] = "head" /\ Ports[2] = "count" /\ Ports[3] = "low"
        /\ Ports[4] = "mid" /\ Ports[5] = "high"
    BY DEF Ports
  <2>3. /\ registers["head"] = RegisterValue(c, "head")
        /\ registers["count"] = RegisterValue(c, "count")
        /\ registers["low"] = RegisterValue(c, "low")
        /\ registers["mid"] = RegisterValue(c, "mid")
        /\ registers["high"] = RegisterValue(c, "high")
    BY <2>1, <2>2
  <2> QED
    BY <2>3 DEF RegisterValue
<1>11. c.address < BlockCount
  BY <1>9
<1>12. Selected = c.address
  BY <1>9, <1>10, <1>11, AddressDecoded, Zenon DEF Selected
<1>13. drive' = [busy |-> TRUE, mode |-> c.op, at |-> c.address, left |-> c.count, buffer |-> <<>>]
  <2>1. ~(Selected + registers.count > BlockCount)
    BY <1>9, <1>10, <1>12
  <2> QED
    BY <1>4, <1>6, <1>10, <1>12, <2>1 DEF Started, Addressed, Resting
<1>14. Serving(e, e.block, TRUE, <<>>)'
  <2>1. c.address + 0 = c.address /\ c.count - 0 = c.count
    BY <1>9
  <2> QED
    BY <1>8, <1>9, <1>13, <2>1 DEF Serving
<1>15. AtaTyped'
  <2>1. drive' \in Drives
    <3>1. <<>> \in Seq(Contents)
      OBVIOUS
    <3> QED
      BY <1>3, <1>9, <1>13, <3>1 DEF Drives, Calls
  <2> QED
    BY <1>6, <1>7, <2>1 DEF AtaInv, AtaTyped
<1>16. Requested(e)'
  BY <1>4, <1>8 DEF Requested
<1>17. blocks = written
  BY <1>4 DEF Addressed
<1>18. ASSUME c.op = "read" PROVE Underway(e)'
  <2>0. \A b \in 0 .. e.block - 1 : FALSE
    BY <1>8, <1>9
  <2>1. Reading(e)'
    BY <1>6, <1>8, <1>14, <1>17, <2>0 DEF Reading
  <2> QED
    BY <1>8, <1>16, <1>18, <2>1 DEF Underway
<1>19. ASSUME c.op = "write" PROVE Underway(e)'
  <2>1. MediumToCome' = written
    BY <1>6, <1>13, <1>17 DEF MediumToCome
  <2>2. Overwritten(e, e.block)' = written
    <3>1. \A b \in Blocks : b \notin e.address .. e.address + e.block - 1
      BY <1>8, <1>9 DEF Blocks
    <3> QED
      BY <1>6, <3>1 DEF Overwritten, AtaInv, AtaTyped
  <2>3. Writing(e)'
    BY <1>8, <1>14, <2>1, <2>2 DEF Writing
  <2> QED
    BY <1>8, <1>16, <1>19, <2>3 DEF Underway
<1>20. Underway(e)'
  BY <1>3, <1>18, <1>19 DEF Calls
<1> QED
  BY <1>3, <1>6, <1>7, <1>8, <1>15, <1>20, CallInv

\* What a word of a read does to the caller's buffer.
LEMMA WordRead ==
    ASSUME AtaInv, NEW c \in Calls, Requested(c), Reading(c), c.pc = "data", c.op = "read",
           NEW d, d = [c EXCEPT !.memory[Place(c)] = Delivered]
    PROVE  /\ d \in Calls /\ d.memory \in Memory(c.count)
           /\ d.pc = c.pc /\ d.op = c.op /\ d.address = c.address /\ d.count = c.count
           /\ d.port = c.port /\ d.block = c.block /\ d.word = c.word
           /\ \A b \in 0 .. c.block - 1, w \in Words :
                 WordOf(d, b, w) = blocks[c.address + b][w]
           /\ \A w \in 1 .. c.word + 1 : WordOf(d, c.block, w) = Source(c)[w]
           /\ drive.buffer \in Seq(Contents) /\ Len(drive.buffer) = HALF_BLOCK_SIZE - c.word
           /\ Delivers
<1>1. /\ c.word \in Nat /\ c.block \in Nat /\ c.count \in Nat /\ c.address \in Nat
      /\ HALF_BLOCK_SIZE \in Nat /\ BlockCount \in Nat
  BY AtaConstants DEF Calls
<1>2. /\ c.block < c.count /\ c.memory \in Memory(c.count) /\ c.word < HALF_BLOCK_SIZE
      /\ c.address + c.count <= BlockCount
  BY DEF Requested, Reading
<1>3. PICK n \in Nat : n = c.word + 1
  BY <1>1
<1>4. n \in Words
  BY <1>1, <1>2, <1>3 DEF Words
<1>5. PICK k : k = HALF_BLOCK_SIZE * c.block + n
  OBVIOUS
<1>6. Place(c) = k
  <2>1. HALF_BLOCK_SIZE * c.block \in Nat
    BY <1>1
  <2> QED
    BY <1>1, <1>3, <1>5, <2>1 DEF Place
<1>7. k \in 1 .. HALF_BLOCK_SIZE * c.count
  BY <1>1, <1>2, <1>4, <1>5, PlaceFacts
<1>8. /\ drive.buffer \in Seq(Contents) /\ Len(drive.buffer) = HALF_BLOCK_SIZE - c.word
      /\ Delivers
  BY DEF AtaInv, AtaTyped, Drives, Reading, Serving, Delivers
<1>9. Delivered = Source(c)[n]
  <2>1. 1 \in 1 .. Len(drive.buffer)
    BY <1>1, <1>2, <1>8
  <2>2. drive.buffer[1] = Source(c)[c.word + 1]
    BY <2>1 DEF Reading
  <2>3. Head(drive.buffer) = drive.buffer[1]
    BY <1>8
  <2> QED
    BY <1>3, <1>8, <2>2, <2>3 DEF Delivered
<1>10. Source(c)[n] \in Contents
  <2>1. c.address + c.block \in Blocks
    BY <1>1, <1>2 DEF Blocks
  <2>2. Source(c) \in BlockContents
    BY <2>1 DEF Source, AtaInv, AtaTyped
  <2> QED
    BY <1>4, <2>2 DEF BlockContents
<1>11. PICK m : m = [c.memory EXCEPT ![k] = Source(c)[n]]
  OBVIOUS
<1>12. m \in Memory(c.count)
  BY <1>2, <1>10, <1>11 DEF Memory
<1>13. PICK memories : memories = UNION {Memory(i) : i \in Nat}
  OBVIOUS
<1>14. Calls = [op : {"read", "write"},
                pc : {"idle", "wait", "select", "command", "busy", "ready", "data"},
                address : Nat, count : Nat, port : Nat, block : Nat, word : Nat,
                memory : memories]
  BY <1>13 DEF Calls
<1>15. m \in memories
  BY <1>1, <1>12, <1>13
<1>16. d = [c EXCEPT !.memory = m]
  BY <1>6, <1>9, <1>11
<1>17. /\ d \in Calls /\ d.memory = m
       /\ d.pc = c.pc /\ d.op = c.op /\ d.address = c.address /\ d.count = c.count
       /\ d.port = c.port /\ d.block = c.block /\ d.word = c.word
  BY <1>14, <1>15, <1>16
<1>18. ASSUME NEW b \in Nat, b < c.count, NEW w \in Words, b # c.block \/ w # n
       PROVE  WordOf(d, b, w) = WordOf(c, b, w)
  <2>1. HALF_BLOCK_SIZE * b + w \in 1 .. HALF_BLOCK_SIZE * c.count
    BY <1>1, <1>18, PlaceFacts
  <2>2. HALF_BLOCK_SIZE * b + w # k
    BY <1>1, <1>4, <1>5, <1>18, PlaceFacts
  <2> QED
    BY <1>2, <1>11, <1>17, <2>1, <2>2 DEF WordOf, Memory
<1>19. WordOf(d, c.block, n) = Source(c)[n]
  BY <1>2, <1>5, <1>7, <1>11, <1>17 DEF WordOf, Memory
<1>20. ASSUME NEW b \in 0 .. c.block - 1, NEW w \in Words
       PROVE  WordOf(d, b, w) = blocks[c.address + b][w]
  <2>1. b \in Nat /\ b < c.count /\ b # c.block
    BY <1>1, <1>2
  <2> QED
    BY <1>18, <2>1 DEF Reading
<1>21. ASSUME NEW w \in 1 .. c.word + 1 PROVE WordOf(d, c.block, w) = Source(c)[w]
  <2>1. w = n \/ (w \in 1 .. c.word /\ w \in Words /\ w # n)
    BY <1>1, <1>2, <1>3 DEF Words
  <2> QED
    BY <1>1, <1>2, <1>18, <1>19, <2>1 DEF Reading
<1> QED
  BY <1>8, <1>12, <1>17, <1>20, <1>21

\* What a read that returns has brought.
Brought(c) ==
    \A b \in 0 .. c.count - 1, w \in Words : WordOf(c, b, w) = written[c.address + b][w]

\* A word of a read.
LEMMA ReadInv ==
    ASSUME AtaInv, NEW p \in Programs, read_blocks(p)
    PROVE  AtaInv' /\ (call'[p].pc = "idle" => Brought(call'[p]))
<1>1. PICK c : c = call[p]
  OBVIOUS
<1>2. c.pc = "data" /\ c.op = "read"
  BY <1>1 DEF read_blocks
<1>3. c \in Calls /\ Underway(c) /\ \A q \in Programs \ {p} : Idling(q)
  BY <1>1, <1>2, CallFacts
<1>4. Requested(c) /\ Reading(c)
  BY <1>2, <1>3 DEF Underway
<1>5. PICK d : d = [c EXCEPT !.memory[Place(c)] = Delivered]
  OBVIOUS
<1>6. PICK e : e = Advanced(d)
  OBVIOUS
<1>7. /\ call' = [call EXCEPT ![p] = e] /\ drive' = AfterIn
      /\ UNCHANGED <<blocks, registers, calls, written>>
  BY <1>1, <1>5, <1>6 DEF read_blocks
<1>8. /\ d \in Calls /\ d.memory \in Memory(c.count)
      /\ d.pc = c.pc /\ d.op = c.op /\ d.address = c.address /\ d.count = c.count
      /\ d.port = c.port /\ d.block = c.block /\ d.word = c.word
      /\ \A b \in 0 .. c.block - 1, w \in Words : WordOf(d, b, w) = blocks[c.address + b][w]
      /\ \A w \in 1 .. c.word + 1 : WordOf(d, c.block, w) = Source(c)[w]
      /\ drive.buffer \in Seq(Contents) /\ Len(drive.buffer) = HALF_BLOCK_SIZE - c.word
      /\ Delivers
  BY <1>2, <1>3, <1>4, <1>5, WordRead
<1>9. /\ c.word \in Nat /\ c.block \in Nat /\ c.count \in Nat /\ c.address \in Nat
      /\ HALF_BLOCK_SIZE \in Nat /\ BlockCount \in Nat
  BY <1>3, AtaConstants DEF Calls
<1>10. /\ c.block < c.count /\ c.word < HALF_BLOCK_SIZE /\ c.count # 0
       /\ c.address + c.count <= BlockCount
  BY <1>2, <1>4 DEF Requested, Reading
<1>11. blocks = written
  BY <1>4 DEF Reading
<1>12. Serving(c, c.block, FALSE, drive.buffer)
  BY <1>2, <1>4 DEF Reading
<1>13. drive \in Drives
  BY DEF AtaInv, AtaTyped
<1>14. CASE c.word + 1 < HALF_BLOCK_SIZE
  <2>1. e = [d EXCEPT !.word = d.word + 1]
    BY <1>6, <1>8, <1>14 DEF Advanced
  <2>2. d.word + 1 \in Nat
    BY <1>8, <1>9
  <2>3. e \in Calls
    BY <1>8, <2>1, <2>2 DEF Calls
  <2>4. /\ e.pc = "data" /\ e.op = "read" /\ e.address = c.address /\ e.count = c.count
        /\ e.block = c.block /\ e.word = c.word + 1 /\ e.memory = d.memory
    BY <1>2, <1>8, <2>1 DEF Calls
  <2>5. Len(drive.buffer) # 1 /\ Len(drive.buffer) > 0
    BY <1>8, <1>9, <1>14
  <2>6. drive' = [drive EXCEPT !.buffer = Tail(drive.buffer)]
    BY <1>7, <1>8, <2>5 DEF AfterIn
  <2>7. PICK t : t = Tail(drive.buffer)
    OBVIOUS
  <2>8. /\ t \in Seq(Contents) /\ Len(t) = Len(drive.buffer) - 1
        /\ \A k \in 1 .. Len(t) : t[k] = drive.buffer[k + 1]
    <3>1. \A q \in Seq(Contents) : Len(q) > 0 =>
             /\ Tail(q) \in Seq(Contents) /\ Len(Tail(q)) = Len(q) - 1
             /\ \A k \in 1 .. Len(Tail(q)) : Tail(q)[k] = q[k + 1]
      OBVIOUS
    <3> QED
      BY <1>8, <2>5, <2>7, <3>1
  <2>9. drive'.buffer = t /\ drive' \in Drives
    BY <1>13, <2>6, <2>7, <2>8 DEF Drives
  <2>10. AtaTyped'
    BY <1>7, <2>3, <2>9 DEF AtaInv, AtaTyped
  <2>11. Serving(e, e.block, FALSE, drive.buffer)'
    <3>1. /\ drive'.busy = drive.busy /\ drive'.mode = drive.mode
          /\ drive'.at = drive.at /\ drive'.left = drive.left
      BY <1>13, <2>6 DEF Drives
    <3>2. /\ drive.busy = FALSE /\ drive.mode = e.op
          /\ drive.at = e.address + e.block /\ drive.left = e.count - e.block
      BY <1>2, <1>12, <2>4 DEF Serving
    <3> QED
      BY <2>9, <3>1, <3>2 DEF Serving, Drives
  <2>12. Len(t) = HALF_BLOCK_SIZE - e.word
    BY <1>8, <1>9, <2>4, <2>8
  <2>13. Source(e)' = Source(c)
    BY <1>7, <2>4 DEF Source
  <2>14. ASSUME NEW k \in 1 .. Len(t) PROVE t[k] = Source(c)[e.word + k]
    <3>0. PICK n \in Nat : n = Len(drive.buffer)
      BY <1>8
    <3>a. k \in Nat /\ k + 1 \in 1 .. n
      BY <2>8, <3>0
    <3>1. k + 1 \in 1 .. Len(drive.buffer) /\ c.word + (k + 1) = e.word + k
      BY <1>9, <2>4, <3>0, <3>a
    <3>2. drive.buffer[k + 1] = Source(c)[c.word + (k + 1)]
      BY <1>2, <1>4, <3>1 DEF Reading
    <3> QED
      BY <2>8, <3>1, <3>2
  <2>15. \A b, w : WordOf(e, b, w) = WordOf(d, b, w)
    BY <2>4 DEF WordOf
  <2>16. Reading(e)'
    <3>1. blocks' = written' /\ e.word < HALF_BLOCK_SIZE
      BY <1>7, <1>11, <1>14, <2>4
    <3>2. \A b \in 0 .. e.block - 1, w \in Words : WordOf(e, b, w) = blocks'[e.address + b][w]
      BY <1>7, <1>8, <2>4, <2>15
    <3>3. \A w \in 1 .. e.word : WordOf(e, e.block, w) = Source(e)'[w]
      BY <1>8, <2>4, <2>13, <2>15
    <3> QED
      BY <2>4, <2>9, <2>11, <2>12, <2>13, <2>14, <3>1, <3>2, <3>3 DEF Reading, WordOf
  <2>17. Requested(e)'
    BY <1>4, <1>8, <2>4 DEF Requested
  <2>18. Underway(e)'
    BY <2>4, <2>16, <2>17 DEF Underway
  <2> QED
    BY <1>3, <1>7, <2>3, <2>4, <2>10, <2>18, CallInv DEF AtaInv, AtaTyped
<1>15. CASE c.word + 1 = HALF_BLOCK_SIZE
  <2>1. Len(drive.buffer) = 1
    BY <1>8, <1>9, <1>15
  <2>2. drive' = NextBlock(TRUE)
    BY <1>7, <1>8, <2>1 DEF AfterIn
  <2>3. drive' \in Drives
    BY <1>13, <2>2, DriveTyped
  <2>4. drive.left = c.count - c.block /\ drive.at = c.address + c.block /\ drive.mode = c.op
    BY <1>12 DEF Serving
  <2>5. \A w \in Words : WordOf(d, c.block, w) = Source(c)[w]
    BY <1>8, <1>9, <1>15 DEF Words
  <2>6. ASSUME NEW b \in 0 .. c.block, NEW w \in Words
        PROVE  WordOf(d, b, w) = blocks[c.address + b][w]
    <3>1. b = c.block \/ b \in 0 .. c.block - 1
      BY <1>9
    <3> QED
      BY <1>8, <2>5, <3>1 DEF Source
  <2>7. CASE c.block + 1 < c.count
    <3>1. e = [d EXCEPT !.pc = "busy", !.block = d.block + 1]
      BY <1>6, <1>8, <1>9, <1>15, <2>7 DEF Advanced
    <3>2. d.block + 1 \in Nat
      BY <1>8, <1>9
    <3>3. e \in Calls
      BY <1>8, <3>1, <3>2 DEF Calls
    <3>4. /\ e.pc = "busy" /\ e.op = "read" /\ e.address = c.address /\ e.count = c.count
          /\ e.block = c.block + 1 /\ e.memory = d.memory
      BY <1>2, <1>8, <3>1 DEF Calls
    <3>5. AtaTyped'
      BY <1>7, <2>3, <3>3 DEF AtaInv, AtaTyped
    <3>6. drive.left # 1
      BY <1>9, <2>4, <2>7
    <3>7. drive.left - 1 = c.count - (c.block + 1) /\ drive.at + 1 = c.address + (c.block + 1)
      BY <1>9, <2>4
    <3>8. drive' = [drive EXCEPT !.busy = TRUE, !.at = drive.at + 1, !.left = drive.left - 1,
                                 !.buffer = <<>>]
      BY <2>2, <3>6 DEF NextBlock
    <3>9. Serving(e, e.block, TRUE, <<>>)'
      BY <1>2, <1>13, <2>4, <3>4, <3>7, <3>8 DEF Serving, Drives
    <3>10. \A b \in 0 .. e.block - 1, w \in Words :
              WordOf(e, b, w) = blocks'[e.address + b][w]
      <4>1. e.block - 1 = c.block
        BY <1>9, <3>4
      <4> QED
        BY <1>7, <2>6, <3>4, <4>1 DEF WordOf
    <3>11. Reading(e)'
      BY <1>7, <1>11, <3>4, <3>9, <3>10 DEF Reading, WordOf
    <3>12. Requested(e)'
      BY <1>4, <1>8, <2>7, <3>4 DEF Requested
    <3>13. Underway(e)'
      BY <3>4, <3>11, <3>12 DEF Underway
    <3> QED
      BY <1>3, <1>7, <3>3, <3>4, <3>5, <3>13, CallInv DEF AtaInv, AtaTyped
  <2>8. CASE c.block + 1 = c.count
    <3>1. e = [d EXCEPT !.pc = "idle"]
      BY <1>6, <1>8, <1>9, <1>15, <2>8 DEF Advanced
    <3>2. e \in Calls
      BY <1>8, <3>1 DEF Calls
    <3>3. /\ e.pc = "idle" /\ e.address = c.address /\ e.count = c.count
          /\ e.memory = d.memory
      BY <1>8, <3>1 DEF Calls
    <3>4. drive.left = 1
      BY <1>9, <2>4, <2>8
    <3>5. drive' = Resting
      BY <2>2, <3>4 DEF NextBlock
    <3>6. AtaTyped'
      BY <1>7, <2>3, <3>2 DEF AtaInv, AtaTyped
    <3>7. Settling'
      BY <1>7, <1>11, <3>5 DEF Settling, MediumToCome, Resting
    <3>8. Brought(e)
      <4>1. e.count - 1 = c.block
        BY <1>9, <2>8, <3>3
      <4> QED
        BY <1>11, <2>6, <3>3, <4>1 DEF Brought, WordOf
    <3>9. AtaInv'
      BY <1>3, <1>7, <3>2, <3>3, <3>6, <3>7, CallInv DEF AtaInv, AtaTyped
    <3> QED
      BY <1>7, <3>8, <3>9 DEF AtaInv, AtaTyped
  <2> QED
    BY <1>9, <1>10, <2>7, <2>8
<1> QED
  BY <1>9, <1>10, <1>14, <1>15

\* A block more is overwritten when the device has it.
LEMMA StoreMore ==
    ASSUME AtaTyped, NEW c \in Calls, Requested(c), blocks = Overwritten(c, c.block),
           NEW x \in BlockContents, \A w \in Words : x[w] = WordOf(c, c.block, w)
    PROVE  [blocks EXCEPT ![c.address + c.block] = x] = Overwritten(c, c.block + 1)
<1>1. /\ c.block \in Nat /\ c.count \in Nat /\ c.address \in Nat /\ BlockCount \in Nat
      /\ c.address + c.count <= BlockCount /\ c.block < c.count
  BY AtaConstants DEF Calls, Requested
<1>2. PICK at : at = c.address + c.block
  OBVIOUS
<1>3. at \in Blocks
  BY <1>1, <1>2 DEF Blocks
<1>4. PICK new : new = Overwritten(c, c.block + 1)
  OBVIOUS
<1>5. new = [b \in Blocks |-> new[b]]
  BY <1>4 DEF Overwritten
<1>6. ASSUME NEW b \in Blocks PROVE new[b] = IF b = at THEN x ELSE blocks[b]
  <2>1. b \in Int
    BY AtaConstants DEF Blocks
  <2>2. CASE b = at
    <3>1. b \in c.address .. c.address + (c.block + 1) - 1 /\ b - c.address = c.block
      BY <1>1, <1>2, <2>2
    <3>2. new[b] = [w \in Words |-> WordOf(c, c.block, w)]
      BY <1>4, <3>1 DEF Overwritten
    <3>3. x = [w \in Words |-> x[w]]
      BY DEF BlockContents
    <3> QED
      BY <2>2, <3>2, <3>3
  <2>3. CASE b # at
    <3>1. b \in c.address .. c.address + (c.block + 1) - 1
             <=> b \in c.address .. c.address + c.block - 1
      BY <1>1, <1>2, <2>1, <2>3
    <3> QED
      BY <1>4, <2>3, <3>1 DEF Overwritten
  <2> QED
    BY <2>2, <2>3
<1> QED
  BY <1>2, <1>3, <1>4, <1>5, <1>6 DEF AtaTyped

\* A word of a write.  The call that returns has handed over what it was given.
LEMMA WriteInv ==
    ASSUME AtaInv, NEW p \in Programs, write_blocks(p)
    PROVE  AtaInv'
<1>1. PICK c : c = call[p]
  OBVIOUS
<1>2. c.pc = "data" /\ c.op = "write"
  BY <1>1 DEF write_blocks
<1>3. c \in Calls /\ Underway(c) /\ \A q \in Programs \ {p} : Idling(q)
  BY <1>1, <1>2, CallFacts
<1>4. Requested(c) /\ Writing(c)
  BY <1>2, <1>3 DEF Underway
<1>5. PICK e : e = Advanced(c)
  OBVIOUS
<1>6. /\ call' = [call EXCEPT ![p] = e] /\ drive' = AfterOut(c.memory[Place(c)])
      /\ UNCHANGED <<blocks, registers, calls>> /\ call'[p] = e
      /\ written' = IF e.pc # "idle" THEN written ELSE Overwritten(c, c.count)
  BY <1>1, <1>5 DEF write_blocks, AtaInv, AtaTyped, Overwritten, WordOf
<1>7. /\ c.word \in Nat /\ c.block \in Nat /\ c.count \in Nat /\ c.address \in Nat
      /\ HALF_BLOCK_SIZE \in Nat /\ BlockCount \in Nat
  BY <1>3, AtaConstants DEF Calls
<1>8. /\ c.block < c.count /\ c.word < HALF_BLOCK_SIZE /\ c.count # 0
      /\ c.address + c.count <= BlockCount
  BY <1>2, <1>4 DEF Requested, Writing
<1>9. /\ Serving(c, c.block, FALSE, drive.buffer) /\ Len(drive.buffer) = c.word
      /\ \A k \in 1 .. c.word : drive.buffer[k] = WordOf(c, c.block, k)
  BY <1>2, <1>4 DEF Writing
<1>10. drive \in Drives /\ drive.buffer \in Seq(Contents)
  BY DEF AtaInv, AtaTyped, Drives
<1>11. blocks = Overwritten(c, c.block)
  BY <1>4, <1>9 DEF Writing, MediumToCome, Serving
<1>12. PICK n \in Nat : n = c.word + 1
  BY <1>7
<1>13. PICK x : x = WordOf(c, c.block, n)
  OBVIOUS
<1>14. c.memory[Place(c)] = x
  <2>1. HALF_BLOCK_SIZE * c.block \in Nat
    BY <1>7
  <2>2. Place(c) = HALF_BLOCK_SIZE * c.block + n
    BY <1>7, <1>12, <2>1 DEF Place
  <2> QED
    BY <1>13, <2>2 DEF WordOf
<1>15. x \in Contents
  <2>1. n \in Words
    BY <1>7, <1>8, <1>12 DEF Words
  <2>2. HALF_BLOCK_SIZE * c.block + n \in 1 .. HALF_BLOCK_SIZE * c.count
    BY <1>7, <1>8, <2>1, PlaceFacts
  <2> QED
    BY <1>4, <1>13, <2>2 DEF Requested, WordOf, Memory
<1>16. PICK t : t = Append(drive.buffer, x)
  OBVIOUS
<1>17. /\ t \in Seq(Contents) /\ Len(t) = n
       /\ \A k \in 1 .. n : t[k] = WordOf(c, c.block, k)
  <2>1. t \in Seq(Contents) /\ Len(t) = n /\ t[n] = x
    BY <1>9, <1>10, <1>12, <1>15, <1>16
  <2>2. ASSUME NEW k \in 1 .. n PROVE t[k] = WordOf(c, c.block, k)
    <3>1. CASE k = n
      BY <1>13, <2>1, <3>1
    <3>2. CASE k # n
      <4>1. k \in 1 .. c.word
        BY <1>7, <1>12, <3>2
      <4>2. t[k] = drive.buffer[k]
        BY <1>9, <1>10, <1>15, <1>16, <4>1
      <4> QED
        BY <1>9, <4>1, <4>2
    <3> QED
      BY <3>1, <3>2
  <2> QED
    BY <2>1, <2>2
<1>18. drive' = [drive EXCEPT !.buffer = t, !.busy = (n = HALF_BLOCK_SIZE)]
  <2>1. Takes
    BY <1>2, <1>9 DEF Takes, Serving
  <2>2. Len(drive.buffer) + 1 = n
    BY <1>9, <1>12
  <2> QED
    BY <1>6, <1>14, <1>16, <2>1, <2>2 DEF AfterOut
<1>19. drive' \in Drives
  BY <1>10, <1>17, <1>18 DEF Drives
<1>20. \A busy \in BOOLEAN : (n = HALF_BLOCK_SIZE) = busy =>
          drive' = [busy |-> busy, mode |-> c.op, at |-> c.address + c.block,
                    left |-> c.count - c.block, buffer |-> t]
  <2>1. /\ drive.mode = c.op /\ drive.at = c.address + c.block
        /\ drive.left = c.count - c.block
    BY <1>9 DEF Serving
  <2> SUFFICES ASSUME NEW busy \in BOOLEAN, (n = HALF_BLOCK_SIZE) = busy
               PROVE  drive' = [busy |-> busy, mode |-> c.op, at |-> c.address + c.block,
                                left |-> c.count - c.block, buffer |-> t]
    OBVIOUS
  <2>2. drive' = [drive EXCEPT !.buffer = t, !.busy = busy]
    BY <1>18, Zenon
  <2> QED
    BY <1>10, <1>19, <2>1, <2>2 DEF Drives
<1>21. CASE n < HALF_BLOCK_SIZE
  <2>1. e = [c EXCEPT !.word = n]
    BY <1>5, <1>12, <1>21 DEF Advanced
  <2>2. e \in Calls
    BY <1>3, <2>1 DEF Calls
  <2>3. /\ e.pc = "data" /\ e.op = "write" /\ e.address = c.address /\ e.count = c.count
        /\ e.block = c.block /\ e.word = n /\ e.memory = c.memory
    BY <1>2, <1>3, <2>1 DEF Calls
  <2>4. written' = written
    BY <1>6, <2>3
  <2>5. AtaTyped'
    BY <1>6, <1>19, <2>2, <2>4 DEF AtaInv, AtaTyped
  <2>6. (n = HALF_BLOCK_SIZE) = FALSE
    BY <1>7, <1>21
  <2>a. drive' = [busy |-> FALSE, mode |-> c.op, at |-> c.address + c.block,
                  left |-> c.count - c.block, buffer |-> t]
    BY <1>20, <2>6
  <2>7. Serving(e, e.block, FALSE, drive.buffer)' /\ ~drive'.busy /\ drive'.buffer = t
    BY <1>2, <2>3, <2>a DEF Serving
  <2>8. Overwritten(e, e.block)' = Overwritten(c, c.block)
    BY <2>3, <2>4 DEF Overwritten, WordOf
  <2>9. MediumToCome' = Overwritten(e, e.block)'
    BY <1>6, <1>11, <2>7, <2>8 DEF MediumToCome
  <2>10. Writing(e)'
    BY <1>17, <1>21, <2>3, <2>7, <2>9 DEF Writing, WordOf
  <2>11. Requested(e)'
    BY <1>4, <2>3 DEF Requested
  <2>12. Underway(e)'
    BY <2>3, <2>10, <2>11 DEF Underway
  <2> QED
    BY <1>3, <1>6, <2>2, <2>3, <2>5, <2>12, CallInv
<1>22. CASE n = HALF_BLOCK_SIZE
  <2>1. t \in BlockContents /\ t # <<>>
    BY <1>17, <1>22, FullBlock, BlockFacts
  <2>2. \A w \in Words : t[w] = WordOf(c, c.block, w)
    BY <1>17, <1>22 DEF Words
  <2>3. PICK at : at = c.address + c.block
    OBVIOUS
  <2>4. at \in Blocks
    BY <1>7, <1>8, <2>3 DEF Blocks
  <2>5. [blocks EXCEPT ![at] = t] = Overwritten(c, c.block + 1)
    BY <1>3, <1>4, <1>11, <2>1, <2>2, <2>3, StoreMore DEF AtaInv
  <2>6. drive' = [busy |-> TRUE, mode |-> "write", at |-> at, left |-> c.count - c.block,
                  buffer |-> t]
    <3>1. (n = HALF_BLOCK_SIZE) = TRUE
      BY <1>22
    <3>2. drive' = [busy |-> TRUE, mode |-> c.op, at |-> c.address + c.block,
                    left |-> c.count - c.block, buffer |-> t]
      BY <1>20, <3>1
    <3> QED
      BY <1>2, <2>3, <3>2
  <2>7. MediumToCome' = Overwritten(c, c.block + 1)
    BY <1>6, <2>1, <2>5, <2>6 DEF MediumToCome
  <2>8. CASE c.block + 1 < c.count
    <3>1. e = [c EXCEPT !.pc = "busy", !.block = c.block + 1]
      BY <1>5, <1>7, <1>12, <1>22, <2>8 DEF Advanced
    <3>2. c.block + 1 \in Nat
      BY <1>7
    <3>3. e \in Calls
      BY <1>3, <3>1, <3>2 DEF Calls
    <3>4. /\ e.pc = "busy" /\ e.op = "write" /\ e.address = c.address /\ e.count = c.count
          /\ e.block = c.block + 1 /\ e.memory = c.memory
      BY <1>2, <1>3, <3>1 DEF Calls
    <3>5. written' = written
      BY <1>6, <3>4
    <3>6. AtaTyped'
      BY <1>6, <1>19, <3>3, <3>5 DEF AtaInv, AtaTyped
    <3>7. e.block # 0 /\ e.block - 1 = c.block
      BY <1>7, <3>4
    <3>8. Serving(e, e.block - 1, TRUE, drive.buffer)' /\ drive'.buffer = t
      BY <2>3, <2>6, <3>4, <3>7 DEF Serving
    <3>9. Overwritten(e, e.block)' = Overwritten(c, c.block + 1)
      BY <3>4, <3>5 DEF Overwritten, WordOf
    <3>10. Writing(e)'
      <4>1. e.pc # "ready" /\ e.pc # "data"
        BY <3>4
      <4> QED
        BY <2>1, <2>7, <3>7, <3>8, <3>9, <4>1 DEF Writing, BlockContents, Words
    <3>11. Requested(e)'
      BY <1>4, <2>8, <3>4 DEF Requested
    <3>12. Underway(e)'
      BY <3>4, <3>10, <3>11 DEF Underway
    <3> QED
      BY <1>3, <1>6, <3>3, <3>4, <3>6, <3>12, CallInv
  <2>9. CASE c.block + 1 = c.count
    <3>1. e = [c EXCEPT !.pc = "idle"]
      BY <1>5, <1>7, <1>12, <1>22, <2>9 DEF Advanced
    <3>2. e \in Calls /\ e.pc = "idle"
      BY <1>3, <3>1 DEF Calls
    <3>3. written' = Overwritten(c, c.block + 1)
      BY <1>6, <2>9, <3>2
    <3>4. written' \in [Blocks -> BlockContents]
      BY <2>1, <2>4, <2>5, <3>3 DEF AtaInv, AtaTyped
    <3>5. AtaTyped'
      BY <1>6, <1>19, <3>2, <3>4 DEF AtaInv, AtaTyped
    <3>6. c.count - c.block = 1
      BY <1>7, <2>9
    <3>7. Settling'
      BY <2>1, <2>4, <2>6, <2>7, <3>3, <3>6 DEF Settling, BlockContents, Words, Blocks
    <3> QED
      BY <1>3, <1>6, <3>2, <3>5, <3>7, CallInv
  <2> QED
    BY <1>7, <1>8, <2>8, <2>9
<1> QED
  BY <1>7, <1>8, <1>12, <1>21, <1>22
-----------------------------------------------------------------------------
(* The theorems.                                                            *)

LEMMA AtaInvInit == AtaInit => AtaInv
<1> SUFFICES ASSUME AtaInit PROVE AtaInv
  OBVIOUS
<1> USE DEF AtaInit
<1>1. blocks \in [Blocks -> BlockContents]
  <2>1. \A b \in Blocks : <<0, b>> \in Contents
    BY AtaConstants DEF Blocks, Contents
  <2> QED
    BY <2>1 DEF BlockContents
<1>2. Resting \in Drives
  <2>1. <<>> \in Seq(Contents)
    OBVIOUS
  <2> QED
    BY <2>1 DEF Resting, Drives
<1>a. registers \in [head : Int, count : Int, low : Int, mid : Int, high : Int]
  OBVIOUS
<1>b. call \in [Programs -> Calls]
  BY NoCallTyped
<1>3. AtaTyped
  BY <1>1, <1>2, <1>a, <1>b DEF AtaTyped
<1>4. Settling
  BY DEF Settling, MediumToCome, Resting
<1>5. \A p \in Programs : Idling(p)
  BY NoCallTyped DEF Idling
<1> QED
  BY <1>3, <1>4, <1>5 DEF AtaInv

LEMMA AtaInvStep ==
    ASSUME OneAtATime, Addressable, AtaInv, [AtaNext]_ataVars
    PROVE  AtaInv'
<1>1. CASE UNCHANGED ataVars
  <2> USE <1>1 DEF ataVars
  <2>1. AtaTyped'
    BY DEF AtaInv, AtaTyped
  <2>2. Settling => Settling'
    BY DEF Settling, MediumToCome
  <2>3. ASSUME NEW c \in Calls, Underway(c) PROVE Underway(c)'
    <3>1. Requested(c)'
      BY <2>3 DEF Underway, Requested
    <3>2. Addressed(c) => Addressed(c)'
      BY DEF Addressed
    <3>3. Reading(c) => Reading(c)'
      BY DEF Reading, Serving, Source
    <3>4. Overwritten(c, c.block)' = Overwritten(c, c.block)
      BY DEF Overwritten
    <3>5. Writing(c) => Writing(c)'
      BY <3>4 DEF Writing, Serving, MediumToCome
    <3> QED
      BY <2>2, <2>3, <3>1, <3>2, <3>3, <3>5 DEF Underway
  <2> QED
    BY <2>1, <2>2, <2>3, OthersInv
<1>2. CASE Fetch \/ Accept \/ Store
  BY <1>2, FetchInv, AcceptInv, StoreInv
<1>3. ASSUME NEW p \in Programs, Begin(p) \/ Driver(p) PROVE AtaInv'
  BY <1>3, BeginInv, BusyWaitInv, DrqWaitInv, SelectInv, CommandInv, ReadInv, WriteInv
     DEF Driver
<1> QED
  BY <1>1, <1>2, <1>3 DEF AtaNext

\* One call at a time on a device the registers can address: the words of a call are
\* at their places, and the device is where the call believes it is (disk.c).
THEOREM DriverInStep ==
    ASSUME OneAtATime, Addressable
    PROVE  AtaSpec => []AtaInv
<1>1. AtaInv /\ [AtaNext]_ataVars => AtaInv'
  BY AtaInvStep
<1> QED
  BY <1>1, AtaInvInit, PTL DEF AtaSpec

\* When the calls have returned and the device has stored what it was given, the
\* medium holds what write_blocks was given, at the blocks it was given, and the other
\* blocks are as they were.
THEOREM WritesReachTheirBlocks ==
    ASSUME OneAtATime, Addressable
    PROVE  AtaSpec => []MediumHoldsWrites
<1>1. AtaInv => MediumHoldsWrites
  BY DEF AtaInv, MediumHoldsWrites, Quiet, Idling, Settling, MediumToCome, Resting
<1> QED
  BY <1>1, DriverInStep, PTL

\* A call that returns from a read was in its last word.
LEMMA ReturnBrings ==
    ASSUME AtaInv, [AtaNext]_ataVars, NEW p \in Programs,
           call[p].pc # "idle", call'[p].pc = "idle", call'[p].op = "read"
    PROVE  Brought(call'[p])
<1> USE DEF AtaInv, AtaTyped
<1>1. call' # call
  OBVIOUS
<1>2. PICK q \in Programs : Begin(q) \/ Driver(q)
  BY <1>1 DEF AtaNext, ataVars, Fetch, Accept, Store
<1>3. \A r \in Programs \ {q} : call'[r] = call[r]
  BY <1>2 DEF Begin, Driver, ATA_busy_wait, ATA_DRQ_wait, Select, Command, read_blocks,
              write_blocks
<1>4. q = p
  BY <1>3
<1>5. PICK c \in Calls : c = call[p]
  OBVIOUS
<1>6. ~Begin(p)
  BY DEF Begin
<1>7. ~(ATA_busy_wait(p) \/ ATA_DRQ_wait(p) \/ Select(p) \/ Command(p))
  <2>1. ATA_busy_wait(p) => call'[p].pc # "idle"
    BY <1>5 DEF ATA_busy_wait, Calls
  <2>2. ATA_DRQ_wait(p) => call'[p].pc # "idle"
    BY <1>5 DEF ATA_DRQ_wait, Calls
  <2>3. Select(p) => call'[p].pc # "idle"
    BY <1>5 DEF Select, Calls
  <2>4. Command(p) => call'[p].pc # "idle"
    BY <1>5 DEF Command, Calls
  <2> QED
    BY <2>1, <2>2, <2>3, <2>4
<1>8. ~write_blocks(p)
  <2>1. write_blocks(p) => c.op = "write" /\ call'[p] = Advanced(c)
    BY <1>5 DEF write_blocks
  <2>2. Advanced(c).op = c.op
    BY DEF Advanced, Calls
  <2> QED
    BY <2>1, <2>2
<1> QED
  BY <1>2, <1>4, <1>6, <1>7, <1>8, ReadInv DEF Driver

\* A read returns the words of the blocks it was given, in their order, as the last
\* call that wrote them left them: even when it begins before the device has stored
\* the last block of that call.
THEOREM ReadsFollowWrites ==
    ASSUME OneAtATime, Addressable
    PROVE  AtaSpec => ReadsLastWrite
<1> DEFINE A == \A p \in Programs :
                   LET c == call'[p] IN
                   call[p].pc # "idle" /\ c.pc = "idle" /\ c.op = "read" =>
                       \A b \in 0 .. c.count - 1, w \in Words :
                           c.memory[HALF_BLOCK_SIZE * b + w] = written[c.address + b][w]
<1>1. AtaInv /\ [AtaNext]_ataVars => [A]_call
  BY ReturnBrings DEF Brought, WordOf
<1>2. AtaSpec => [][A]_call
  BY <1>1, DriverInStep, PTL DEF AtaSpec
<1> QED
  BY <1>2 DEF ReadsLastWrite
=============================================================================
