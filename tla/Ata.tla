-------------------------------- MODULE Ata ---------------------------------
(***************************************************************************)
(* read_blocks and write_blocks of disk.c, one port access a step, against *)
(* a device that works on its own between them.                             *)
(*                                                                         *)
(* The kernel's copy of disk.c runs with interrupts off; the copy linked   *)
(* into a program runs with them on, so that another program's calls may   *)
(* come between any two of its accesses.  The device is external: it is    *)
(* busy from the command on, works on one block at a time, and while busy  *)
(* or without a command takes and delivers nothing.                        *)
(***************************************************************************)
EXTENDS Integers, Sequences

CONSTANTS
    Programs,        \* each with its copy of the driver
    BlockCount,      \* blocks of the device
    Base,            \* values of an address register
    HALF_BLOCK_SIZE, \* words of a block
    MaxCount,        \* blocks of the longest call
    MaxCalls,        \* bound on calls
    OneAtATime       \* TRUE: no call begins within another program's

ASSUME AtaConstants ==
    /\ BlockCount \in Nat \ {0} /\ Base \in Nat \ {0, 1}
    /\ HALF_BLOCK_SIZE \in Nat \ {0}
    /\ MaxCount \in 1 .. BlockCount /\ MaxCalls \in Nat
    /\ OneAtATime \in BOOLEAN

VARIABLES
    blocks,     \* what is on the medium
    registers,  \* the device's sector count and address registers
    drive,      \* what it does
    call,       \* the last or current call of each program
    calls,      \* so far
    written     \* history: what the calls that have ended wrote

ataVars == <<blocks, registers, drive, call, calls, written>>

Blocks == 0 .. BlockCount - 1
Words == 1 .. HALF_BLOCK_SIZE
Noise == <<-1, -1>>               \* read from a port that delivers nothing

-----------------------------------------------------------------------------
(* The device.                                                              *)

Resting == [busy |-> FALSE, mode |-> "none", at |-> 0, left |-> 0, buffer |-> <<>>]

Selected == registers.low + Base * (registers.mid + Base * (registers.high + Base * registers.head))

Started(mode) ==
    IF drive.busy THEN drive
    ELSE IF Selected + registers.count > BlockCount THEN Resting
    ELSE [busy |-> TRUE, mode |-> mode, at |-> Selected,
          left |-> registers.count, buffer |-> <<>>]

\* After a block: the next one, busy from now on, or rest.
NextBlock(busy) ==
    IF drive.left = 1 THEN Resting
    ELSE [drive EXCEPT !.busy = busy, !.at = @ + 1, !.left = @ - 1, !.buffer = <<>>]

Fetch ==
    /\ drive.busy /\ drive.mode = "read"
    /\ drive' = [drive EXCEPT !.busy = FALSE, !.buffer = blocks[drive.at]]
    /\ UNCHANGED <<blocks, registers, call, calls, written>>

Accept ==
    /\ drive.busy /\ drive.mode = "write" /\ drive.buffer = <<>>
    /\ drive' = [drive EXCEPT !.busy = FALSE]
    /\ UNCHANGED <<blocks, registers, call, calls, written>>

Store ==
    /\ drive.busy /\ drive.mode = "write" /\ Len(drive.buffer) = HALF_BLOCK_SIZE
    /\ blocks' = [blocks EXCEPT ![drive.at] = drive.buffer]
    /\ drive' = NextBlock(FALSE)
    /\ UNCHANGED <<registers, call, calls, written>>

\* The data port.
Delivers == drive.mode = "read" /\ ~drive.busy
Takes == drive.mode = "write" /\ ~drive.busy
Delivered == IF Delivers THEN Head(drive.buffer) ELSE Noise
AfterIn ==
    IF ~Delivers THEN drive
    ELSE IF Len(drive.buffer) = 1 THEN NextBlock(TRUE)
    ELSE [drive EXCEPT !.buffer = Tail(@)]
AfterOut(word) ==
    IF ~Takes THEN drive
    ELSE [drive EXCEPT !.buffer = Append(@, word),
                       !.busy = Len(drive.buffer) + 1 = HALF_BLOCK_SIZE]

-----------------------------------------------------------------------------
(* The driver.  pc names what is done next; block and word are i and j.     *)

Ports == <<"head", "count", "low", "mid", "high">>     \* in the order of the code

\* Mutant: the third address register gets the bits of the second.
ShiftForgotten(c, port) ==
    CASE port = "head"  -> (((c.address \div Base) \div Base) \div Base) % 16
      [] port = "count" -> c.count
      [] port = "low"   -> c.address % Base
      [] port \in {"mid", "high"} -> (c.address \div Base) % Base

\* Only the low byte of what is shifted down reaches a register, of the head's four
\* bits.
RegisterValue(c, port) ==
    CASE port = "head"  -> (((c.address \div Base) \div Base) \div Base) % 16
      [] port = "count" -> c.count
      [] port = "low"   -> c.address % Base
      [] port = "mid"   -> (c.address \div Base) % Base
      [] port = "high"  -> ((c.address \div Base) \div Base) % Base

NoCall == [op |-> "read", pc |-> "idle", address |-> 0, count |-> 0,
           port |-> 1, block |-> 0, word |-> 0, memory |-> <<>>]

Begin(p) == \E op \in {"read", "write"}, address \in Blocks, count \in 1 .. MaxCount :
    /\ call[p].pc = "idle" /\ calls < MaxCalls
    /\ OneAtATime => \A q \in Programs : call[q].pc = "idle"
    /\ address + count <= BlockCount
    /\ calls' = calls + 1
    /\ call' = [call EXCEPT ![p] =
           [NoCall EXCEPT !.op = op, !.pc = "wait", !.address = address, !.count = count,
               !.memory = [k \in 1 .. count * HALF_BLOCK_SIZE |->
                              IF op = "write" THEN <<calls', k>> ELSE Noise]]]
    /\ UNCHANGED <<blocks, registers, drive, written>>

ATA_busy_wait(p) ==
    /\ call[p].pc \in {"wait", "busy"} /\ ~drive.busy
    /\ call' = [call EXCEPT ![p].pc = IF @ = "wait" THEN "select" ELSE "ready"]
    /\ UNCHANGED <<blocks, registers, drive, calls, written>>

\* Mutant: waits for the bit to go down.
WaitNotReady(p) ==
    /\ call[p].pc = "ready" /\ drive.busy
    /\ call' = [call EXCEPT ![p].pc = "data", ![p].word = 0]
    /\ UNCHANGED <<blocks, registers, drive, calls, written>>

\* In spite of its name it waits for RDY, which is up whenever BSY is down.
ATA_DRQ_wait(p) ==
    /\ call[p].pc = "ready" /\ ~drive.busy
    /\ call' = [call EXCEPT ![p].pc = "data", ![p].word = 0]
    /\ UNCHANGED <<blocks, registers, drive, calls, written>>

Select(p) ==
    LET c == call[p]
        port == Ports[c.port]
    IN  /\ c.pc = "select"
        /\ registers' = IF drive.busy THEN registers
                        ELSE [registers EXCEPT ![port] = RegisterValue(c, port)]
        /\ call' = [call EXCEPT ![p].port = @ + 1,
                                ![p].pc = IF c.port = Len(Ports) THEN "command" ELSE @]
        /\ UNCHANGED <<blocks, drive, calls, written>>

Command(p) ==
    /\ call[p].pc = "command"
    /\ drive' = Started(call[p].op)
    /\ call' = [call EXCEPT ![p].pc = "busy"]
    /\ UNCHANGED <<blocks, registers, calls, written>>

\* Place of word j of block i in the caller's buffer.
Place(c) == HALF_BLOCK_SIZE * c.block + c.word + 1

\* Mutant: the wait stands before the loop over the blocks.
WaitsOnce(c) ==
    IF c.word + 1 < HALF_BLOCK_SIZE THEN [c EXCEPT !.word = @ + 1]
    ELSE IF c.block + 1 < c.count THEN [c EXCEPT !.word = 0, !.block = @ + 1]
    ELSE [c EXCEPT !.pc = "idle"]

\* After a word: the next one, the next block or the return.
Advanced(c) ==
    IF c.word + 1 < HALF_BLOCK_SIZE THEN [c EXCEPT !.word = @ + 1]
    ELSE IF c.block + 1 < c.count THEN [c EXCEPT !.pc = "busy", !.block = @ + 1]
    ELSE [c EXCEPT !.pc = "idle"]

read_blocks(p) ==
    LET c == call[p] IN
    /\ c.pc = "data" /\ c.op = "read"
    /\ call' = [call EXCEPT ![p] = Advanced([c EXCEPT !.memory[Place(c)] = Delivered])]
    /\ drive' = AfterIn
    /\ UNCHANGED <<blocks, registers, calls, written>>

\* The call returns when the last word has been handed over.
write_blocks(p) ==
    LET c == call[p] IN
    /\ c.pc = "data" /\ c.op = "write"
    /\ call' = [call EXCEPT ![p] = Advanced(c)]
    /\ drive' = AfterOut(c.memory[Place(c)])
    /\ written' = IF call'[p].pc # "idle" THEN written
                  ELSE [b \in Blocks |->
                           IF b \notin c.address .. c.address + c.count - 1 THEN written[b]
                           ELSE [w \in Words |->
                                    c.memory[HALF_BLOCK_SIZE * (b - c.address) + w]]]
    /\ UNCHANGED <<blocks, registers, calls>>

Driver(p) == \/ ATA_busy_wait(p) \/ ATA_DRQ_wait(p) \/ Select(p) \/ Command(p)
             \/ read_blocks(p) \/ write_blocks(p)

AtaInit ==
    /\ blocks = [b \in Blocks |-> [w \in Words |-> <<0, b>>]]
    /\ registers = [head |-> 0, count |-> 0, low |-> 0, mid |-> 0, high |-> 0]
    /\ drive = Resting
    /\ call = [p \in Programs |-> NoCall]
    /\ calls = 0
    /\ written = blocks

AtaNext == \/ Fetch \/ Accept \/ Store
           \/ \E p \in Programs : Begin(p) \/ Driver(p)

\* The device works and the programs run on.
AtaSpec == /\ AtaInit /\ [][AtaNext]_ataVars
           /\ WF_ataVars(Fetch) /\ WF_ataVars(Accept) /\ WF_ataVars(Store)
           /\ \A p \in Programs : WF_ataVars(Driver(p))

-----------------------------------------------------------------------------
(* Properties.                                                              *)

Quiet == drive = Resting /\ \A p \in Programs : call[p].pc = "idle"

\* When nothing is under way the medium holds what the calls wrote, at the blocks
\* they were given, and every other block is as it was.
MediumHoldsWrites == Quiet => blocks = written

\* A read returns the words of the blocks it was given, in their order, as the last
\* call that wrote them left them.
ReadsLastWrite ==
    [][\A p \in Programs :
          LET c == call'[p] IN
          call[p].pc # "idle" /\ c.pc = "idle" /\ c.op = "read" =>
              \A b \in 0 .. c.count - 1, w \in Words :
                  c.memory[HALF_BLOCK_SIZE * b + w] = written[c.address + b][w]]_call

\* The waits end and with them the call.
CallsReturn == \A p \in Programs : (call[p].pc # "idle") ~> (call[p].pc = "idle")

\* disk.h: write_blocks blocks until the write is completed.
WriteIsCompleted == (\A p \in Programs : call[p].pc = "idle") => blocks = written
=============================================================================
