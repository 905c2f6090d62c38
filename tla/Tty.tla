-------------------------------- MODULE Tty --------------------------------
(***************************************************************************)
(* A terminal: kernel/tty_io.c, with what console.c, keyboard.s, serial.c  *)
(* and rs_io.s do to its three queues.  One process reads it and one       *)
(* writes to it; keys are pressed all the time.                            *)
(*                                                                         *)
(* A process in the kernel runs until it sleeps, calls schedule() or       *)
(* returns; interrupts come between any two of its steps.  That of the     *)
(* keyboard goes through a trap gate, and is itself interrupted by the     *)
(* next key; that of the serial line is not.                               *)
(*                                                                         *)
(* Of the write queue only the number of characters matters, of the        *)
(* characters what copy_to_cooked() tells apart.  The two ends of a queue  *)
(* are moved by code that does not know of the code it interrupts: the     *)
(* model says where one end is moved past the other (broken), and stops.   *)
(* c_cc[VTIME], a c_cc[VMIN] above 1 and the flag `stopped', which nothing *)
(* looks at, are left out.                                                 *)
(***************************************************************************)
EXTENDS Integers, Sequences, FiniteSets

CONSTANTS Modes,        \* the settings of terminals: kind, canon and echo
          TTY_BUF_SIZE, \* of a queue; one place is never used
          Keys,         \* the characters that are typed
          Nested,       \* how many keyboard interrupts are in progress
          Sizes,        \* how many characters a process reads or writes
          LeftToRead,   \* 20: with less room left, half a line is read
          LeftToWrite,  \* 128: a writer wakes when there is that much room
          Startup       \* 256: and is looked for from here down

Processes == {"reader", "writer"}

ASSUME TtyAssumption ==
    /\ Modes \subseteq [kind : {"console", "serial"}, canon : BOOLEAN, echo : BOOLEAN]
    /\ TTY_BUF_SIZE \in Nat \ {0, 1} /\ Nested \in Nat \ {0}
    /\ Keys \subseteq {"letter", "newline", "eof", "erase", "interrupt"}
    /\ Sizes \subseteq Nat \ {0} /\ {LeftToRead, LeftToWrite, Startup} \subseteq Nat
    /\ LeftToWrite + Startup < TTY_BUF_SIZE

VARIABLES
    mode,    \* the terminal
    read_q, secondary, \* what is in two of its queues
    data,    \* secondary.data, the lines in it
    write_q, \* how many characters are in the third one
    tx,      \* the transmit interrupt is enabled
    intr,    \* the calls of copy_to_cooked() in progress, the last one runs
    at,      \* at[p]: where p is, what it has still to do, and its signal
    cpu,     \* the process that is in the kernel
    broken   \* an end of a queue has been moved past the other

ttyQueues == <<read_q, secondary, data, write_q, tx>>
ttyVars == <<mode, ttyQueues, intr, at, cpu, broken>>

Lines == {"newline", "eof"}
LEFT(n) == TTY_BUF_SIZE - 1 - n
FULL(n) == LEFT(n) = 0
Serial == mode.kind = "serial"

AtUser == [pc |-> "user", nr |-> 0, n |-> 0, signal |-> FALSE]
TtyInit ==
    /\ mode \in Modes
    /\ read_q = <<>> /\ secondary = <<>> /\ data = 0 /\ write_q = 0 /\ tx = FALSE
    /\ intr = <<>> /\ at = [p \in Processes |-> AtUser] /\ cpu = "nobody" /\ broken = "no"

Breaks(how) == broken' = how /\ UNCHANGED <<mode, ttyQueues, intr, at, cpu>>

-----------------------------------------------------------------------------
(* Interrupts *)

(* read_char, put_queue: a character that does not fit is dropped; it is   *)
(* only the serial line that does not look at its queue then.              *)
Begun == [pc |-> "loop", c |-> "none", n |-> 0]
Key(c) ==
    /\ broken = "no" /\ Len(intr) < (IF Serial THEN 1 ELSE Nested)
    /\ \/ ~FULL(Len(read_q)) /\ read_q' = Append(read_q, c)
       \/ FULL(Len(read_q)) /\ ~Serial /\ UNCHANGED read_q
    /\ intr' = Append(intr, Begun)
    /\ UNCHANGED <<mode, secondary, data, write_q, tx, at, cpu, broken>>

Top == intr[Len(intr)]
Below == SubSeq(intr, 1, Len(intr) - 1)
InHandler(l) == broken = "no" /\ intr # <<>> /\ Top.pc = l
Continue(l, c) == intr' = [intr EXCEPT ![Len(intr)] = [pc |-> l, c |-> c, n |-> 0]]

Woken(p, l) == IF at[p].pc = "asleep" THEN [at EXCEPT ![p].pc = l] ELSE at
\* faulty: the reader is not told
CookedQuietly == at
(* copy_to_cooked() is done: wake_up() of the reader. *)
CookedWakes == Woken("reader", "woken")
CookEnds ==
    /\ InHandler("loop") /\ (read_q = <<>> \/ FULL(Len(secondary)))
    /\ intr' = Below /\ at' = CookedWakes
    /\ UNCHANGED <<mode, ttyQueues, cpu, broken>>

(* The test of the loop, and then GETCH(): a call that interrupts this one *)
(* between them may take what is there, or leave no room in secondary.     *)
CookTests ==
    /\ InHandler("loop") /\ read_q # <<>> /\ ~FULL(Len(secondary))
    /\ Continue("get", "none")
    /\ UNCHANGED <<mode, ttyQueues, at, cpu, broken>>

(* A character is taken.  ERASE does nothing at the start of a line; INTR  *)
(* signals the process group: whoever is not in a call takes it at once.   *)
InCall(p) == at[p].pc # "user"
\* faulty: the line before is erased
OnlyEmpty == secondary = <<>>
StartOfLine == \A i \in 1..Len(secondary) : i = Len(secondary) => secondary[i] \in Lines
CookOne ==
    LET c == Head(read_q) IN
    /\ InHandler("get") /\ read_q # <<>>
    /\ read_q' = Tail(read_q)
    /\ \/ /\ c = "interrupt"
          /\ at' = [p \in Processes |-> IF ~InCall(p) THEN at[p]
                        ELSE [at[p] EXCEPT !.signal = TRUE,
                                           !.pc = IF @ = "asleep" THEN "woken" ELSE @]]
          /\ Continue("loop", "none") /\ UNCHANGED data
       \/ /\ c = "erase" /\ mode.canon /\ StartOfLine
          /\ Continue("loop", "none") /\ UNCHANGED <<data, at>>
       \/ /\ c # "interrupt" /\ ~(c = "erase" /\ mode.canon /\ StartOfLine)
          /\ data' = IF c \in Lines THEN data + 1 ELSE data
          /\ Continue(IF mode.echo THEN "echo" ELSE "put", c)
          /\ UNCHANGED at
    /\ UNCHANGED <<mode, secondary, write_q, tx, cpu, broken>>

CookNothing == InHandler("get") /\ read_q = <<>> /\ Breaks("underrun")

(* The echo is put into the write queue whether there is room or not.      *)
Echo(c) == IF c \in Lines THEN 2 ELSE 1
CookEcho ==
    /\ InHandler("echo")
    /\ \/ /\ LEFT(write_q) < Echo(Top.c) /\ Breaks("overrun")
       \/ /\ LEFT(write_q) >= Echo(Top.c)
          /\ write_q' = write_q + Echo(Top.c)
          /\ tx' = (Serial \/ tx)
          /\ intr' = [intr EXCEPT ![Len(intr)] =
                         [@ EXCEPT !.pc = IF Serial THEN "put" ELSE "draw", !.n = write_q']]
          /\ UNCHANGED <<mode, read_q, secondary, data, at, cpu, broken>>

(* con_write() has counted n characters, and takes so many.                *)
Draw(n) == /\ write_q' = write_q - n
           /\ UNCHANGED <<mode, read_q, secondary, data, tx, broken>>
CookDraw ==
    /\ InHandler("draw")
    /\ \/ write_q < Top.n /\ Breaks("drained")
       \/ /\ write_q >= Top.n /\ Draw(Top.n)
          /\ Continue("put", Top.c) /\ UNCHANGED <<at, cpu>>

(* The character goes to the secondary queue, or comes off it.  A call     *)
(* that has been interrupted with a character in hand will be too late;    *)
(* a reader may be about to take what is erased.                           *)
Erasing == Top.c = "erase" /\ mode.canon
InHands == {"echo", "draw", "put"}
Late == \E i \in 1..Len(intr) - 1 : intr[i].pc \in InHands
UnderReader == Erasing /\ at["reader"].pc = "take" /\ Len(secondary) = 1
NoRoom == ~Erasing /\ FULL(Len(secondary))
CookPut ==
    /\ InHandler("put")
    /\ \/ Late /\ Breaks("swapped")
       \/ ~Late /\ UnderReader /\ Breaks("erased")
       \/ ~Late /\ NoRoom /\ Breaks("overrun")
       \/ /\ ~Late /\ ~UnderReader /\ ~NoRoom
          /\ secondary' = IF Erasing THEN SubSeq(secondary, 1, Len(secondary) - 1)
                          ELSE Append(secondary, Top.c)
          /\ Continue("loop", "none")
          /\ UNCHANGED <<mode, read_q, data, write_q, tx, at, cpu, broken>>

(* write_char, write_buffer_empty: the writer is woken when little or      *)
(* nothing is left.                                                        *)
Transmit ==
    LET left == IF write_q = 0 THEN 0 ELSE write_q - 1 IN
    /\ broken = "no" /\ tx /\ intr = <<>>
    /\ write_q' = left /\ tx' = (left > 0)
    /\ at' = IF write_q <= Startup \/ left = 0 THEN Woken("writer", "woken") ELSE at
    /\ UNCHANGED <<mode, read_q, secondary, data, intr, cpu, broken>>

-----------------------------------------------------------------------------
(* Processes *)

Runs(p, l) == broken = "no" /\ intr = <<>> /\ cpu = p /\ at[p].pc = l
Stays(p, me) == at' = [at EXCEPT ![p] = me] /\ UNCHANGED cpu
Leaves(p, me) == at' = [at EXCEPT ![p] = me] /\ cpu' = "nobody"
(* The signal is taken on the way out. *)
Returns(p) == Leaves(p, AtUser)

Call(p) ==
    /\ broken = "no" /\ intr = <<>> /\ cpu = "nobody" /\ at[p].pc = "user"
    /\ cpu' = p
    /\ \E nr \in Sizes : at' = [at EXCEPT ![p] = [@ EXCEPT !.pc = "top", !.nr = nr]]
    /\ UNCHANGED <<mode, ttyQueues, intr, broken>>
(* The scheduler *)
Dispatch(p) ==
    /\ broken = "no" /\ intr = <<>> /\ cpu = "nobody" /\ at[p].pc \in {"woken", "yield"}
    /\ cpu' = p
    /\ at' = [at EXCEPT ![p].pc = IF p = "writer" /\ @ = "woken" THEN "low" ELSE "top"]
    /\ UNCHANGED <<mode, ttyQueues, intr, broken>>

(* tty_read(): when part of a line is there it neither reads nor sleeps,   *)
(* and no other process runs.                                              *)
HalfLine == mode.canon /\ data = 0 /\ LEFT(Len(secondary)) > LeftToRead
Spins == /\ cpu = "reader" /\ at["reader"].pc = "top" /\ ~at["reader"].signal
         /\ secondary # <<>> /\ HalfLine
ReadLoop ==
    LET me == at["reader"] IN
    /\ Runs("reader", "top")
    /\ \/ me.signal /\ Returns("reader")
       \/ /\ ~me.signal /\ secondary = <<>> /\ Leaves("reader", [me EXCEPT !.pc = "asleep"])
       \/ /\ ~me.signal /\ secondary # <<>> /\ ~HalfLine
          /\ Stays("reader", [me EXCEPT !.pc = "take"])
    /\ UNCHANGED <<mode, ttyQueues, intr, broken>>

Counts(c) == c \in Lines
(* What follows a character: the end of the call, or the next one, of the  *)
(* same line or not.  An end of file is taken but not handed over.         *)
AfterChar(rest, c) ==
    LET me == at["reader"] IN
    IF (c = "eof" /\ mode.canon) \/ me.nr = 1 \/ rest = <<>> THEN Returns("reader")
    ELSE Stays("reader", [me EXCEPT !.pc = "take", !.nr = @ - 1])
ReadTake ==
    LET c == Head(secondary) IN
    /\ Runs("reader", "take")
    /\ secondary' = Tail(secondary)
    /\ \/ Counts(c) /\ Stays("reader", [at["reader"] EXCEPT !.pc = c])
       \/ ~Counts(c) /\ AfterChar(Tail(secondary), c)
    /\ UNCHANGED <<mode, read_q, data, write_q, tx, intr, broken>>
ReadCount ==
    /\ \E c \in Lines : Runs("reader", c) /\ AfterChar(secondary, c)
    /\ data' = data - 1
    /\ UNCHANGED <<mode, read_q, secondary, write_q, tx, intr, broken>>

(* tty_write(): sleep_if_full(), which sleeps on until there is much room. *)
WriteLoop ==
    LET me == at["writer"]
        sleeps == ~me.signal /\ IF me.pc = "top" THEN FULL(write_q)
                                ELSE LEFT(write_q) < LeftToWrite
    IN  /\ Runs("writer", "top") \/ Runs("writer", "low")
        /\ \/ sleeps /\ Leaves("writer", [me EXCEPT !.pc = "asleep"])
           \/ ~sleeps /\ me.signal /\ Returns("writer")
           \/ ~sleeps /\ ~me.signal /\ Stays("writer", [me EXCEPT !.pc = "test"])
        /\ UNCHANGED <<mode, ttyQueues, intr, broken>>

\* faulty: FULL() one character too late
NotFullYet(n) == LEFT(n) >= 0
HasRoom(n) == ~FULL(n)
WriteTest ==
    LET me == at["writer"] IN
    /\ Runs("writer", "test")
    /\ Stays("writer", [me EXCEPT !.pc = IF me.nr > 0 /\ HasRoom(write_q) THEN "put" ELSE "write"])
    /\ UNCHANGED <<mode, ttyQueues, intr, broken>>
WritePut ==
    LET me == at["writer"] IN
    /\ Runs("writer", "put")
    /\ \/ FULL(write_q) /\ Breaks("overrun")
       \/ /\ ~FULL(write_q) /\ write_q' = write_q + 1
          /\ Stays("writer", [me EXCEPT !.pc = "test", !.nr = @ - 1])
          /\ UNCHANGED <<mode, read_q, secondary, data, tx, intr, broken>>

(* tty->write(): rs_write() enables the interrupt, con_write() draws; then *)
(* the call ends, or other processes run first.                            *)
Enables == write_q > 0
Wrote ==
    LET me == at["writer"] IN
    IF me.nr > 0 THEN Leaves("writer", [me EXCEPT !.pc = "yield", !.n = 0]) ELSE Returns("writer")
WriteOut ==
    /\ Runs("writer", "write")
    /\ \/ /\ Serial /\ tx' = (tx \/ Enables) /\ Wrote
       \/ /\ ~Serial /\ UNCHANGED tx
          /\ Stays("writer", [at["writer"] EXCEPT !.pc = "draw", !.n = write_q])
    /\ UNCHANGED <<mode, read_q, secondary, data, write_q, intr, broken>>
WriteDraw ==
    /\ Runs("writer", "draw")
    /\ \/ write_q < at["writer"].n /\ Breaks("drained")
       \/ write_q >= at["writer"].n /\ Draw(at["writer"].n) /\ Wrote /\ UNCHANGED intr

-----------------------------------------------------------------------------
Handler == CookEnds \/ CookTests \/ CookOne \/ CookNothing \/ CookEcho \/ CookDraw \/ CookPut
Reader == ReadLoop \/ ReadTake \/ ReadCount
Writer == WriteLoop \/ WriteTest \/ WritePut \/ WriteOut \/ WriteDraw

TtyNext ==
    \/ \E c \in Keys : Key(c)
    \/ Handler \/ Transmit
    \/ \E p \in Processes : Call(p) \/ Dispatch(p)
    \/ Reader \/ Writer

TtySpec == TtyInit /\ [][TtyNext]_ttyVars

-----------------------------------------------------------------------------
(* secondary.data is the number of lines in the queue, give or take those  *)
(* that an interrupt or the reader has in hand: a reader neither waits for *)
(* a line that is there nor for one that has been read (copy_to_cooked,    *)
(* tty_read).                                                              *)
LinesIn(q) == Cardinality({i \in 1..Len(q) : q[i] \in Lines})
InHand == Cardinality({i \in 1..Len(intr) : intr[i].c \in Lines})
          + IF at["reader"].pc \in Lines THEN 1 ELSE 0
DataCounts == data = LinesIn(secondary) + InHand

(* A serial line without echo that is not edited is never broken, whatever *)
(* comes between the steps of those who use it (PUTCH, GETCH).             *)
RawIsSafe == Serial /\ ~mode.canon /\ ~mode.echo => broken = "no"

(* A reader sleeps only while secondary is empty, or a handler is about to *)
(* wake it; a writer only on a line that sends, and will wake it.  What    *)
(* found secondary full is still in read_q then and waits for the next key *)
(* (sleep_if_empty, sleep_if_full, copy_to_cooked, rs_write, write_char).  *)
SleepersAreWoken ==
    /\ at["reader"].pc = "asleep" => secondary = <<>> \/ intr # <<>>
    /\ at["writer"].pc = "asleep" => Serial /\ tx /\ write_q > 0

(* The next key reaches a reader that sleeps, be it on a console or on a   *)
(* serial line.  It does not: read_char does not call do_tty_interrupt()   *)
(* when read_q is full, and nothing else ever empties it.                  *)
KeyReachesReader ==
    at["reader"].pc = "asleep" /\ intr = <<>> /\ broken = "no" =>
        \A c \in Keys : ENABLED Key(c)
=============================================================================
