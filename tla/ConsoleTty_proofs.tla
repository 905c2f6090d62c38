------------------------- MODULE ConsoleTty_proofs --------------------------
(***************************************************************************)
(* The proofs about the two parts of a terminal, its queues (Tty) and its  *)
(* screen (Console). They share no state and no definition.                *)
(*                                                                         *)
(* Tty: data is what a scan of the secondary queue would count, a serial   *)
(* line that is neither edited nor echoed is never broken, the reader does *)
(* not sleep while secondary holds something for it, nor the writer on a   *)
(* line that does not send.                                                *)
(* TtyInv says what a call of copy_to_cooked() in progress still has to    *)
(* do, and what has been seen of a queue by a process that has not acted   *)
(* on it yet.                                                              *)
(*                                                                         *)
(* Console: the cursor and the window stay inside the video memory, and    *)
(* what the window shows is what Screen.tla promises. The address of a     *)
(* cell is linear in its row and its column once the product r * COLUMNS   *)
(* is a name of its own, Line(r). A lemma for each operation says that it  *)
(* takes a sound console to a sound console and what the window shows      *)
(* afterwards; the steps follow from these.                                *)
(***************************************************************************)
EXTENDS Console, Tty, FiniteSetTheorems, SequenceTheorems, TLAPS

Calls == [pc : {"loop", "get", "echo", "draw", "put"}, c : Keys \cup {"none"}, n : Nat]
TtyPlaces == [pc : {"user", "top", "low", "asleep", "woken", "yield", "take", "newline", "eof",
                 "test", "put", "write", "draw"},
           nr : Int, n : Nat, signal : BOOLEAN]
TtyTyped ==
    /\ mode \in Modes
    /\ read_q \in Seq(Keys) /\ secondary \in Seq(Keys) /\ data \in Int
    /\ write_q \in 0..TTY_BUF_SIZE - 1 /\ tx \in BOOLEAN
    /\ intr \in Seq(Calls)
    /\ at \in [Processes -> TtyPlaces]

(* A handler in the middle of con_write(). *)
Drawing == \E i \in 1..Len(intr) : intr[i].pc = "draw"

(* A call of copy_to_cooked() has a character in hand from GETCH() to the  *)
(* end of the round; it erases only what is there; and what con_write() counted before *)
(* it was interrupted is what is left, unless whoever came later has not   *)
(* finished.                                                               *)
CallSound(i) ==
    /\ intr[i].pc \in {"loop", "get"} <=> intr[i].c = "none"
    /\ intr[i].pc = "echo" => mode.echo
    /\ intr[i].pc = "draw" => ~Serial
    /\ intr[i].c = "erase" /\ mode.canon => ~StartOfLine
    /\ intr[i].pc = "draw" => \/ write_q <= intr[i].n
                              \/ \E j \in 1..Len(intr) : j > i /\ intr[j].pc = "draw"
(* What the test of the loop has found stays true where no call interrupts *)
(* another, on a serial line: there is a character, and room for it.       *)
TestHolds ==
    Serial => \A i \in 1..Len(intr) :
        /\ intr[i].pc = "get" => read_q # <<>>
        /\ intr[i].pc # "loop" => ~FULL(Len(secondary))
CallsSound == /\ \A i \in 1..Len(intr) : CallSound(i)
              /\ Serial => Len(intr) <= 1
              /\ TestHolds

(* The reader takes what is there.  A console's write queue is empty when  *)
(* nobody is writing to it; that of a serial line is being sent.           *)
WriterSound ==
    /\ at["writer"].pc = "draw" => ~Serial /\ (write_q <= at["writer"].n \/ Drawing)
    /\ ~Serial /\ at["writer"].pc \notin {"test", "put", "write", "draw"} => write_q = 0 \/ Drawing
    /\ Serial /\ write_q > 0 /\ at["writer"].pc \notin {"test", "put", "write"} => tx
    /\ tx => Serial
    /\ Serial /\ ~mode.echo /\ at["writer"].pc = "put" => ~FULL(write_q)
ReaderSound == at["reader"].pc = "take" => secondary # <<>>

TtyInv ==
    /\ TtyTyped /\ CallsSound /\ WriterSound /\ ReaderSound
    /\ DataCounts /\ RawIsSafe /\ SleepersAreWoken
-----------------------------------------------------------------------------
(* Lines in a queue *)

LEMMA LinesFinite ==
  ASSUME NEW q \in Seq(Keys)
  PROVE  /\ IsFiniteSet({i \in 1..Len(q) : q[i] \in Lines})
         /\ LinesIn(q) \in Nat
<1>1. IsFiniteSet(1..Len(q))
  BY FS_Interval
<1>2. IsFiniteSet({i \in 1..Len(q) : q[i] \in Lines})
  BY <1>1, FS_Subset
<1>. QED BY <1>2, FS_CardinalityType DEF LinesIn

LEMMA LinesAppend ==
  ASSUME NEW q \in Seq(Keys), NEW c \in Keys
  PROVE  LinesIn(Append(q, c)) = LinesIn(q) + IF c \in Lines THEN 1 ELSE 0
<1>. DEFINE A == {i \in 1..Len(q) : q[i] \in Lines}
            n == Len(q) + 1
            B == {i \in 1..Len(Append(q, c)) : Append(q, c)[i] \in Lines}
<1>1. B = IF c \in Lines THEN A \cup {n} ELSE A
  BY AppendProperties
<1>2. n \notin A /\ IsFiniteSet(A)
  BY LinesFinite
<1>3. LinesIn(Append(q, c)) = Cardinality(B) /\ LinesIn(q) = Cardinality(A)
  BY DEF LinesIn
<1>4. LinesIn(q) \in Nat
  BY LinesFinite
<1>. HIDE DEF A, B, n
<1>5. Cardinality(A \cup {n}) = Cardinality(A) + 1
  BY <1>2, FS_AddElement
<1>. QED BY <1>1, <1>3, <1>4, <1>5

LEMMA LinesTail ==
  ASSUME NEW q \in Seq(Keys), q # <<>>
  PROVE  LinesIn(q) = LinesIn(Tail(q)) + IF Head(q) \in Lines THEN 1 ELSE 0
<1>. DEFINE A == {i \in 1..Len(q) : q[i] \in Lines}
            T == {i \in 1..Len(Tail(q)) : Tail(q)[i] \in Lines}
            f == [i \in T |-> i + 1]
<1>1. /\ Tail(q) \in Seq(Keys) /\ Len(Tail(q)) = Len(q) - 1 /\ Len(q) \in Nat \ {0}
      /\ \A i \in 1..Len(Tail(q)) : Tail(q)[i] = q[i + 1]
      /\ Head(q) = q[1]
  BY HeadTailProperties
<1>2. \A i \in T : i + 1 \in A \ {1}
  BY <1>1
<1>3. \A j \in A \ {1} : j - 1 \in T /\ (j - 1) + 1 = j
  BY <1>1
<1>4. \A i, k \in T : i + 1 = k + 1 => i = k
  OBVIOUS
<1>5. f \in Bijection(T, A \ {1})
  <2>1. f \in [T -> A \ {1}]
    BY <1>2
  <2>2. \A i, k \in T : f[i] = f[k] => i = k
    BY <1>4
  <2>3. \A j \in A \ {1} : \E i \in T : f[i] = j
    BY <1>3
  <2>. HIDE DEF f, A, T
  <2>4. f \in Injection(T, A \ {1})
    BY <2>1, <2>2 DEF Injection, IsInjective
  <2>5. f \in Surjection(T, A \ {1})
    BY <2>1, <2>3 DEF Surjection
  <2>. QED BY <2>4, <2>5 DEF Bijection
<1>6. ExistsBijection(T, A \ {1})
  BY <1>5 DEF ExistsBijection
<1>7. IsFiniteSet(T) /\ IsFiniteSet(A)
  BY <1>1, LinesFinite
<1>8. LinesIn(q) = Cardinality(A) /\ LinesIn(Tail(q)) = Cardinality(T)
  BY DEF LinesIn
<1>9. 1 \in A <=> Head(q) \in Lines
  BY <1>1
<1>10. LinesIn(q) \in Nat /\ LinesIn(Tail(q)) \in Nat
  BY <1>1, LinesFinite
<1>. HIDE DEF A, T, f
<1>11. Cardinality(A \ {1}) = Cardinality(T)
  BY <1>6, <1>7, FS_Bijection
<1>12. Cardinality(A \ {1}) = IF 1 \in A THEN Cardinality(A) - 1 ELSE Cardinality(A)
  BY <1>7, FS_RemoveElement
<1>. QED BY <1>8, <1>9, <1>10, <1>11, <1>12

LEMMA Front ==
  ASSUME NEW S, NEW q \in Seq(S), q # <<>>
  PROVE  /\ SubSeq(q, 1, Len(q) - 1) \in Seq(S)
         /\ Len(SubSeq(q, 1, Len(q) - 1)) = Len(q) - 1
         /\ \A i \in 1..Len(q) - 1 : SubSeq(q, 1, Len(q) - 1)[i] = q[i]
<1>. DEFINE n == Len(q) - 1
<1>1. 1 \in Int /\ n \in Nat /\ \A i \in 1..n : q[i] \in S
  OBVIOUS
<1>. HIDE DEF n
<1>2. /\ SubSeq(q, 1, n) \in Seq(S)
      /\ Len(SubSeq(q, 1, n)) = IF 1 <= n THEN n - 1 + 1 ELSE 0
      /\ \A i \in 1..n - 1 + 1 : SubSeq(q, 1, n)[i] = q[1 + i - 1]
  BY <1>1, SubSeqProperties
<1>3. /\ n - 1 + 1 = n /\ (~(1 <= n) => n = 0)
      /\ \A i \in 1..n : 1 + i - 1 = i
  BY <1>1
<1>4. /\ Len(SubSeq(q, 1, n)) = n
      /\ \A i \in 1..n : SubSeq(q, 1, n)[i] = q[i]
  BY <1>2, <1>3
<1>. QED BY <1>2, <1>4 DEF n

LEMMA LinesDrop ==
  ASSUME NEW q \in Seq(Keys), q # <<>>, q[Len(q)] \notin Lines
  PROVE  /\ SubSeq(q, 1, Len(q) - 1) \in Seq(Keys)
         /\ Len(SubSeq(q, 1, Len(q) - 1)) = Len(q) - 1
         /\ LinesIn(SubSeq(q, 1, Len(q) - 1)) = LinesIn(q)
<1>. DEFINE s == SubSeq(q, 1, Len(q) - 1)
<1>1. Len(q) \in Nat \ {0}
  OBVIOUS
<1>2. s \in Seq(Keys) /\ Len(s) = Len(q) - 1 /\ \A i \in 1..Len(s) : s[i] = q[i]
  BY <1>1, Front
<1>. HIDE DEF s
<1>3. {i \in 1..Len(s) : s[i] \in Lines} = {i \in 1..Len(q) : q[i] \in Lines}
  BY <1>1, <1>2
<1>4. LinesIn(s) = LinesIn(q)
  BY <1>3 DEF LinesIn
<1>. QED BY <1>2, <1>4 DEF s
-----------------------------------------------------------------------------
(* Calls of copy_to_cooked() in progress *)

LinesHeld(s) == Cardinality({i \in 1..Len(s) : s[i].c \in Lines})
WithTop(s, e) == [s EXCEPT ![Len(s)] = e]

LEMMA HeldFinite ==
  ASSUME NEW s \in Seq(Calls)
  PROVE  /\ IsFiniteSet({i \in 1..Len(s) : s[i].c \in Lines})
         /\ LinesHeld(s) \in Nat
<1>1. IsFiniteSet(1..Len(s))
  BY FS_Interval
<1>2. IsFiniteSet({i \in 1..Len(s) : s[i].c \in Lines})
  BY <1>1, FS_Subset
<1>. QED BY <1>2, FS_CardinalityType DEF LinesHeld

LEMMA TopSet ==
  ASSUME NEW s \in Seq(Calls), s # <<>>, NEW e \in Calls
  PROVE  /\ WithTop(s, e) \in Seq(Calls)
         /\ Len(WithTop(s, e)) = Len(s) /\ Len(s) \in Nat \ {0}
         /\ WithTop(s, e)[Len(s)] = e
         /\ \A i \in 1..Len(s) : i # Len(s) => WithTop(s, e)[i] = s[i]
<1>1. Len(s) \in 1..Len(s) /\ Len(s) \in Nat \ {0}
  OBVIOUS
<1>. QED BY <1>1, ExceptSeq DEF WithTop

LEMMA HeldTop ==
  ASSUME NEW s \in Seq(Calls), s # <<>>, NEW e \in Calls
  PROVE  LinesHeld(WithTop(s, e)) + (IF s[Len(s)].c \in Lines THEN 1 ELSE 0)
             = LinesHeld(s) + IF e.c \in Lines THEN 1 ELSE 0
<1>. DEFINE n == Len(s)
            w == WithTop(s, e)
            A == {i \in 1..Len(s) : s[i].c \in Lines}
            B == {i \in 1..Len(w) : w[i].c \in Lines}
<1>1. /\ w \in Seq(Calls) /\ Len(w) = n /\ n \in Nat \ {0} /\ w[n] = e
      /\ \A i \in 1..n : i # n => w[i] = s[i]
  BY TopSet
<1>. HIDE DEF w
<1>2. A \ {n} = B \ {n} /\ (n \in A <=> s[n].c \in Lines) /\ (n \in B <=> e.c \in Lines)
  BY <1>1
<1>3. IsFiniteSet(A) /\ IsFiniteSet(B)
  BY <1>1, HeldFinite
<1>4. LinesHeld(s) = Cardinality(A) /\ LinesHeld(w) = Cardinality(B)
      /\ LinesHeld(s) \in Nat /\ LinesHeld(w) \in Nat
  BY <1>1, HeldFinite DEF LinesHeld
<1>. HIDE DEF A, B, n
<1>5. Cardinality(A \ {n}) = IF n \in A THEN Cardinality(A) - 1 ELSE Cardinality(A)
  BY <1>3, FS_RemoveElement
<1>6. Cardinality(B \ {n}) = IF n \in B THEN Cardinality(B) - 1 ELSE Cardinality(B)
  BY <1>3, FS_RemoveElement
<1>. HIDE DEF w
<1>7. LinesHeld(w) + (IF n \in A THEN 1 ELSE 0) = LinesHeld(s) + IF n \in B THEN 1 ELSE 0
  <2>1. (n \in A => Cardinality(A) = Cardinality(A \ {n}) + 1)
        /\ (n \in B => Cardinality(B) = Cardinality(B \ {n}) + 1)
    BY <1>4, <1>5, <1>6
  <2>2. Cardinality(A \ {n}) = Cardinality(B \ {n})
    BY <1>2
  <2>. QED BY <1>4, <1>5, <1>6, <2>1, <2>2
<1>. QED BY <1>2, <1>7 DEF n, w

LEMMA HeldBegins ==
  ASSUME NEW s \in Seq(Calls)
  PROVE  /\ Append(s, Begun) \in Seq(Calls) /\ Begun \in Calls
         /\ Len(Append(s, Begun)) = Len(s) + 1 /\ Len(s) \in Nat
         /\ Append(s, Begun)[Len(s) + 1] = Begun
         /\ \A i \in 1..Len(s) : Append(s, Begun)[i] = s[i]
         /\ LinesHeld(Append(s, Begun)) = LinesHeld(s)
<1>1. Begun \in Calls /\ Begun.c = "none"
  BY DEF Begun, Calls
<1>2. "none" \notin Lines
  BY DEF Lines
<1>3. /\ Append(s, Begun) \in Seq(Calls) /\ Len(Append(s, Begun)) = Len(s) + 1 /\ Len(s) \in Nat
      /\ Append(s, Begun)[Len(s) + 1] = Begun
      /\ \A i \in 1..Len(s) : Append(s, Begun)[i] = s[i]
  BY <1>1, AppendProperties
<1>4. {i \in 1..Len(Append(s, Begun)) : Append(s, Begun)[i].c \in Lines}
        = {i \in 1..Len(s) : s[i].c \in Lines}
  BY <1>1, <1>2, <1>3
<1>. QED BY <1>1, <1>3, <1>4 DEF LinesHeld

LEMMA HeldEnds ==
  ASSUME NEW s \in Seq(Calls), s # <<>>, s[Len(s)].c \notin Lines
  PROVE  LET b == SubSeq(s, 1, Len(s) - 1)
         IN  /\ b \in Seq(Calls) /\ Len(b) = Len(s) - 1
             /\ \A i \in 1..Len(b) : b[i] = s[i]
             /\ LinesHeld(b) = LinesHeld(s)
<1>. DEFINE b == SubSeq(s, 1, Len(s) - 1)
<1>1. Len(s) \in Nat \ {0}
  OBVIOUS
<1>2. b \in Seq(Calls) /\ Len(b) = Len(s) - 1 /\ \A i \in 1..Len(b) : b[i] = s[i]
  BY <1>1, Front
<1>. HIDE DEF b
<1>3. {i \in 1..Len(b) : b[i].c \in Lines} = {i \in 1..Len(s) : s[i].c \in Lines}
  BY <1>1, <1>2
<1>4. LinesHeld(b) = LinesHeld(s)
  BY <1>3 DEF LinesHeld
<1>. QED BY <1>2, <1>4 DEF b
-----------------------------------------------------------------------------
(* What a step leaves alone *)

LEMMA Counting ==
  /\ DataCounts <=> data = LinesIn(secondary)
                           + (LinesHeld(intr) + IF at["reader"].pc \in Lines THEN 1 ELSE 0)
  /\ DataCounts' <=> data' = LinesIn(secondary')
                           + (LinesHeld(intr') + IF at'["reader"].pc \in Lines THEN 1 ELSE 0)
BY DEF DataCounts, InHand, LinesHeld, LinesIn

LEMMA CallsKept ==
  ASSUME CallsSound, UNCHANGED <<mode, intr, read_q, secondary, write_q>>
  PROVE  CallsSound' /\ (Drawing' <=> Drawing)
BY DEF CallsSound, CallSound, Serial, StartOfLine, Drawing, TestHolds, FULL, LEFT

(* The call that runs is the only one on a serial line.                    *)
LEMMA TopTests ==
  ASSUME CallsSound, mode' = mode, Len(intr) \in Nat, Len(intr') = Len(intr),
         Serial => /\ intr'[Len(intr)].pc = "get" => read_q' # <<>>
                   /\ intr'[Len(intr)].pc # "loop" => ~FULL(Len(secondary'))
  PROVE  TestHolds'
<1>1. Serial' <=> Serial
  BY DEF Serial
<1>2. Serial => \A i \in 1..Len(intr') : i = Len(intr)
  BY DEF CallsSound
<1>. QED BY <1>1, <1>2 DEF TestHolds, FULL, LEFT

LEMMA NoCalls ==
  ASSUME intr' = <<>>
  PROVE  CallsSound' /\ ~Drawing' /\ LinesHeld(intr') = 0
<1>1. Len(intr') = 0 /\ 1..Len(intr') = {}
  OBVIOUS
<1>2. {i \in 1..Len(intr') : intr'[i].c \in Lines} = {}
  BY <1>1
<1>3. LinesHeld(intr') = 0
  BY <1>2, FS_EmptySet DEF LinesHeld
<1>4. CallsSound' /\ ~Drawing'
  BY <1>1 DEF CallsSound, Drawing, TestHolds
<1>. QED BY <1>3, <1>4

LEMMA WriterKept ==
  ASSUME WriterSound, UNCHANGED <<mode, write_q, tx>>, Drawing' <=> Drawing,
         at'["writer"].pc = at["writer"].pc, at'["writer"].n = at["writer"].n
  PROVE  WriterSound'
BY DEF WriterSound, Serial, FULL, LEFT

LEMMA SafeKept ==
  ASSUME RawIsSafe, UNCHANGED <<mode, broken>>
  PROVE  RawIsSafe'
BY DEF RawIsSafe, Serial

(* The code that meets a queue it cannot handle is that of an echo, of a   *)
(* line that is edited, or of a console.                                   *)
LEMMA Broken ==
  ASSUME TtyInv, NEW how, Breaks(how), ~(Serial /\ ~mode.canon /\ ~mode.echo)
  PROVE  TtyInv'
<1>. USE DEF TtyInv, Breaks, ttyQueues
<1>1. TtyTyped' /\ ReaderSound' /\ SleepersAreWoken'
  BY DEF TtyTyped, ReaderSound, SleepersAreWoken, Serial
<1>2. CallsSound' /\ (Drawing' <=> Drawing)
  BY CallsKept
<1>3. WriterSound'
  BY <1>2, WriterKept
<1>4. DataCounts'
  BY Counting
<1>5. RawIsSafe'
  BY DEF RawIsSafe, Serial
<1>. QED BY <1>1, <1>2, <1>3, <1>4, <1>5

LEMMA PlaceSet ==
  ASSUME TtyTyped, NEW p \in Processes, NEW me \in TtyPlaces, at' = [at EXCEPT ![p] = me]
  PROVE  /\ at' \in [Processes -> TtyPlaces] /\ at'[p] = me
         /\ \A o \in Processes : o # p => at'[o] = at[o]
BY DEF TtyTyped

LEMMA PlaceWoken ==
  ASSUME TtyTyped, NEW p \in Processes
  PROVE  /\ Woken(p, "woken") \in [Processes -> TtyPlaces]
         /\ \A o \in Processes :
              /\ Woken(p, "woken")[o].n = at[o].n
              /\ Woken(p, "woken")[o].pc = IF o = p /\ at[o].pc = "asleep" THEN "woken" ELSE at[o].pc
<1>1. at[p] \in TtyPlaces /\ \A o \in Processes : at[o] \in TtyPlaces
  BY DEF TtyTyped
<1>2. CASE at[p].pc = "asleep"
  <2>1. PICK me : me = [at[p] EXCEPT !.pc = "woken"]
    OBVIOUS
  <2>2. me \in TtyPlaces /\ me.pc = "woken" /\ me.n = at[p].n
    BY <1>1, <2>1 DEF TtyPlaces
  <2>3. Woken(p, "woken") = [at EXCEPT ![p] = me]
    BY <1>2, <2>1 DEF Woken
  <2>. QED BY <1>2, <2>2, <2>3 DEF TtyTyped
<1>3. CASE at[p].pc # "asleep"
  BY <1>3 DEF Woken, TtyTyped
<1>. QED BY <1>2, <1>3
-----------------------------------------------------------------------------
(* Interrupts *)

LEMMA KeyStep ==
  ASSUME TtyInv, NEW c \in Keys, Key(c)
  PROVE  TtyInv'
<1>. USE DEF TtyInv
<1>1. /\ intr' = Append(intr, Begun) /\ UNCHANGED <<mode, secondary, data, write_q, tx, at, broken>>
      /\ intr \in Seq(Calls) /\ Len(intr) < (IF Serial THEN 1 ELSE Nested)
  BY DEF Key, TtyTyped
<1>2. /\ intr' \in Seq(Calls) /\ Len(intr') = Len(intr) + 1 /\ Len(intr) \in Nat
      /\ intr'[Len(intr) + 1].pc = "loop" /\ intr'[Len(intr) + 1].c = "none"
      /\ \A i \in 1..Len(intr) : intr'[i] = intr[i]
      /\ LinesHeld(intr') = LinesHeld(intr)
  BY <1>1, HeldBegins DEF Begun
<1>3. read_q' \in Seq(Keys)
  <2>1. read_q \in Seq(Keys) /\ Append(read_q, c) \in Seq(Keys)
    BY AppendProperties DEF TtyTyped
  <2>2. read_q' = Append(read_q, c) \/ read_q' = read_q
    BY DEF Key
  <2>. QED BY <2>1, <2>2
<1>4. TtyTyped'
  BY <1>1, <1>2, <1>3 DEF TtyTyped
<1>5. \A i \in 1..Len(intr) : CallSound(i)'
  BY <1>1, <1>2 DEF CallsSound, CallSound, Serial, StartOfLine
<1>6. ASSUME NEW k, k = Len(intr) + 1 PROVE CallSound(k)'
  BY <1>1, <1>2, <1>6 DEF CallSound, Serial, StartOfLine
<1>7. CallsSound'
  <2>1. \A i \in 1..Len(intr') : i \in 1..Len(intr) \/ i = Len(intr) + 1
    BY <1>2
  <2>2. \A i \in 1..Len(intr') : CallSound(i)'
    BY <1>5, <1>6, <2>1
  <2>3. Serial' => Len(intr') <= 1
    BY <1>1, <1>2 DEF Serial
  <2>4. TestHolds'
    <3>1. Serial' => Len(intr') = 1 /\ intr'[1].pc = "loop"
      <4>1. Serial' => Len(intr) < 1
        BY <1>1 DEF Serial
      <4>2. Serial' => Len(intr) = 0
        BY <1>2, <4>1
      <4>. QED BY <1>2, <4>2
    <3>2. Serial' => \A i \in 1..Len(intr') : intr'[i].pc = "loop"
      <4>1. Len(intr') = 1 => \A i \in 1..Len(intr') : i = 1
        OBVIOUS
      <4>. QED BY <3>1, <4>1
    <3>. QED BY <3>2 DEF TestHolds
  <2>. QED BY <2>2, <2>3, <2>4 DEF CallsSound
<1>8. Drawing' <=> Drawing
  <2>1. \A i \in 1..Len(intr') : i \in 1..Len(intr) \/ i = Len(intr) + 1
    BY <1>2
  <2>2. \A i \in 1..Len(intr) : i \in 1..Len(intr')
    BY <1>2
  <2>. QED BY <1>2, <2>1, <2>2 DEF Drawing
<1>9. WriterSound' /\ RawIsSafe'
  BY <1>1, <1>8, WriterKept, SafeKept
<1>10. ReaderSound' /\ DataCounts'
  BY <1>1, <1>2, Counting DEF ReaderSound
<1>11. SleepersAreWoken'
  <2>1. intr' # <<>>
    BY <1>1, <1>2, HeldBegins
  <2>. QED BY <1>1, <2>1 DEF SleepersAreWoken, Serial
<1>. QED BY <1>4, <1>7, <1>9, <1>10, <1>11

LEMMA CookEndsStep ==
  ASSUME TtyInv, CookEnds
  PROVE  TtyInv'
<1>. USE DEF TtyInv
<1>1. /\ intr \in Seq(Calls) /\ intr # <<>> /\ intr[Len(intr)].pc = "loop"
      /\ intr' = SubSeq(intr, 1, Len(intr) - 1) /\ at' = Woken("reader", "woken")
      /\ UNCHANGED <<mode, read_q, secondary, data, write_q, tx, broken>>
      /\ "reader" \in Processes /\ "writer" \in Processes
  BY DEF CookEnds, InHandler, Top, Below, CookedWakes, ttyQueues, TtyTyped, Processes
<1>2. Len(intr) \in 1..Len(intr) /\ intr[Len(intr)].c = "none" /\ Len(intr) \in Nat
  BY <1>1 DEF CallsSound, CallSound
<1>3. /\ intr' \in Seq(Calls) /\ Len(intr') = Len(intr) - 1
      /\ \A i \in 1..Len(intr') : intr'[i] = intr[i]
      /\ LinesHeld(intr') = LinesHeld(intr)
  BY <1>1, <1>2, HeldEnds DEF Lines
<1>4. /\ at' \in [Processes -> TtyPlaces]
      /\ at'["writer"].pc = at["writer"].pc /\ at'["writer"].n = at["writer"].n
      /\ at'["reader"].pc = IF at["reader"].pc = "asleep" THEN "woken" ELSE at["reader"].pc
  BY <1>1, PlaceWoken
<1>5. TtyTyped'
  BY <1>1, <1>3, <1>4 DEF TtyTyped
<1>6. \A i \in 1..Len(intr) : intr[i].pc = "draw" => i \in 1..Len(intr')
  BY <1>1, <1>2, <1>3
<1>7. CallsSound'
  <2>1. \A i \in 1..Len(intr') : i \in 1..Len(intr) /\ intr'[i] = intr[i]
    BY <1>2, <1>3
  <2>2. \A i \in 1..Len(intr') : CallSound(i)'
    BY <1>1, <1>6, <2>1, SMTT(60) DEF CallsSound, CallSound, Serial, StartOfLine
  <2>3. Serial' => Len(intr') = 0
    BY <1>1, <1>2, <1>3 DEF CallsSound, Serial
  <2>4. TestHolds'
    BY <2>3 DEF TestHolds
  <2>. QED BY <1>1, <1>2, <1>3, <2>2, <2>4 DEF CallsSound, Serial
<1>8. Drawing' <=> Drawing
  BY <1>2, <1>3, <1>6 DEF Drawing
<1>9. WriterSound' /\ RawIsSafe'
  BY <1>1, <1>4, <1>8, WriterKept, SafeKept
<1>10. ReaderSound' /\ DataCounts'
  BY <1>1, <1>3, <1>4, Counting DEF ReaderSound, Lines
<1>11. SleepersAreWoken'
  BY <1>1, <1>4 DEF SleepersAreWoken, Serial
<1>. QED BY <1>5, <1>7, <1>9, <1>10, <1>11

LEMMA TopStep ==
  ASSUME NEW e \in Calls, intr \in Seq(Calls), intr # <<>>,
         intr' = [intr EXCEPT ![Len(intr)] = e]
  PROVE  /\ intr' \in Seq(Calls) /\ Len(intr') = Len(intr)
         /\ Len(intr) \in Nat /\ Len(intr) \in 1..Len(intr)
         /\ intr'[Len(intr)] = e /\ intr' # <<>>
         /\ \A i \in 1..Len(intr) : i # Len(intr) => intr'[i] = intr[i] /\ i < Len(intr)
         /\ LinesHeld(intr') + (IF intr[Len(intr)].c \in Lines THEN 1 ELSE 0)
                = LinesHeld(intr) + IF e.c \in Lines THEN 1 ELSE 0
         /\ LinesHeld(intr') \in Nat /\ LinesHeld(intr) \in Nat
<1>1. intr' = WithTop(intr, e)
  BY DEF WithTop
<1>. DEFINE w == WithTop(intr, e)
<1>2. /\ w \in Seq(Calls) /\ Len(w) = Len(intr) /\ Len(intr) \in Nat \ {0}
      /\ w[Len(intr)] = e
      /\ \A i \in 1..Len(intr) : i # Len(intr) => w[i] = intr[i]
  BY TopSet
<1>3. LinesHeld(w) + (IF intr[Len(intr)].c \in Lines THEN 1 ELSE 0)
          = LinesHeld(intr) + IF e.c \in Lines THEN 1 ELSE 0
  BY HeldTop
<1>. HIDE DEF w
<1>4. w # <<>> /\ LinesHeld(w) \in Nat /\ LinesHeld(intr) \in Nat
  BY <1>2, HeldFinite
<1>5. /\ Len(intr) \in 1..Len(intr)
      /\ \A i \in 1..Len(intr) : i # Len(intr) => i < Len(intr)
  BY <1>2
<1>6. intr' = w
  BY <1>1 DEF w
<1>. QED BY <1>2, <1>3, <1>4, <1>5, <1>6

LEMMA CookTestsStep ==
  ASSUME TtyInv, CookTests
  PROVE  TtyInv'
<1>. USE DEF TtyInv
<1>1. /\ intr \in Seq(Calls) /\ intr # <<>> /\ intr[Len(intr)].pc = "loop"
      /\ read_q # <<>> /\ ~FULL(Len(secondary))
      /\ UNCHANGED <<mode, read_q, secondary, data, write_q, tx, at, cpu, broken>>
  BY DEF CookTests, InHandler, Top, TtyTyped, ttyQueues
<1>2. Len(intr) \in 1..Len(intr) /\ Len(intr) \in Nat /\ intr[Len(intr)].c = "none"
  BY <1>1 DEF CallsSound, CallSound
<1>3. PICK e : e = [pc |-> "get", c |-> "none", n |-> 0]
  OBVIOUS
<1>4. e \in Calls /\ e.c = "none" /\ e.pc = "get" /\ "none" \notin Lines
  BY <1>3 DEF Calls, Lines
<1>5. intr' = [intr EXCEPT ![Len(intr)] = e]
  BY <1>3 DEF CookTests, Continue
<1>6. /\ intr' \in Seq(Calls) /\ Len(intr') = Len(intr)
      /\ intr'[Len(intr)] = e /\ intr' # <<>>
      /\ \A i \in 1..Len(intr) : i # Len(intr) => intr'[i] = intr[i] /\ i < Len(intr)
      /\ LinesHeld(intr') + (IF intr[Len(intr)].c \in Lines THEN 1 ELSE 0)
              = LinesHeld(intr) + IF e.c \in Lines THEN 1 ELSE 0
      /\ LinesHeld(intr') \in Nat /\ LinesHeld(intr) \in Nat
  BY <1>1, <1>4, <1>5, TopStep
<1>7. LinesHeld(intr') = LinesHeld(intr)
  BY <1>2, <1>4, <1>6
<1>8. \A i \in 1..Len(intr) : intr'[i].pc = "draw" <=> intr[i].pc = "draw"
  BY <1>1, <1>4, <1>6
<1>9. ASSUME NEW i \in 1..Len(intr) PROVE CallSound(i)'
  <2>1. CASE i = Len(intr)
    BY <1>1, <1>4, <1>6, <2>1 DEF CallSound, Serial, StartOfLine
  <2>2. CASE i # Len(intr)
    BY <1>1, <1>6, <1>8, <2>2 DEF CallsSound, CallSound, Serial, StartOfLine
  <2>. QED BY <2>1, <2>2
<1>10. TestHolds'
  BY <1>1, <1>2, <1>4, <1>6, TopTests
<1>11. CallsSound' /\ (Drawing' <=> Drawing)
  BY <1>1, <1>6, <1>8, <1>9, <1>10 DEF CallsSound, Drawing, Serial
<1>12. TtyTyped'
  BY <1>1, <1>6 DEF TtyTyped
<1>13. WriterSound' /\ RawIsSafe'
  BY <1>1, <1>11, WriterKept, SafeKept
<1>14. ReaderSound' /\ DataCounts' /\ SleepersAreWoken'
  BY <1>1, <1>6, <1>7, Counting DEF ReaderSound, SleepersAreWoken, Serial
<1>. QED BY <1>11, <1>12, <1>13, <1>14

LEMMA CookNothingStep ==
  ASSUME TtyInv, CookNothing
  PROVE  TtyInv'
<1>1. /\ intr \in Seq(Calls) /\ intr # <<>> /\ intr[Len(intr)].pc = "get" /\ read_q = <<>>
      /\ TestHolds /\ Breaks("underrun")
  BY DEF CookNothing, InHandler, Top, TtyInv, TtyTyped, CallsSound
<1>2. Len(intr) \in 1..Len(intr)
  BY <1>1
<1>3. ~Serial
  BY <1>1, <1>2 DEF TestHolds
<1>. QED BY <1>1, <1>3, Broken

LEMMA CookOneStep ==
  ASSUME TtyInv, CookOne
  PROVE  TtyInv'
<1>. USE DEF TtyInv
<1>. DEFINE c == Head(read_q)
<1>1. /\ intr \in Seq(Calls) /\ intr # <<>> /\ intr[Len(intr)].pc = "get"
      /\ read_q \in Seq(Keys) /\ read_q # <<>> /\ read_q' = Tail(read_q)
      /\ UNCHANGED <<mode, secondary, write_q, tx, broken>>
      /\ "reader" \in Processes /\ "writer" \in Processes
  BY DEF CookOne, InHandler, Top, TtyTyped, Processes
<1>2. c \in Keys /\ read_q' \in Seq(Keys)
  BY <1>1, HeadTailProperties
<1>3. Len(intr) \in 1..Len(intr) /\ Len(intr) \in Nat /\ intr[Len(intr)].c = "none"
  BY <1>1 DEF CallsSound, CallSound
<1>7. Serial => ~FULL(Len(secondary))
  BY <1>1, <1>3 DEF CallsSound, TestHolds
<1>8. ASSUME Continue("loop", "none")
      PROVE  /\ intr' \in Seq(Calls) /\ intr' # <<>> /\ LinesHeld(intr') = LinesHeld(intr)
             /\ CallsSound' /\ (Drawing' <=> Drawing)
  <2>1. PICK e : e = [pc |-> "loop", c |-> "none", n |-> 0]
    OBVIOUS
  <2>2. e \in Calls /\ e.c = "none" /\ e.pc = "loop" /\ "none" \notin Lines
    BY <2>1 DEF Calls, Lines
  <2>3. intr' = [intr EXCEPT ![Len(intr)] = e]
    BY <1>8, <2>1 DEF Continue
  <2>4. /\ intr' \in Seq(Calls) /\ Len(intr') = Len(intr)
        /\ intr'[Len(intr)] = e /\ intr' # <<>>
        /\ \A i \in 1..Len(intr) : i # Len(intr) => intr'[i] = intr[i] /\ i < Len(intr)
        /\ LinesHeld(intr') + (IF intr[Len(intr)].c \in Lines THEN 1 ELSE 0)
                = LinesHeld(intr) + IF e.c \in Lines THEN 1 ELSE 0
        /\ LinesHeld(intr') \in Nat /\ LinesHeld(intr) \in Nat
    BY <1>1, <2>2, <2>3, TopStep
  <2>5. LinesHeld(intr') = LinesHeld(intr)
    BY <1>3, <2>2, <2>4
  <2>6. \A i \in 1..Len(intr) : intr'[i].pc = "draw" <=> intr[i].pc = "draw"
    BY <1>1, <2>2, <2>4
  <2>7. ASSUME NEW i \in 1..Len(intr) PROVE CallSound(i)'
    <3>1. CASE i = Len(intr)
      BY <1>1, <2>2, <2>4, <3>1 DEF CallSound, Serial, StartOfLine
    <3>2. CASE i # Len(intr)
      BY <1>1, <2>4, <2>6, <3>2 DEF CallsSound, CallSound, Serial, StartOfLine
    <3>. QED BY <3>1, <3>2
  <2>8. TestHolds'
    BY <1>1, <1>3, <2>2, <2>4, TopTests
  <2>9. CallsSound' /\ (Drawing' <=> Drawing)
    BY <1>1, <2>4, <2>6, <2>7, <2>8 DEF CallsSound, Drawing, Serial
  <2>. QED BY <2>4, <2>5, <2>9
<1>4. CASE /\ c = "interrupt" /\ UNCHANGED data /\ Continue("loop", "none")
           /\ at' = [p \in Processes |-> IF ~InCall(p) THEN at[p]
                        ELSE [at[p] EXCEPT !.signal = TRUE,
                                           !.pc = IF @ = "asleep" THEN "woken" ELSE @]]
  <2>1. ASSUME NEW p \in Processes
        PROVE  /\ at'[p] \in TtyPlaces /\ at'[p].n = at[p].n
               /\ at'[p].pc = IF at[p].pc = "asleep" THEN "woken" ELSE at[p].pc
    <3>1. at[p] \in TtyPlaces
      BY DEF TtyTyped
    <3>2. CASE ~InCall(p)
      BY <1>4, <3>1, <3>2 DEF InCall
    <3>3. CASE InCall(p)
      <4>1. PICK me : me = [at[p] EXCEPT !.signal = TRUE,
                                         !.pc = IF @ = "asleep" THEN "woken" ELSE @]
        OBVIOUS
      <4>2. me \in TtyPlaces
        BY <3>1, <4>1 DEF TtyPlaces
      <4>3. me.n = at[p].n /\ me.pc = IF at[p].pc = "asleep" THEN "woken" ELSE at[p].pc
        BY <3>1, <4>1 DEF TtyPlaces
      <4>4. at'[p] = me
        BY <1>4, <3>3, <4>1
      <4>. QED BY <4>2, <4>3, <4>4
    <3>. QED BY <3>2, <3>3
  <2>2. at' \in [Processes -> TtyPlaces]
    <3>1. at' = [p \in Processes |-> at'[p]]
      BY <1>4
    <3>. QED BY <2>1, <3>1
  <2>3. TtyTyped'
    BY <1>1, <1>2, <1>4, <1>8, <2>2 DEF TtyTyped
  <2>4. CallsSound' /\ (Drawing' <=> Drawing) /\ intr' # <<>>
    BY <1>4, <1>8
  <2>5. /\ at'["writer"].pc \in {"asleep", "woken", at["writer"].pc}
        /\ at'["writer"].pc # "asleep" /\ at'["writer"].n = at["writer"].n
        /\ at'["reader"].pc = IF at["reader"].pc = "asleep" THEN "woken" ELSE at["reader"].pc
        /\ at'["writer"].pc = "woken" => at["writer"].pc \in {"asleep", "woken"}
    BY <1>1, <2>1
  <2>6. WriterSound'
    BY <1>1, <2>4, <2>5 DEF WriterSound, Serial, FULL, LEFT
  <2>7. RawIsSafe' /\ ReaderSound' /\ DataCounts'
    <3>1. at'["reader"].pc \in Lines <=> at["reader"].pc \in Lines
      BY <2>5 DEF Lines
    <3>2. /\ LinesIn(secondary') = LinesIn(secondary) /\ LinesHeld(intr') = LinesHeld(intr)
          /\ data' = data
      BY <1>1, <1>4, <1>8
    <3>3. DataCounts'
      BY <3>1, <3>2, Counting
    <3>. QED BY <1>1, <2>5, <3>3, SafeKept DEF ReaderSound
  <2>8. SleepersAreWoken'
    BY <1>1, <2>4, <2>5 DEF SleepersAreWoken
  <2>. QED BY <2>3, <2>4, <2>6, <2>7, <2>8
<1>5. CASE UNCHANGED <<data, at>> /\ Continue("loop", "none")
  <2>1. TtyTyped'
    BY <1>1, <1>2, <1>5, <1>8 DEF TtyTyped
  <2>2. CallsSound' /\ (Drawing' <=> Drawing)
    BY <1>5, <1>8
  <2>3. WriterSound' /\ RawIsSafe'
    BY <1>1, <1>5, <2>2, WriterKept, SafeKept
  <2>4. ReaderSound' /\ DataCounts' /\ SleepersAreWoken'
    BY <1>1, <1>5, <1>8, Counting DEF ReaderSound, SleepersAreWoken, Serial
  <2>. QED BY <2>1, <2>2, <2>3, <2>4
<1>6. CASE /\ c # "interrupt" /\ ~(c = "erase" /\ mode.canon /\ StartOfLine)
           /\ data' = IF c \in Lines THEN data + 1 ELSE data
           /\ Continue(IF mode.echo THEN "echo" ELSE "put", c)
           /\ UNCHANGED at
  <2>1. PICK e : e = [pc |-> IF mode.echo THEN "echo" ELSE "put", c |-> c, n |-> 0]
    OBVIOUS
  <2>2. e \in Calls /\ e.c = c /\ e.pc \in {"echo", "put"} /\ (e.pc = "echo" => mode.echo)
    BY <1>2, <2>1 DEF Calls
  <2>3. intr' = [intr EXCEPT ![Len(intr)] = e]
    BY <1>6, <2>1 DEF Continue
  <2>. HIDE DEF c
  <2>4. /\ intr' \in Seq(Calls) /\ Len(intr') = Len(intr)
        /\ intr'[Len(intr)] = e /\ intr' # <<>>
        /\ \A i \in 1..Len(intr) : i # Len(intr) => intr'[i] = intr[i] /\ i < Len(intr)
        /\ LinesHeld(intr') + (IF intr[Len(intr)].c \in Lines THEN 1 ELSE 0)
                = LinesHeld(intr) + IF e.c \in Lines THEN 1 ELSE 0
        /\ LinesHeld(intr') \in Nat /\ LinesHeld(intr) \in Nat
    BY <1>1, <2>2, <2>3, TopStep
  <2>5. TtyTyped'
    BY <1>1, <1>2, <1>6, <2>4 DEF TtyTyped
  <2>6. c # "none" /\ "none" \notin Lines
    BY <1>2, TtyAssumption DEF Lines
  <2>7. \A i \in 1..Len(intr) : intr'[i].pc = "draw" <=> intr[i].pc = "draw"
    BY <1>1, <2>2, <2>4
  <2>8. ASSUME NEW i \in 1..Len(intr) PROVE CallSound(i)'
    <3>1. CASE i = Len(intr)
      BY <1>1, <1>6, <2>2, <2>4, <2>6, <3>1 DEF CallSound, Serial, StartOfLine
    <3>2. CASE i # Len(intr)
      BY <1>1, <2>4, <2>7, <3>2 DEF CallsSound, CallSound, Serial, StartOfLine
    <3>. QED BY <3>1, <3>2
  <2>9. CallsSound' /\ (Drawing' <=> Drawing)
    <3>1. TestHolds'
      BY <1>1, <1>3, <1>7, <2>2, <2>4, TopTests
    <3>. QED BY <1>1, <2>4, <2>7, <2>8, <3>1 DEF CallsSound, Drawing, Serial
  <2>10. WriterSound' /\ RawIsSafe'
    BY <1>1, <1>6, <2>9, WriterKept, SafeKept
  <2>11. LinesHeld(intr') = LinesHeld(intr) + IF c \in Lines THEN 1 ELSE 0
    BY <1>3, <2>2, <2>4, <2>6
  <2>12. DataCounts'
    <3>1. LinesIn(secondary) \in Nat /\ secondary' = secondary
      BY <1>1, LinesFinite DEF TtyTyped
    <3>. QED BY <1>6, <2>4, <2>11, <3>1, Counting
  <2>13. ReaderSound' /\ SleepersAreWoken'
    BY <1>1, <1>6, <2>4 DEF ReaderSound, SleepersAreWoken, Serial
  <2>. QED BY <2>5, <2>9, <2>10, <2>12, <2>13
<1>. QED BY <1>4, <1>5, <1>6 DEF CookOne

LEMMA CookEchoStep ==
  ASSUME TtyInv, CookEcho
  PROVE  TtyInv'
<1>. USE DEF TtyInv
<1>. DEFINE top == intr[Len(intr)]
<1>1. /\ intr \in Seq(Calls) /\ intr # <<>> /\ top.pc = "echo"
      /\ "reader" \in Processes /\ "writer" \in Processes
  BY DEF CookEcho, InHandler, Top, TtyTyped, Processes
<1>2. Len(intr) \in 1..Len(intr) /\ Len(intr) \in Nat /\ top \in Calls
  BY <1>1
<1>3. mode.echo /\ CallSound(Len(intr))
  BY <1>1, <1>2 DEF CallsSound, CallSound
<1>4. CASE Breaks("overrun")
  BY <1>3, <1>4, Broken
<1>5. CASE /\ LEFT(write_q) >= Echo(Top.c)
           /\ write_q' = write_q + Echo(Top.c)
           /\ tx' = (Serial \/ tx)
           /\ intr' = [intr EXCEPT ![Len(intr)] =
                         [@ EXCEPT !.pc = IF Serial THEN "put" ELSE "draw", !.n = write_q']]
           /\ UNCHANGED <<mode, read_q, secondary, data, at, cpu, broken>>
  <2>1. write_q' \in 0..TTY_BUF_SIZE - 1 /\ write_q' > 0
    BY <1>5, TtyAssumption, SMTT(60) DEF LEFT, Echo, TtyTyped
  <2>2. PICK e : e = [top EXCEPT !.pc = IF Serial THEN "put" ELSE "draw", !.n = write_q']
    OBVIOUS
  <2>3. e \in Calls
    <3>1. write_q' \in Nat
      BY <2>1
    <3>. QED BY <1>2, <2>2, <3>1 DEF Calls
  <2>4. e.c = top.c /\ e.pc = (IF Serial THEN "put" ELSE "draw") /\ e.n = write_q'
    BY <1>2, <2>2 DEF Calls
  <2>5. intr' = [intr EXCEPT ![Len(intr)] = e]
    BY <1>5, <2>2
  <2>6. /\ intr' \in Seq(Calls) /\ Len(intr') = Len(intr)
        /\ intr'[Len(intr)] = e /\ intr' # <<>>
        /\ \A i \in 1..Len(intr) : i # Len(intr) => intr'[i] = intr[i] /\ i < Len(intr)
        /\ LinesHeld(intr') + (IF top.c \in Lines THEN 1 ELSE 0)
                = LinesHeld(intr) + IF e.c \in Lines THEN 1 ELSE 0
        /\ LinesHeld(intr') \in Nat /\ LinesHeld(intr) \in Nat
    BY <1>1, <2>3, <2>5, TopStep
  <2>. HIDE DEF top
  <2>7. tx' \in BOOLEAN
    BY <1>5 DEF TtyTyped
  <2>8. TtyTyped'
    BY <1>5, <2>1, <2>6, <2>7 DEF TtyTyped
  <2>9. ASSUME NEW i \in 1..Len(intr) PROVE CallSound(i)'
    <3>1. CASE i = Len(intr)
      BY <1>1, <1>2, <1>3, <1>5, <2>1, <2>4, <2>6, <3>1 DEF CallSound, Serial, StartOfLine, top
    <3>2. CASE i # Len(intr)
      <4>1. CallSound(i) /\ intr'[i] = intr[i] /\ i < Len(intr)
        BY <2>6, <3>2 DEF CallsSound
      <4>2. ~Serial => intr'[Len(intr)].pc = "draw"
        BY <2>4, <2>6
      <4>. QED BY <1>2, <1>5, <2>6, <4>1, <4>2 DEF CallSound, Serial, StartOfLine
    <3>. QED BY <3>1, <3>2
  <2>10. CallsSound'
    <3>1. Serial => ~FULL(Len(secondary))
      BY <1>1, <1>2 DEF CallsSound, TestHolds, top
    <3>2. Serial => intr'[Len(intr)].pc = "put"
      BY <2>4, <2>6
    <3>3. TestHolds'
      BY <1>2, <1>5, <2>6, <3>1, <3>2, TopTests
    <3>. QED BY <1>5, <2>6, <2>9, <3>3 DEF CallsSound, Serial
  <2>11. ~Serial => Drawing'
    BY <1>2, <2>4, <2>6 DEF Drawing
  <2>12. WriterSound'
    BY <1>3, <1>5, <2>11 DEF WriterSound, Serial
  <2>13. ReaderSound' /\ RawIsSafe'
    BY <1>5, SafeKept DEF ReaderSound
  <2>14. LinesHeld(intr') = LinesHeld(intr)
    BY <2>4, <2>6
  <2>15. DataCounts'
    BY <1>5, <2>14, Counting
  <2>16. SleepersAreWoken'
    BY <1>5, <2>1, <2>6 DEF SleepersAreWoken, Serial
  <2>. QED BY <2>8, <2>10, <2>12, <2>13, <2>15, <2>16
<1>. QED BY <1>4, <1>5 DEF CookEcho

LEMMA CookDrawStep ==
  ASSUME TtyInv, CookDraw
  PROVE  TtyInv'
<1>. USE DEF TtyInv
<1>. DEFINE top == intr[Len(intr)]
<1>1. /\ intr \in Seq(Calls) /\ intr # <<>> /\ top.pc = "draw" /\ write_q \in Nat
      /\ "reader" \in Processes /\ "writer" \in Processes
  BY TtyAssumption DEF CookDraw, InHandler, Top, TtyTyped, Processes
<1>2. Len(intr) \in 1..Len(intr) /\ Len(intr) \in Nat /\ top \in Calls
  BY <1>1
<1>3. ~Serial /\ write_q <= top.n /\ top.c # "none" /\ CallSound(Len(intr))
  BY <1>1, <1>2 DEF CallsSound, CallSound
<1>4. CASE Breaks("drained")
  BY <1>3, <1>4, Broken
<1>5. CASE /\ write_q >= Top.n /\ Draw(Top.n) /\ Continue("put", Top.c) /\ UNCHANGED <<at, cpu>>
  <2>1. /\ write_q' = 0
        /\ UNCHANGED <<mode, read_q, secondary, data, tx, broken, at>>
    BY <1>1, <1>2, <1>3, <1>5 DEF Draw, Top, Calls
  <2>2. PICK e : e = [pc |-> "put", c |-> top.c, n |-> 0]
    OBVIOUS
  <2>3. e \in Calls /\ e.c = top.c /\ e.pc = "put"
    BY <1>2, <2>2 DEF Calls
  <2>4. intr' = [intr EXCEPT ![Len(intr)] = e]
    BY <1>5, <2>2 DEF Continue, Top
  <2>5. /\ intr' \in Seq(Calls) /\ Len(intr') = Len(intr)
        /\ intr'[Len(intr)] = e /\ intr' # <<>>
        /\ \A i \in 1..Len(intr) : i # Len(intr) => intr'[i] = intr[i] /\ i < Len(intr)
        /\ LinesHeld(intr') + (IF top.c \in Lines THEN 1 ELSE 0)
                = LinesHeld(intr) + IF e.c \in Lines THEN 1 ELSE 0
        /\ LinesHeld(intr') \in Nat /\ LinesHeld(intr) \in Nat
    BY <1>1, <2>3, <2>4, TopStep
  <2>. HIDE DEF top
  <2>6. TtyTyped'
    BY <2>1, <2>5, TtyAssumption DEF TtyTyped
  <2>7. ASSUME NEW i \in 1..Len(intr) PROVE CallSound(i)'
    <3>1. CASE i = Len(intr)
      BY <1>2, <1>3, <2>1, <2>3, <2>5, <3>1 DEF CallSound, Serial, StartOfLine, top
    <3>2. CASE i # Len(intr)
      <4>1. CallSound(i) /\ intr'[i] = intr[i] /\ intr[i].n \in Nat
        <5>1. intr[i] \in Calls
          BY <1>1
        <5>. QED BY <2>5, <3>2, <5>1 DEF CallsSound, Calls
      <4>. QED BY <2>1, <4>1 DEF CallSound, Serial, StartOfLine
    <3>. QED BY <3>1, <3>2
  <2>8. CallsSound'
    BY <1>3, <2>1, <2>5, <2>7 DEF CallsSound, Serial, TestHolds
  <2>9. WriterSound'
    <3>1. at["writer"].n \in Nat
      BY <1>1 DEF TtyTyped, TtyPlaces
    <3>. QED BY <1>3, <2>1, <3>1 DEF WriterSound, Serial
  <2>10. ReaderSound' /\ RawIsSafe'
    BY <2>1, SafeKept DEF ReaderSound
  <2>11. LinesHeld(intr') = LinesHeld(intr)
    BY <2>3, <2>5
  <2>12. DataCounts'
    BY <2>1, <2>11, Counting
  <2>13. SleepersAreWoken'
    BY <1>3, <2>1, <2>5 DEF SleepersAreWoken, Serial
  <2>. QED BY <2>6, <2>8, <2>9, <2>10, <2>12, <2>13
<1>. QED BY <1>4, <1>5 DEF CookDraw

LEMMA CookPutStep ==
  ASSUME TtyInv, CookPut
  PROVE  TtyInv'
<1>. USE DEF TtyInv
<1>. DEFINE top == intr[Len(intr)]
<1>1. /\ intr \in Seq(Calls) /\ intr # <<>> /\ top.pc = "put" /\ secondary \in Seq(Keys)
      /\ "reader" \in Processes /\ "writer" \in Processes
  BY DEF CookPut, InHandler, Top, TtyTyped, Processes
<1>2. Len(intr) \in 1..Len(intr) /\ Len(intr) \in Nat /\ top \in Calls
  BY <1>1
<1>3. top.c # "none" /\ CallSound(Len(intr)) /\ top.c \in Keys
  BY <1>1, <1>2 DEF CallsSound, CallSound, Calls
<1>4. CASE Late /\ Breaks("swapped")
  <2>1. ~Serial
    BY <1>2, <1>4 DEF Late, CallsSound
  <2>. QED BY <1>4, <2>1, Broken
<1>5. CASE ~Late /\ UnderReader /\ Breaks("erased")
  BY <1>5, Broken DEF UnderReader, Erasing
<1>7. CASE NoRoom /\ Breaks("overrun")
  <2>1. ~Serial
    BY <1>1, <1>2, <1>7 DEF NoRoom, CallsSound, TestHolds
  <2>. QED BY <1>7, <2>1, Broken
<1>6. CASE /\ ~Late /\ ~UnderReader /\ ~NoRoom
           /\ secondary' = IF Erasing THEN SubSeq(secondary, 1, Len(secondary) - 1)
                           ELSE Append(secondary, Top.c)
           /\ Continue("loop", "none")
           /\ UNCHANGED <<mode, read_q, data, write_q, tx, at, cpu, broken>>
  <2>1. PICK e : e = [pc |-> "loop", c |-> "none", n |-> 0]
    OBVIOUS
  <2>2. e \in Calls /\ e.c = "none" /\ e.pc = "loop"
    BY <2>1 DEF Calls
  <2>3. intr' = [intr EXCEPT ![Len(intr)] = e]
    BY <1>6, <2>1 DEF Continue
  <2>4. /\ intr' \in Seq(Calls) /\ Len(intr') = Len(intr)
        /\ intr'[Len(intr)] = e /\ intr' # <<>>
        /\ \A i \in 1..Len(intr) : i # Len(intr) => intr'[i] = intr[i] /\ i < Len(intr)
        /\ LinesHeld(intr') + (IF top.c \in Lines THEN 1 ELSE 0)
                = LinesHeld(intr) + IF e.c \in Lines THEN 1 ELSE 0
        /\ LinesHeld(intr') \in Nat /\ LinesHeld(intr) \in Nat
    BY <1>1, <2>2, <2>3, TopStep
  <2>. HIDE DEF top
  <2>5. Erasing <=> top.c = "erase" /\ mode.canon
    BY DEF Erasing, Top, top
  <2>6. \A i \in 1..Len(intr) : intr'[i].pc \in {"loop", "get"} /\ intr'[i].c = "none"
    <3>1. ASSUME NEW i \in 1..Len(intr), i # Len(intr)
          PROVE  intr[i].pc \in {"loop", "get"} /\ intr[i].c = "none"
      <4>1. i \in 1..Len(intr) - 1 /\ intr[i] \in Calls
        BY <1>1, <1>2, <3>1
      <4>2. intr[i].pc \in {"loop", "get"}
        BY <1>6, <4>1 DEF Late, InHands, Calls
      <4>. QED BY <4>2 DEF CallsSound, CallSound
    <3>. QED BY <2>2, <2>4, <3>1
  <2>7. CallsSound' /\ (Drawing' <=> Drawing)
    <3>1. \A i \in 1..Len(intr) : intr[i].pc # "draw"
      <4>1. ASSUME NEW i \in 1..Len(intr), i # Len(intr) PROVE intr[i].pc \in {"loop", "get"}
        BY <2>4, <2>6, <4>1
      <4>. QED BY <1>1, <4>1 DEF top
    <3>2. \A i \in 1..Len(intr') : CallSound(i)'
      BY <2>4, <2>6 DEF CallSound
    <3>3. Serial' => Len(intr') <= 1
      BY <1>6, <2>4 DEF CallsSound, Serial
    <3>4. TestHolds'
      BY <1>2, <1>6, <2>2, <2>4, TopTests
    <3>. QED BY <2>4, <2>6, <3>1, <3>2, <3>3, <3>4 DEF CallsSound, Drawing
  <2>8. WriterSound' /\ RawIsSafe'
    BY <1>6, <2>7, WriterKept, SafeKept
  <2>9. SleepersAreWoken'
    BY <1>6, <2>4 DEF SleepersAreWoken, Serial
  <2>10. CASE Erasing
    <3>1. secondary # <<>> /\ secondary[Len(secondary)] \notin Lines
      <4>1. ~StartOfLine
        BY <1>3, <2>5, <2>10 DEF CallSound, top
      <4>. QED BY <1>1, <4>1 DEF StartOfLine
    <3>2. /\ secondary' \in Seq(Keys) /\ Len(secondary') = Len(secondary) - 1
          /\ LinesIn(secondary') = LinesIn(secondary)
      BY <1>1, <1>6, <2>10, <3>1, LinesDrop
    <3>3. TtyTyped'
      BY <1>6, <2>4, <3>2 DEF TtyTyped
    <3>4. ReaderSound'
      <4>1. at["reader"].pc = "take" => Len(secondary) # 1
        BY <1>6, <2>10 DEF UnderReader
      <4>2. Len(secondary) \in Nat \ {0}
        BY <1>1, <3>1
      <4>3. at["reader"].pc = "take" => Len(secondary') # 0
        BY <3>2, <4>1, <4>2
      <4>4. at' = at
        BY <1>6
      <4>. QED BY <4>3, <4>4 DEF ReaderSound
    <3>5. LinesHeld(intr') = LinesHeld(intr)
      <4>1. top.c \notin Lines /\ e.c \notin Lines
        BY <2>2, <2>5, <2>10 DEF Lines
      <4>. QED BY <2>4, <4>1
    <3>6. DataCounts'
      BY <1>6, <3>2, <3>5, Counting
    <3>. QED BY <2>7, <2>8, <2>9, <3>3, <3>4, <3>6
  <2>11. CASE ~Erasing
    <3>1. secondary' = Append(secondary, top.c)
      BY <1>6, <2>11 DEF Top, top
    <3>2. /\ secondary' \in Seq(Keys) /\ secondary' # <<>>
          /\ LinesIn(secondary') = LinesIn(secondary) + IF top.c \in Lines THEN 1 ELSE 0
      BY <1>1, <1>3, <3>1, AppendProperties, LinesAppend
    <3>3. TtyTyped' /\ ReaderSound'
      BY <1>6, <2>4, <3>2 DEF TtyTyped, ReaderSound
    <3>4. e.c \notin Lines
      BY <2>2 DEF Lines
    <3>5. DataCounts'
      <4>1. LinesIn(secondary) \in Nat
        BY <1>1, LinesFinite
      <4>2. LinesHeld(intr') + (IF top.c \in Lines THEN 1 ELSE 0) = LinesHeld(intr)
        BY <2>4, <3>4
      <4>3. at' = at /\ data' = data
        BY <1>6
      <4>. QED BY <2>4, <3>2, <4>1, <4>2, <4>3, Counting
    <3>. QED BY <2>7, <2>8, <2>9, <3>3, <3>5
  <2>. QED BY <2>10, <2>11
<1>. QED BY <1>4, <1>5, <1>6, <1>7 DEF CookPut

LEMMA TransmitStep ==
  ASSUME TtyInv, Transmit
  PROVE  TtyInv'
<1>. USE DEF TtyInv
<1>1. /\ intr = <<>> /\ intr' = <<>> /\ tx /\ Serial
      /\ UNCHANGED <<mode, read_q, secondary, data, broken>>
      /\ "reader" \in Processes /\ "writer" \in Processes /\ "reader" # "writer"
      /\ write_q \in Nat
  BY TtyAssumption DEF Transmit, WriterSound, TtyTyped, Processes
<1>2. PICK left : /\ left = IF write_q = 0 THEN 0 ELSE write_q - 1
                  /\ write_q' = left /\ tx' = (left > 0)
                  /\ at' = IF write_q <= Startup \/ left = 0 THEN Woken("writer", "woken") ELSE at
  BY DEF Transmit
<1>3. left \in Nat /\ left <= write_q /\ write_q' \in 0..TTY_BUF_SIZE - 1
  <2>1. left \in Nat /\ left <= write_q
    BY <1>1, <1>2
  <2>2. write_q <= TTY_BUF_SIZE - 1 /\ TTY_BUF_SIZE \in Nat
    BY TtyAssumption DEF TtyTyped
  <2>. QED BY <1>1, <1>2, <2>1, <2>2
<1>4. /\ at' \in [Processes -> TtyPlaces]
      /\ at'["writer"].n = at["writer"].n /\ at'["reader"].pc = at["reader"].pc
      /\ at'["writer"].pc # "asleep" => at'["writer"].pc \in {at["writer"].pc, "woken"}
      /\ at'["writer"].pc = "asleep" => at["writer"].pc = "asleep" /\ left > 0
      /\ at'["writer"].pc = "woken" => at["writer"].pc \in {"asleep", "woken"}
  BY <1>1, <1>2, <1>3, PlaceWoken DEF TtyTyped
<1>5. TtyTyped'
  BY <1>1, <1>2, <1>3, <1>4 DEF TtyTyped
<1>6. CallsSound' /\ LinesHeld(intr') = LinesHeld(intr)
  BY <1>1, NoCalls
<1>7. WriterSound'
  <2>1. Serial'
    BY <1>1 DEF Serial
  <2>2. at'["writer"].pc = "put" => at["writer"].pc = "put"
    BY <1>4
  <2>3. Serial /\ ~mode.echo /\ at'["writer"].pc = "put" => ~FULL(write_q)'
    <3>1. ~FULL(write_q) => write_q < TTY_BUF_SIZE - 1
      BY <1>1, TtyAssumption DEF FULL, LEFT, TtyTyped
    <3>. QED BY <1>1, <1>2, <1>3, <2>2, <3>1, TtyAssumption DEF WriterSound, FULL, LEFT
  <2>4. at'["writer"].pc # "draw"
    BY <1>1, <1>4 DEF WriterSound
  <2>5. Serial' /\ write_q' > 0 => tx'
    BY <1>2
  <2>. QED BY <1>1, <2>1, <2>3, <2>4, <2>5 DEF WriterSound, Serial
<1>8. RawIsSafe' /\ ReaderSound' /\ DataCounts'
  BY <1>1, <1>4, <1>6, SafeKept, Counting DEF ReaderSound
<1>9. SleepersAreWoken'
  BY <1>1, <1>2, <1>4 DEF SleepersAreWoken, Serial
<1>. QED BY <1>5, <1>6, <1>7, <1>8, <1>9
-----------------------------------------------------------------------------
(* Processes *)

(* What the process p does while no handler runs, and leaves the terminal  *)
(* as it is.                                                               *)
LEMMA OwnStep ==
  ASSUME TtyInv, NEW p \in Processes, NEW me \in TtyPlaces, intr = <<>>,
         at' = [at EXCEPT ![p] = me], UNCHANGED <<mode, ttyQueues, intr, broken>>,
         p = "reader" => /\ me.pc \notin Lines /\ at["reader"].pc \notin Lines
                         /\ me.pc \in {"take", "asleep"} => (me.pc = "take" <=> secondary # <<>>),
         p = "writer" => WriterSound' /\ (me.pc = "asleep" => Serial /\ tx /\ write_q > 0)
  PROVE  TtyInv'
<1>. USE DEF TtyInv, ttyQueues
<1>1. /\ at' \in [Processes -> TtyPlaces] /\ at'[p] = me
      /\ \A o \in Processes : o # p => at'[o] = at[o]
  BY PlaceSet
<1>2. "reader" \in Processes /\ "writer" \in Processes
      /\ p \in {"reader", "writer"}
  BY DEF Processes
<1>3. TtyTyped'
  BY <1>1 DEF TtyTyped
<1>4. CallsSound' /\ (Drawing' <=> Drawing)
  BY CallsKept
<1>5. WriterSound'
  <2>1. CASE p = "writer"
    BY <2>1
  <2>2. CASE p = "reader"
    BY <1>1, <1>2, <1>4, <2>2, WriterKept
  <2>. QED BY <1>2, <2>1, <2>2
<1>6. ReaderSound' /\ SleepersAreWoken'
  <2>1. CASE p = "writer"
    BY <1>1, <1>2, <2>1 DEF ReaderSound, SleepersAreWoken, Serial
  <2>2. CASE p = "reader"
    BY <1>1, <1>2, <2>2 DEF ReaderSound, SleepersAreWoken, Serial
  <2>. QED BY <1>2, <2>1, <2>2
<1>7. DataCounts'
  <2>1. at'["reader"].pc \in Lines <=> at["reader"].pc \in Lines
    BY <1>1, <1>2
  <2>. QED BY <2>1, Counting
<1>8. RawIsSafe'
  BY SafeKept
<1>. QED BY <1>3, <1>4, <1>5, <1>6, <1>7, <1>8

LEMMA UserPlace == AtUser \in TtyPlaces /\ AtUser.pc = "user"
BY DEF AtUser, TtyPlaces

(* A step of the writer that is about its place only. *)
LEMMA WriterGoes ==
  ASSUME TtyInv, NEW me \in TtyPlaces, intr = <<>>,
         at' = [at EXCEPT !["writer"] = me], UNCHANGED <<mode, ttyQueues, intr, broken>>,
         me.pc # "draw",
         \/ me.pc \in {"test", "write"}
         \/ me.pc = "put" /\ ~FULL(write_q)
         \/ at["writer"].pc \notin {"test", "put", "write", "draw"},
         me.pc = "asleep" => Serial /\ tx /\ write_q > 0,
         me.pc = "put" => ~FULL(write_q)
  PROVE  TtyInv'
<1>1. "writer" \in Processes /\ TtyTyped /\ WriterSound
  BY DEF Processes, TtyInv
<1>2. at'["writer"] = me
  BY <1>1, PlaceSet
<1>3. ~Drawing /\ ~Drawing'
  BY NoCalls, CallsKept DEF TtyInv, ttyQueues
<1>4. WriterSound'
  BY <1>1, <1>2, <1>3 DEF WriterSound, Serial, FULL, LEFT, ttyQueues
<1>. QED BY <1>1, <1>4, OwnStep

LEMMA CallStep ==
  ASSUME TtyInv, NEW p \in Processes, Call(p)
  PROVE  TtyInv'
<1>1. PICK nr \in Sizes : at' = [at EXCEPT ![p] = [@ EXCEPT !.pc = "top", !.nr = nr]]
  BY DEF Call
<1>2. at[p] \in TtyPlaces /\ nr \in Int /\ at[p].pc = "user" /\ intr = <<>>
      /\ UNCHANGED <<mode, ttyQueues, intr, broken>>
  BY TtyAssumption DEF Call, TtyInv, TtyTyped
<1>3. PICK me : me = [at[p] EXCEPT !.pc = "top", !.nr = nr]
  OBVIOUS
<1>4. me \in TtyPlaces /\ me.pc = "top"
  BY <1>2, <1>3 DEF TtyPlaces
<1>5. at' = [at EXCEPT ![p] = me]
  BY <1>1, <1>3 DEF TtyInv, TtyTyped
<1>6. CASE p = "writer"
  BY <1>2, <1>4, <1>5, <1>6, WriterGoes
<1>7. CASE p = "reader"
  BY <1>2, <1>4, <1>5, <1>7, OwnStep DEF Lines
<1>. QED BY <1>6, <1>7 DEF Processes

LEMMA DispatchStep ==
  ASSUME TtyInv, NEW p \in Processes, Dispatch(p)
  PROVE  TtyInv'
<1>1. /\ at[p] \in TtyPlaces /\ at[p].pc \in {"woken", "yield"} /\ intr = <<>>
      /\ UNCHANGED <<mode, ttyQueues, intr, broken>>
      /\ at' = [at EXCEPT ![p].pc = IF p = "writer" /\ @ = "woken" THEN "low" ELSE "top"]
  BY DEF Dispatch, TtyInv, TtyTyped
<1>2. PICK me : me = [at[p] EXCEPT !.pc = IF p = "writer" /\ @ = "woken" THEN "low" ELSE "top"]
  OBVIOUS
<1>3. me \in TtyPlaces /\ me.pc \in {"low", "top"}
  BY <1>1, <1>2 DEF TtyPlaces
<1>4. at' = [at EXCEPT ![p] = me]
  BY <1>1, <1>2 DEF TtyInv, TtyTyped
<1>5. CASE p = "writer"
  BY <1>1, <1>3, <1>4, <1>5, WriterGoes
<1>6. CASE p = "reader"
  BY <1>1, <1>3, <1>4, <1>6, OwnStep DEF Lines
<1>. QED BY <1>5, <1>6 DEF Processes

LEMMA ReadLoopStep ==
  ASSUME TtyInv, ReadLoop
  PROVE  TtyInv'
<1>1. /\ at["reader"] \in TtyPlaces /\ at["reader"].pc = "top" /\ intr = <<>>
      /\ UNCHANGED <<mode, ttyQueues, intr, broken>> /\ "reader" \in Processes
  BY DEF ReadLoop, Runs, TtyInv, TtyTyped, Processes
<1>2. PICK me : /\ at' = [at EXCEPT !["reader"] = me]
                /\ \/ me = AtUser
                   \/ me = [at["reader"] EXCEPT !.pc = "asleep"] /\ secondary = <<>>
                   \/ me = [at["reader"] EXCEPT !.pc = "take"] /\ secondary # <<>>
  BY DEF ReadLoop, Returns, Leaves, Stays
<1>3. me \in TtyPlaces /\ me.pc \notin Lines
      /\ (me.pc \in {"take", "asleep"} => (me.pc = "take" <=> secondary # <<>>))
  BY <1>1, <1>2, UserPlace DEF TtyPlaces, Lines
<1>. QED BY <1>1, <1>2, <1>3, OwnStep DEF Lines

(* A step of the reader that takes or counts a character. *)
LEMMA ReaderTakes ==
  ASSUME TtyInv, NEW me \in TtyPlaces, intr = <<>>,
         at' = [at EXCEPT !["reader"] = me],
         UNCHANGED <<mode, read_q, write_q, tx, intr, broken>>,
         secondary' \in Seq(Keys), data' \in Int,
         me.pc = "take" => secondary' # <<>>, me.pc # "asleep",
         data' = LinesIn(secondary') + IF me.pc \in Lines THEN 1 ELSE 0
  PROVE  TtyInv'
<1>. USE DEF TtyInv
<1>1. "reader" \in Processes /\ "writer" \in Processes /\ "reader" # "writer"
  BY DEF Processes
<1>2. at' \in [Processes -> TtyPlaces] /\ at'["reader"] = me /\ at'["writer"] = at["writer"]
  BY <1>1, PlaceSet
<1>3. CallsSound' /\ ~Drawing' /\ ~Drawing /\ LinesHeld(intr') = 0
  BY NoCalls DEF Drawing
<1>4. TtyTyped'
  BY <1>2 DEF TtyTyped
<1>5. WriterSound' /\ RawIsSafe'
  BY <1>2, <1>3, WriterKept, SafeKept
<1>6. ReaderSound' /\ SleepersAreWoken'
  BY <1>2 DEF ReaderSound, SleepersAreWoken, Serial
<1>7. DataCounts'
  BY <1>2, <1>3, Counting
<1>. QED BY <1>3, <1>4, <1>5, <1>6, <1>7

LEMMA NextChar ==
  ASSUME TtyTyped, NEW rest, NEW c, AfterChar(rest, c)
  PROVE  \E me \in TtyPlaces : /\ at' = [at EXCEPT !["reader"] = me]
                            /\ me.pc \in {"user", "take"} /\ (me.pc = "take" => rest # <<>>)
<1>1. at["reader"] \in TtyPlaces
  BY DEF TtyTyped, Processes
<1>2. PICK me : /\ at' = [at EXCEPT !["reader"] = me]
                /\ \/ me = AtUser
                   \/ me = [at["reader"] EXCEPT !.pc = "take", !.nr = @ - 1] /\ rest # <<>>
  BY DEF AfterChar, Returns, Leaves, Stays
<1>3. CASE me = AtUser
  BY <1>2, <1>3, UserPlace
<1>4. CASE me = [at["reader"] EXCEPT !.pc = "take", !.nr = @ - 1] /\ rest # <<>>
  <2>1. me \in TtyPlaces
    <3>1. at["reader"].nr - 1 \in Int
      BY <1>1 DEF TtyPlaces
    <3>. QED BY <1>1, <1>4, <3>1 DEF TtyPlaces
  <2>2. me.pc = "take"
    BY <1>1, <1>4 DEF TtyPlaces
  <2>. QED BY <1>2, <1>4, <2>1, <2>2
<1>. QED BY <1>2, <1>3, <1>4

LEMMA ReadTakeStep ==
  ASSUME TtyInv, ReadTake
  PROVE  TtyInv'
<1>. DEFINE c == Head(secondary)
<1>1. /\ at["reader"] \in TtyPlaces /\ at["reader"].pc = "take" /\ intr = <<>> /\ intr' = <<>>
      /\ UNCHANGED <<mode, read_q, data, write_q, tx, intr, broken>>
      /\ secondary' = Tail(secondary) /\ TtyTyped /\ data \in Int
      /\ secondary \in Seq(Keys) /\ secondary # <<>> /\ DataCounts
  BY DEF ReadTake, Runs, TtyInv, TtyTyped, Processes, ReaderSound
<1>2. /\ secondary' \in Seq(Keys) /\ c \in Keys
      /\ LinesIn(secondary) = LinesIn(secondary') + IF c \in Lines THEN 1 ELSE 0
      /\ LinesIn(secondary') \in Nat
  BY <1>1, HeadTailProperties, LinesTail, LinesFinite
<1>3. data = LinesIn(secondary)
  <2>1. LinesHeld(intr) = 0
    BY <1>1, NoCalls
  <2>2. at["reader"].pc \notin Lines
    BY <1>1 DEF Lines
  <2>3. LinesIn(secondary) \in Nat
    BY <1>1, LinesFinite
  <2>. QED BY <1>1, <2>1, <2>2, <2>3, Counting
<1>. HIDE DEF c
<1>4. CASE c \in Lines
  <2>1. PICK me : me = [at["reader"] EXCEPT !.pc = c]
    OBVIOUS
  <2>2. me \in TtyPlaces
    BY <1>1, <1>4, <2>1 DEF TtyPlaces, Lines
  <2>3. me.pc = c
    BY <1>1, <2>1 DEF TtyPlaces
  <2>4. at' = [at EXCEPT !["reader"] = me]
    BY <1>4, <2>1 DEF ReadTake, Counts, Stays, c
  <2>5. data' = LinesIn(secondary') + IF me.pc \in Lines THEN 1 ELSE 0
    BY <1>1, <1>2, <1>3, <1>4, <2>3
  <2>6. me.pc \notin {"take", "asleep"}
    BY <1>4, <2>3 DEF Lines
  <2>. QED BY <1>1, <1>2, <2>2, <2>4, <2>5, <2>6, ReaderTakes
<1>5. CASE c \notin Lines
  <2>1. AfterChar(Tail(secondary), c)
    BY <1>5 DEF ReadTake, Counts, c
  <2>2. PICK me \in TtyPlaces : /\ at' = [at EXCEPT !["reader"] = me]
                             /\ me.pc \in {"user", "take"} /\ (me.pc = "take" => secondary' # <<>>)
    BY <1>1, <2>1, NextChar
  <2>3. me.pc \notin Lines /\ me.pc # "asleep"
    BY <2>2 DEF Lines
  <2>4. data' = LinesIn(secondary') + IF me.pc \in Lines THEN 1 ELSE 0
    BY <1>1, <1>2, <1>3, <1>5, <2>3
  <2>. QED BY <1>1, <1>2, <2>2, <2>3, <2>4, ReaderTakes
<1>. QED BY <1>4, <1>5

LEMMA ReadCountStep ==
  ASSUME TtyInv, ReadCount
  PROVE  TtyInv'
<1>1. PICK c \in Lines : Runs("reader", c) /\ AfterChar(secondary, c)
  BY DEF ReadCount
<1>2. /\ at["reader"].pc \in Lines /\ intr = <<>> /\ intr' = <<>> /\ data' = data - 1
      /\ UNCHANGED <<mode, read_q, secondary, write_q, tx, intr, broken>>
      /\ TtyTyped /\ DataCounts /\ secondary \in Seq(Keys) /\ secondary' \in Seq(Keys) /\ data \in Int
  BY <1>1 DEF ReadCount, Runs, TtyInv, TtyTyped
<1>3. PICK me \in TtyPlaces : /\ at' = [at EXCEPT !["reader"] = me]
                           /\ me.pc \in {"user", "take"} /\ (me.pc = "take" => secondary # <<>>)
  BY <1>1, <1>2, NextChar
<1>4. me.pc \notin Lines /\ me.pc # "asleep"
  BY <1>3 DEF Lines
<1>5. data' = LinesIn(secondary') + IF me.pc \in Lines THEN 1 ELSE 0
  <2>1. LinesHeld(intr) = 0
    BY <1>2, NoCalls
  <2>2. LinesIn(secondary) \in Nat /\ secondary' = secondary
    BY <1>2, LinesFinite
  <2>. QED BY <1>2, <1>4, <2>1, <2>2, Counting
<1>6. data' \in Int /\ (me.pc = "take" => secondary' # <<>>)
  BY <1>2, <1>3
<1>. QED BY <1>2, <1>3, <1>4, <1>5, <1>6, ReaderTakes

(* A step of the writer that puts characters into the queue, or has them   *)
(* taken from there.                                                       *)
LEMMA WriterMoves ==
  ASSUME TtyInv, NEW me \in TtyPlaces, intr = <<>>,
         at' = [at EXCEPT !["writer"] = me],
         UNCHANGED <<mode, read_q, secondary, data, intr, broken>>,
         write_q' \in 0..TTY_BUF_SIZE - 1, tx' \in BOOLEAN,
         WriterSound', me.pc # "asleep"
  PROVE  TtyInv'
<1>. USE DEF TtyInv
<1>1. "reader" \in Processes /\ "writer" \in Processes /\ "reader" # "writer"
  BY DEF Processes
<1>2. at' \in [Processes -> TtyPlaces] /\ at'["writer"] = me /\ at'["reader"] = at["reader"]
  BY <1>1, PlaceSet
<1>3. CallsSound' /\ LinesHeld(intr') = LinesHeld(intr)
  BY NoCalls
<1>4. TtyTyped'
  BY <1>2 DEF TtyTyped
<1>5. RawIsSafe' /\ ReaderSound' /\ SleepersAreWoken'
  BY <1>2, SafeKept DEF ReaderSound, SleepersAreWoken, Serial
<1>6. DataCounts'
  BY <1>2, <1>3, Counting
<1>. QED BY <1>3, <1>4, <1>5, <1>6

LEMMA WriteLoopStep ==
  ASSUME TtyInv, WriteLoop
  PROVE  TtyInv'
<1>. DEFINE full == IF at["writer"].pc = "top" THEN FULL(write_q) ELSE LEFT(write_q) < LeftToWrite
<1>1. /\ at["writer"] \in TtyPlaces /\ at["writer"].pc \in {"top", "low"} /\ intr = <<>>
      /\ UNCHANGED <<mode, ttyQueues, intr, broken>> /\ "writer" \in Processes
      /\ write_q \in 0..TTY_BUF_SIZE - 1
  BY DEF WriteLoop, Runs, TtyInv, TtyTyped, Processes
<1>2. PICK me : /\ at' = [at EXCEPT !["writer"] = me]
                /\ \/ me = AtUser
                   \/ me = [at["writer"] EXCEPT !.pc = "asleep"] /\ full
                   \/ me = [at["writer"] EXCEPT !.pc = "test"]
  BY DEF WriteLoop, Returns, Leaves, Stays
<1>3. me \in TtyPlaces /\ me.pc \in {"user", "asleep", "test"} /\ (me.pc = "asleep" => full)
  BY <1>1, <1>2, UserPlace DEF TtyPlaces
<1>4. full => Serial /\ tx /\ write_q > 0
  <2>1. full => write_q > 0
    BY <1>1, TtyAssumption DEF FULL, LEFT
  <2>2. ~Drawing
    BY <1>1, NoCalls, CallsKept DEF TtyInv, ttyQueues
  <2>. QED BY <1>1, <2>1, <2>2 DEF TtyInv, WriterSound
<1>. HIDE DEF full
<1>. QED BY <1>1, <1>2, <1>3, <1>4, WriterGoes

LEMMA WriteTestStep ==
  ASSUME TtyInv, WriteTest
  PROVE  TtyInv'
<1>1. /\ at["writer"] \in TtyPlaces /\ at["writer"].pc = "test" /\ intr = <<>>
      /\ UNCHANGED <<mode, ttyQueues, intr, broken>>
  BY DEF WriteTest, Runs, TtyInv, TtyTyped, Processes
<1>2. PICK me : /\ at' = [at EXCEPT !["writer"] = me]
                /\ \/ me = [at["writer"] EXCEPT !.pc = "put"] /\ ~FULL(write_q)
                   \/ me = [at["writer"] EXCEPT !.pc = "write"]
  BY DEF WriteTest, Stays, HasRoom
<1>3. me \in TtyPlaces /\ me.pc \in {"put", "write"} /\ (me.pc = "put" => ~FULL(write_q))
  BY <1>1, <1>2 DEF TtyPlaces
<1>. QED BY <1>1, <1>2, <1>3, WriterGoes

LEMMA WritePutStep ==
  ASSUME TtyInv, WritePut
  PROVE  TtyInv'
<1>1. /\ at["writer"] \in TtyPlaces /\ at["writer"].pc = "put" /\ intr = <<>> /\ WriterSound
      /\ write_q \in 0..TTY_BUF_SIZE - 1 /\ "writer" \in Processes /\ TtyTyped
  BY DEF WritePut, Runs, TtyInv, TtyTyped, Processes
<1>2. CASE FULL(write_q) /\ Breaks("overrun")
  BY <1>1, <1>2, Broken DEF WriterSound
<1>3. CASE /\ ~FULL(write_q) /\ write_q' = write_q + 1
           /\ Stays("writer", [at["writer"] EXCEPT !.pc = "test", !.nr = @ - 1])
           /\ UNCHANGED <<mode, read_q, secondary, data, tx, intr, broken>>
  <2>1. PICK me : me = [at["writer"] EXCEPT !.pc = "test", !.nr = @ - 1]
    OBVIOUS
  <2>2. me \in TtyPlaces
    <3>1. at["writer"].nr - 1 \in Int
      BY <1>1 DEF TtyPlaces
    <3>. QED BY <1>1, <2>1, <3>1 DEF TtyPlaces
  <2>3. me.pc = "test"
    BY <1>1, <2>1 DEF TtyPlaces
  <2>4. at' = [at EXCEPT !["writer"] = me]
    BY <1>3, <2>1 DEF Stays
  <2>5. write_q' \in 0..TTY_BUF_SIZE - 1
    BY <1>1, <1>3, TtyAssumption DEF FULL, LEFT
  <2>6. at'["writer"] = me
    BY <1>1, <2>2, <2>4, PlaceSet
  <2>7. WriterSound' /\ tx' \in BOOLEAN
    BY <1>1, <1>3, <2>3, <2>6 DEF WriterSound, Serial, TtyTyped
  <2>. QED BY <1>1, <1>3, <2>2, <2>3, <2>4, <2>5, <2>7, WriterMoves
<1>. QED BY <1>2, <1>3 DEF WritePut

LEMMA WrittenPlace ==
  ASSUME TtyTyped, Wrote
  PROVE  \E me \in TtyPlaces : /\ at' = [at EXCEPT !["writer"] = me]
                            /\ me.pc \in {"user", "yield"}
<1>1. at["writer"] \in TtyPlaces
  BY DEF TtyTyped, Processes
<1>2. PICK me : /\ at' = [at EXCEPT !["writer"] = me]
                /\ \/ me = AtUser
                   \/ me = [at["writer"] EXCEPT !.pc = "yield", !.n = 0]
  BY DEF Wrote, Returns, Leaves
<1>3. CASE me = AtUser
  BY <1>2, <1>3, UserPlace
<1>4. CASE me = [at["writer"] EXCEPT !.pc = "yield", !.n = 0]
  <2>1. me \in TtyPlaces
    BY <1>1, <1>4 DEF TtyPlaces
  <2>2. me.pc = "yield"
    BY <1>1, <1>4 DEF TtyPlaces
  <2>. QED BY <1>2, <2>1, <2>2
<1>. QED BY <1>2, <1>3, <1>4

LEMMA WriteOutStep ==
  ASSUME TtyInv, WriteOut
  PROVE  TtyInv'
<1>1. /\ at["writer"] \in TtyPlaces /\ at["writer"].pc = "write" /\ intr = <<>> /\ WriterSound
      /\ write_q \in 0..TTY_BUF_SIZE - 1 /\ "writer" \in Processes /\ TtyTyped /\ tx \in BOOLEAN
      /\ UNCHANGED <<mode, read_q, secondary, data, write_q, intr, broken>>
  BY DEF WriteOut, Runs, TtyInv, TtyTyped, Processes
<1>2. CASE Serial /\ tx' = (tx \/ Enables) /\ Wrote
  <2>1. PICK me \in TtyPlaces : at' = [at EXCEPT !["writer"] = me] /\ me.pc \in {"user", "yield"}
    BY <1>1, <1>2, WrittenPlace
  <2>2. at'["writer"] = me
    BY <1>1, <2>1, PlaceSet
  <2>3. tx' \in BOOLEAN /\ (write_q > 0 => tx')
    BY <1>1, <1>2 DEF Enables
  <2>4. WriterSound'
    BY <1>1, <1>2, <2>1, <2>2, <2>3 DEF WriterSound, Serial
  <2>. QED BY <1>1, <2>1, <2>3, <2>4, WriterMoves
<1>3. CASE /\ ~Serial /\ UNCHANGED tx
           /\ Stays("writer", [at["writer"] EXCEPT !.pc = "draw", !.n = write_q])
  <2>1. PICK me : me = [at["writer"] EXCEPT !.pc = "draw", !.n = write_q]
    OBVIOUS
  <2>2. write_q \in Nat
    BY <1>1
  <2>3. me \in TtyPlaces
    BY <1>1, <2>1, <2>2 DEF TtyPlaces
  <2>4. me.pc = "draw" /\ me.n = write_q
    BY <1>1, <2>1, <2>2 DEF TtyPlaces
  <2>5. at' = [at EXCEPT !["writer"] = me]
    BY <1>3, <2>1 DEF Stays
  <2>6. at'["writer"] = me
    BY <1>1, <2>3, <2>5, PlaceSet
  <2>7. WriterSound'
    BY <1>1, <1>3, <2>2, <2>4, <2>6 DEF WriterSound, Serial
  <2>. QED BY <1>1, <1>3, <2>3, <2>4, <2>5, <2>7, WriterMoves
<1>. QED BY <1>2, <1>3 DEF WriteOut

LEMMA WriteDrawStep ==
  ASSUME TtyInv, WriteDraw
  PROVE  TtyInv'
<1>1. /\ at["writer"] \in TtyPlaces /\ at["writer"].pc = "draw" /\ intr = <<>> /\ WriterSound
      /\ write_q \in 0..TTY_BUF_SIZE - 1 /\ "writer" \in Processes /\ TtyTyped /\ tx \in BOOLEAN
  BY DEF WriteDraw, Runs, TtyInv, TtyTyped, Processes
<1>2. ~Serial /\ write_q <= at["writer"].n /\ at["writer"].n \in Nat
  <2>1. ~Drawing
    BY <1>1 DEF Drawing
  <2>. QED BY <1>1, <2>1 DEF WriterSound, TtyPlaces
<1>3. CASE Breaks("drained")
  BY <1>2, <1>3, Broken
<1>4. CASE /\ write_q >= at["writer"].n /\ Draw(at["writer"].n) /\ Wrote /\ UNCHANGED intr
  <2>1. write_q' = 0 /\ UNCHANGED <<mode, read_q, secondary, data, tx, intr, broken>>
    BY <1>1, <1>2, <1>4 DEF Draw
  <2>2. PICK me \in TtyPlaces : at' = [at EXCEPT !["writer"] = me] /\ me.pc \in {"user", "yield"}
    BY <1>1, <1>4, WrittenPlace
  <2>3. at'["writer"] = me
    BY <1>1, <2>2, PlaceSet
  <2>4. WriterSound'
    BY <1>1, <1>2, <2>1, <2>2, <2>3 DEF WriterSound, Serial
  <2>5. write_q' \in 0..TTY_BUF_SIZE - 1
    BY <2>1, TtyAssumption
  <2>. QED BY <1>1, <2>1, <2>2, <2>4, <2>5, WriterMoves
<1>. QED BY <1>3, <1>4 DEF WriteDraw
-----------------------------------------------------------------------------
LEMMA TtyStarts == TtyInit => TtyInv
<1>. SUFFICES ASSUME TtyInit PROVE TtyInv
  OBVIOUS
<1>. USE DEF TtyInit
<1>1. at["reader"] = AtUser /\ at["writer"] = AtUser
  BY DEF Processes
<1>2. TtyTyped
  <2>1. at \in [Processes -> TtyPlaces] /\ 0 \in 0..TTY_BUF_SIZE - 1
    BY UserPlace, TtyAssumption
  <2>2. <<>> \in Seq(Keys) /\ <<>> \in Seq(Calls)
    OBVIOUS
  <2>3. read_q \in Seq(Keys) /\ secondary \in Seq(Keys) /\ intr \in Seq(Calls)
    BY <2>2
  <2>4. mode \in Modes /\ data \in Int /\ write_q \in 0..TTY_BUF_SIZE - 1
    BY <2>1
  <2>5. tx \in BOOLEAN
    BY Zenon
  <2>. QED BY <2>1, <2>3, <2>4, <2>5 DEF TtyTyped
<1>3. Len(intr) = 0
  OBVIOUS
<1>4. CallsSound /\ ReaderSound /\ RawIsSafe /\ SleepersAreWoken
  BY <1>1, <1>3 DEF CallsSound, TestHolds, ReaderSound, RawIsSafe, SleepersAreWoken, AtUser
<1>5. WriterSound
  BY <1>1 DEF WriterSound, AtUser, Serial
<1>6. DataCounts
  <2>1. {i \in 1..Len(secondary) : secondary[i] \in Lines} = {}
        /\ {i \in 1..Len(intr) : intr[i].c \in Lines} = {}
    OBVIOUS
  <2>2. LinesIn(secondary) = 0 /\ LinesHeld(intr) = 0
    BY <2>1, FS_EmptySet DEF LinesIn, LinesHeld
  <2>3. at["reader"].pc \notin Lines
    BY <1>1 DEF AtUser, Lines
  <2>. QED BY <2>2, <2>3, Counting
<1>. QED BY <1>2, <1>4, <1>5, <1>6 DEF TtyInv

LEMMA TtyStep == TtyInv /\ [TtyNext]_ttyVars => TtyInv'
<1>. SUFFICES ASSUME TtyInv, [TtyNext]_ttyVars PROVE TtyInv'
  OBVIOUS
<1>1. CASE UNCHANGED ttyVars
  <2>. USE <1>1 DEF ttyVars, ttyQueues, TtyInv
  <2>1. CallsSound' /\ (Drawing' <=> Drawing)
    BY CallsKept
  <2>2. WriterSound' /\ RawIsSafe'
    BY <2>1, WriterKept, SafeKept
  <2>3. TtyTyped' /\ ReaderSound' /\ SleepersAreWoken'
    BY DEF TtyTyped, ReaderSound, SleepersAreWoken, Serial
  <2>4. DataCounts'
    BY Counting
  <2>. QED BY <2>1, <2>2, <2>3, <2>4
<1>2. CASE \E c \in Keys : Key(c)
  BY <1>2, KeyStep
<1>3. CASE Handler
  BY <1>3, CookEndsStep, CookTestsStep, CookOneStep, CookNothingStep,
      CookEchoStep, CookDrawStep, CookPutStep DEF Handler
<1>4. CASE \E p \in Processes : Call(p) \/ Dispatch(p)
  BY <1>4, CallStep, DispatchStep
<1>5. CASE Reader
  BY <1>5, ReadLoopStep, ReadTakeStep, ReadCountStep DEF Reader
<1>6. CASE Writer
  BY <1>6, WriteLoopStep, WriteTestStep, WritePutStep, WriteOutStep, WriteDrawStep DEF Writer
<1>. QED BY <1>1, <1>2, <1>3, <1>4, <1>5, <1>6, TransmitStep DEF TtyNext

(* secondary.data counts the lines of the queue, with those that a handler *)
(* or the reader has in hand, for queues of any size, any characters, and  *)
(* keyboard interrupts nested to any depth, each of them between any two   *)
(* steps of the one below, up to the first that moves an end of a queue    *)
(* past the other (copy_to_cooked, tty_read).                              *)
THEOREM DataCountsAlways == TtySpec => []DataCounts
<1>1. TtyInv => DataCounts
  BY DEF TtyInv
<1>. QED BY <1>1, TtyStarts, TtyStep, PTL DEF TtySpec

(* A raw serial line is never broken (PUTCH, GETCH, rs_write). *)
THEOREM RawIsSafeAlways == TtySpec => []RawIsSafe
<1>1. TtyInv => RawIsSafe
  BY DEF TtyInv
<1>. QED BY <1>1, TtyStarts, TtyStep, PTL DEF TtySpec

(* A reader sleeps only while secondary is empty or a handler is about to  *)
(* wake it, a writer only on a line that sends.  Characters may be waiting *)
(* in read_q all the same, and on a serial line that has filled it nothing *)
(* takes them out again: that is KeyReachesReader, which does not hold     *)
(* (sleep_if_empty, sleep_if_full, read_char).                             *)
THEOREM SleepersAreWokenAlways == TtySpec => []SleepersAreWoken
<1>1. TtyInv => SleepersAreWoken
  BY DEF TtyInv
<1>. QED BY <1>1, TtyStarts, TtyStep, PTL DEF TtySpec
-----------------------------------------------------------------------------
(* The screen. *)

USE ConsoleAssumption

Rows == 0..LINES - 1
Columns == 0..COLUMNS - 1
Consoles == [mem : [Words -> Glyphs], origin : Words, scr_end : 0..SCREEN_END,
             pos : 0..SCREEN_END, x : 0..COLUMNS, y : 0..LINES - 1,
             top : 0..LINES - 1, bottom : 1..LINES]
Sound(s) == s \in Consoles /\ InWindow(s)
IInv == TypeOK /\ CursorInWindow

-----------------------------------------------------------------------------
(* Addresses *)

Line(r) == r * COLUMNS

LEMMA LineNext ==
    ASSUME NEW r \in Int
    PROVE  /\ Line(r) \in Int /\ COLUMNS * r = Line(r) /\ r * COLUMNS = Line(r)
           /\ Line(r + 1) = Line(r) + COLUMNS /\ Line(r - 1) = Line(r) - COLUMNS
BY DEF Line

LEMMA LineMinus ==
    ASSUME NEW r \in Int, NEW q \in Int
    PROVE  Line(r - q) = Line(r) - Line(q)
BY DEF Line

LEMMA LineOrder ==
    ASSUME NEW r \in Int, NEW q \in Int, r < q
    PROVE  Line(r) + COLUMNS <= Line(q)
<1>1. (q - r - 1) * COLUMNS >= 0
  OBVIOUS
<1>2. (q - r - 1) * COLUMNS = q * COLUMNS - r * COLUMNS - COLUMNS
  OBVIOUS
<1> QED
  BY <1>1, <1>2 DEF Line

LEMMA ModType == ASSUME NEW n \in Int PROVE n % Word \in 0..Word - 1
OBVIOUS

(* What the proofs know of Line. *)
Layout ==
    /\ Line(0) = 0 /\ Line(LINES) = LINES * COLUMNS
    /\ \A r \in 0..LINES : /\ Line(r) \in Nat /\ Line(r) <= Line(LINES)
                           /\ COLUMNS * r = Line(r) /\ r * COLUMNS = Line(r)
    /\ \A r \in Rows : Line(r + 1) = Line(r) + COLUMNS
    /\ \A r, q \in 0..LINES : r < q => Line(r) + COLUMNS <= Line(q)

LEMMA LayoutHolds == Layout
<1>1. Line(0) = 0 /\ Line(LINES) = LINES * COLUMNS
  BY DEF Line
<1>2. \A r, q \in 0..LINES : r < q => Line(r) + COLUMNS <= Line(q)
  BY LineOrder
<1>3. \A r \in 0..LINES : /\ Line(r) \in Int
                          /\ COLUMNS * r = Line(r) /\ r * COLUMNS = Line(r)
  BY LineNext
<1>4. \A r \in 0..LINES : Line(r) >= 0 /\ Line(r) <= Line(LINES)
  <2> TAKE r \in 0..LINES
  <2>1. CASE r = 0
    BY <1>1, <1>2, <1>3, <2>1
  <2>2. CASE r = LINES
    BY <1>1, <1>2, <1>3, <2>2
  <2>3. CASE r # 0 /\ r # LINES
    <3>1. Line(0) + COLUMNS <= Line(r) /\ Line(r) + COLUMNS <= Line(LINES)
      BY <1>2, <2>3
    <3> QED
      BY <1>1, <1>3, <3>1
  <2> QED
    BY <2>1, <2>2, <2>3
<1>5. \A r \in Rows : Line(r + 1) = Line(r) + COLUMNS
  BY LineNext DEF Rows
<1> QED
  BY <1>1, <1>2, <1>3, <1>4, <1>5 DEF Layout

LEMMA LineType ==
    ASSUME NEW r \in Rows
    PROVE  /\ Line(r) \in Nat /\ Line(LINES) \in Nat /\ Line(r) + COLUMNS <= Line(LINES)
           /\ COLUMNS * r = Line(r) /\ r * COLUMNS = Line(r)
           /\ Line(r + 1) = Line(r) + COLUMNS /\ Line(LINES) = LINES * COLUMNS
<1>1. r \in 0..LINES /\ LINES \in 0..LINES /\ r < LINES
  BY DEF Rows
<1> QED
  BY <1>1, LayoutHolds DEF Layout

LEMMA LinesApart ==
    ASSUME NEW r \in Rows, NEW q \in Rows, r < q
    PROVE  Line(r) + COLUMNS <= Line(q)
BY LineOrder DEF Rows

-----------------------------------------------------------------------------
(* Cells *)

Grids == [Rows -> [Columns -> Glyphs]]

(* Every cell has an address of its own, and it is in the memory. *)
LEMMA Addresses ==
    ASSUME NEW s, Sound(s), NEW r \in Rows, NEW k \in 0..COLUMNS
    PROVE  /\ s.origin + Line(r) + k \in s.origin..s.scr_end
           /\ k < COLUMNS => s.origin + Line(r) + k \in Words /\ s.origin + Line(r) + k < s.scr_end
           /\ \A q \in Rows, j \in Columns :
                 /\ q < r => s.origin + Line(q) + j < s.origin + Line(r) + k
                 /\ r < q /\ k < COLUMNS => s.origin + Line(r) + k < s.origin + Line(q) + j
<1>1. /\ s.origin \in Nat /\ s.scr_end = s.origin + Line(LINES) /\ s.scr_end <= SCREEN_END
  BY LayoutHolds DEF Sound, InWindow, Consoles, Words, Layout
<1>2. /\ Line(r) \in Nat /\ Line(r) + COLUMNS <= Line(LINES) /\ Line(LINES) \in Nat
      /\ \A q \in Rows : /\ Line(q) \in Nat
                         /\ q < r => Line(q) + COLUMNS <= Line(r)
                         /\ r < q => Line(r) + COLUMNS <= Line(q)
  BY LayoutHolds DEF Layout, Rows
<1> QED
  BY <1>1, <1>2 DEF Words, Columns

LEMMA CellIs ==
    ASSUME NEW s, Sound(s), NEW r \in Rows, NEW k \in Columns
    PROVE  /\ Grid(s)[r][k] = s.mem[s.origin + Line(r) + k]
           /\ s.mem[s.origin + Line(r) + k] \in Glyphs
<1>1. COLUMNS * r = Line(r)
  BY LayoutHolds DEF Layout, Rows
<1>2. Grid(s)[r][k] = s.mem[s.origin + COLUMNS * r + k]
  BY DEF Grid, Rows, Columns
<1>3. s.origin + Line(r) + k \in Words
  BY Addresses DEF Columns
<1> QED
  BY <1>1, <1>2, <1>3 DEF Sound, Consoles

LEMMA GridIs ==
    ASSUME NEW s, NEW g \in Grids,
           \A r \in Rows, k \in Columns : s.mem[s.origin + Line(r) + k] = g[r][k]
    PROVE  Grid(s) = g
<1>1. \A r \in Rows : COLUMNS * r = Line(r)
  BY LayoutHolds DEF Layout, Rows
<1>2. Grid(s) = [r \in Rows |-> [k \in Columns |-> s.mem[s.origin + COLUMNS * r + k]]]
  BY DEF Grid, Rows, Columns
<1>3. \A r \in Rows : [k \in Columns |-> s.mem[s.origin + COLUMNS * r + k]] = g[r]
  <2> TAKE r \in Rows
  <2>1. g[r] \in [Columns -> Glyphs]
    BY DEF Grids
  <2> QED
    BY <1>1, <2>1
<1> QED
  BY <1>2, <1>3 DEF Grids

LEMMA GridType == ASSUME NEW s, Sound(s) PROVE Grid(s) \in Grids
BY CellIs, SMTT(60) DEF Grid, Grids, Rows, Columns

-----------------------------------------------------------------------------
(* Scrolls: a copy of rows and a fill of one, at any origin *)

LEMMA FillIs ==
    ASSUME NEW m, NEW start, NEW n, NEW i \in Words
    PROVE  Fill(m, start, n)[i] = IF i \in start..start + n - 1 THEN Blank ELSE m[i]
BY DEF Fill

LEMMA FillType ==
    ASSUME NEW m \in [Words -> Glyphs], NEW start, NEW n
    PROVE  Fill(m, start, n) \in [Words -> Glyphs]
BY DEF Fill

LEMMA CopyIs ==
    ASSUME NEW m, NEW to, NEW from, NEW n, NEW i \in Words
    PROVE  Copy(m, to, from, n)[i] = IF i \in to..to + n - 1 THEN m[i - to + from] ELSE m[i]
BY DEF Copy

LEMMA CopyType ==
    ASSUME NEW m \in [Words -> Glyphs], NEW to \in Nat, NEW from \in Nat, NEW n \in Nat,
           from + n <= SCREEN_END
    PROVE  Copy(m, to, from, n) \in [Words -> Glyphs]
BY DEF Copy, Words

LEMMA UpType ==
    ASSUME NEW g \in Grids, NEW t \in Rows, NEW b \in 1..LINES, t < b
    PROVE  Shown!Up(g, t, b) \in Grids
BY DEF Shown!Up, Shown!Rows, Shown!BlankRow, Shown!Columns, Grids, Rows, Columns

LEMMA DownType ==
    ASSUME NEW g \in Grids, NEW t \in Rows, NEW b \in 1..LINES, t < b
    PROVE  Shown!Down(g, t, b) \in Grids
BY DEF Shown!Down, Shown!Rows, Shown!BlankRow, Shown!Columns, Grids, Rows, Columns

LEMMA RegionUp ==
    ASSUME NEW s, Sound(s), NEW t \in Rows, NEW b \in 1..LINES, t < b,
           NEW m, m = Fill(Copy(s.mem, s.origin + COLUMNS * t, s.origin + COLUMNS * (t + 1),
                                COLUMNS * (b - t - 1)),
                           s.origin + COLUMNS * (b - 1), COLUMNS)
    PROVE  /\ m \in [Words -> Glyphs]
           /\ \A r \in Rows, k \in Columns :
                 m[s.origin + Line(r) + k] = Shown!Up(Grid(s), t, b)[r][k]
<1> DEFINE c == Copy(s.mem, s.origin + Line(t), s.origin + Line(t) + COLUMNS,
                     Line(b - 1) - Line(t))
<1>1. /\ COLUMNS * t = Line(t) /\ COLUMNS * (t + 1) = Line(t) + COLUMNS
      /\ COLUMNS * (b - t - 1) = Line(b - 1) - Line(t) /\ COLUMNS * (b - 1) = Line(b - 1)
  BY DEF Line, Rows
<1>2. m = Fill(c, s.origin + Line(b - 1), COLUMNS)
  <2>1. s.origin + (Line(t) + COLUMNS) = s.origin + Line(t) + COLUMNS
    BY LineType, SMTT(60) DEF Sound, Consoles, Words
  <2> QED
    BY <1>1, <2>1, Zenon
<1>3. /\ s.mem \in [Words -> Glyphs] /\ s.origin \in Nat
      /\ s.scr_end = s.origin + Line(LINES) /\ s.scr_end <= SCREEN_END
  BY LayoutHolds DEF Sound, Consoles, InWindow, Words, Layout
<1>4. /\ Line(t) \in Nat /\ Line(b - 1) \in Nat /\ Line(t) <= Line(b - 1)
      /\ Line(b - 1) + COLUMNS <= Line(LINES) /\ Line(LINES) \in Nat
  <2>1. b - 1 \in Rows /\ b - 1 < LINES
    BY DEF Rows
  <2>2. t < b - 1 \/ t = b - 1
    BY DEF Rows
  <2> QED
    BY <2>1, <2>2, LayoutHolds DEF Layout, Rows
<1>5. c \in [Words -> Glyphs]
  <2>1. /\ s.origin + Line(t) \in Nat /\ s.origin + Line(t) + COLUMNS \in Nat
        /\ Line(b - 1) - Line(t) \in Nat
        /\ s.origin + Line(t) + COLUMNS + (Line(b - 1) - Line(t)) <= SCREEN_END
        /\ s.origin + Line(t) + (Line(b - 1) - Line(t)) <= SCREEN_END
    BY <1>3, <1>4
  <2> QED
    BY <1>3, <2>1, CopyType
<1>6. m \in [Words -> Glyphs]
  BY <1>2, <1>5, FillType
<1>7. ASSUME NEW r \in Rows, NEW k \in Columns
      PROVE  m[s.origin + Line(r) + k] = Shown!Up(Grid(s), t, b)[r][k]
  <2> DEFINE i == s.origin + Line(r) + k
  <2>0. Line(r) \in Nat /\ k \in 0..COLUMNS /\ k < COLUMNS
    BY LineType DEF Columns
  <2>1. i \in Words /\ Line(r) \in Nat /\ k \in Nat /\ k < COLUMNS
    BY <2>0, Addresses
  <2>2. m[i] = IF i \in s.origin + Line(b - 1)..s.origin + Line(b - 1) + COLUMNS - 1
               THEN Blank ELSE c[i]
    BY <1>2, <2>1, FillIs
  <2>3. c[i] = IF i \in s.origin + Line(t)..s.origin + Line(t) + (Line(b - 1) - Line(t)) - 1
               THEN s.mem[i - (s.origin + Line(t)) + (s.origin + Line(t) + COLUMNS)]
               ELSE s.mem[i]
    BY <2>1, CopyIs
  <2>4. Grid(s)[r][k] = s.mem[i]
    BY CellIs
  <2>5. Shown!Up(Grid(s), t, b)[r][k] =
           IF r \in t..b - 2 THEN Grid(s)[r + 1][k]
           ELSE IF r = b - 1 THEN Blank ELSE Grid(s)[r][k]
    BY DEF Shown!Up, Shown!Rows, Shown!BlankRow, Shown!Columns, Rows, Columns
  <2> HIDE DEF i
  <2>6. CASE r < t
    <3>1. Line(r) + COLUMNS <= Line(t)
      BY <2>6, LayoutHolds DEF Layout, Rows
    <3>2. m[i] = s.mem[i]
      BY <1>3, <1>4, <2>1, <2>2, <2>3, <3>1 DEF i
    <3> QED
      BY <2>4, <2>5, <2>6, <3>2 DEF i, Rows
  <2>7. CASE r \in t..b - 2
    <3>1. Line(t) <= Line(r) /\ Line(r) + COLUMNS <= Line(b - 1)
      BY <2>7, LayoutHolds DEF Layout, Rows
    <3>2. m[i] = s.mem[i + COLUMNS]
      BY <1>3, <1>4, <2>1, <2>2, <2>3, <3>1 DEF i
    <3>3. r + 1 \in Rows /\ Line(r + 1) = Line(r) + COLUMNS
      BY <2>7, LayoutHolds DEF Layout, Rows
    <3>4. Grid(s)[r + 1][k] = s.mem[s.origin + Line(r + 1) + k]
      BY <3>3, CellIs
    <3>5. s.origin + Line(r + 1) + k = i + COLUMNS
      BY <1>3, <2>1, <3>3 DEF i
    <3> QED
      BY <2>5, <2>7, <3>2, <3>4, <3>5 DEF i
  <2>8. CASE r = b - 1
    <3>1. m[i] = Blank
      BY <1>3, <1>4, <2>1, <2>2, <2>8 DEF i
    <3> QED
      BY <2>5, <2>8, <3>1 DEF i, Rows
  <2>9. CASE b <= r
    <3>1. Line(b - 1) + COLUMNS <= Line(r)
      BY <2>9, LayoutHolds DEF Layout, Rows
    <3>2. m[i] = s.mem[i]
      BY <1>3, <1>4, <2>1, <2>2, <2>3, <3>1 DEF i
    <3> QED
      BY <2>4, <2>5, <2>9, <3>2 DEF i, Rows
  <2> QED
    BY <2>6, <2>7, <2>8, <2>9 DEF i, Rows
<1> QED
  BY <1>6, <1>7

LEMMA RegionDown ==
    ASSUME NEW s, Sound(s), NEW t \in Rows, NEW b \in 1..LINES, t < b,
           NEW m, m = Fill(Copy(s.mem, s.origin + COLUMNS * (t + 1), s.origin + COLUMNS * t,
                                COLUMNS * (b - t - 1)),
                           s.origin + COLUMNS * t, COLUMNS)
    PROVE  /\ m \in [Words -> Glyphs]
           /\ \A r \in Rows, k \in Columns :
                 m[s.origin + Line(r) + k] = Shown!Down(Grid(s), t, b)[r][k]
<1> DEFINE c == Copy(s.mem, s.origin + Line(t) + COLUMNS, s.origin + Line(t),
                     Line(b - 1) - Line(t))
<1>1. /\ COLUMNS * t = Line(t) /\ COLUMNS * (t + 1) = Line(t) + COLUMNS
      /\ COLUMNS * (b - t - 1) = Line(b - 1) - Line(t)
  BY DEF Line, Rows
<1>2. /\ s.mem \in [Words -> Glyphs] /\ s.origin \in Nat
      /\ s.scr_end = s.origin + Line(LINES) /\ s.scr_end <= SCREEN_END
  BY LayoutHolds DEF Sound, Consoles, InWindow, Words, Layout
<1>3. /\ Line(t) \in Nat /\ Line(b - 1) \in Nat /\ Line(t) <= Line(b - 1)
      /\ Line(b - 1) + COLUMNS <= Line(LINES) /\ Line(LINES) \in Nat
  <2>1. b - 1 \in Rows /\ b - 1 < LINES
    BY DEF Rows
  <2>2. t < b - 1 \/ t = b - 1
    BY DEF Rows
  <2> QED
    BY <2>1, <2>2, LayoutHolds DEF Layout, Rows
<1>4. m = Fill(c, s.origin + Line(t), COLUMNS)
  <2>1. s.origin + (Line(t) + COLUMNS) = s.origin + Line(t) + COLUMNS
    BY <1>2, <1>3
  <2> QED
    BY <1>1, <2>1, Zenon
<1>5. c \in [Words -> Glyphs]
  <2>1. /\ s.origin + Line(t) \in Nat /\ s.origin + Line(t) + COLUMNS \in Nat
        /\ Line(b - 1) - Line(t) \in Nat
        /\ s.origin + Line(t) + COLUMNS + (Line(b - 1) - Line(t)) <= SCREEN_END
        /\ s.origin + Line(t) + (Line(b - 1) - Line(t)) <= SCREEN_END
    BY <1>2, <1>3
  <2> QED
    BY <1>2, <2>1, CopyType
<1>6. m \in [Words -> Glyphs]
  BY <1>4, <1>5, FillType
<1>7. ASSUME NEW r \in Rows, NEW k \in Columns
      PROVE  m[s.origin + Line(r) + k] = Shown!Down(Grid(s), t, b)[r][k]
  <2> DEFINE i == s.origin + Line(r) + k
  <2>0. Line(r) \in Nat /\ k \in 0..COLUMNS /\ k < COLUMNS
    BY LineType DEF Columns
  <2>1. i \in Words /\ Line(r) \in Nat /\ k \in Nat /\ k < COLUMNS
    BY <2>0, Addresses
  <2>2. m[i] = IF i \in s.origin + Line(t)..s.origin + Line(t) + COLUMNS - 1
               THEN Blank ELSE c[i]
    BY <1>4, <2>1, FillIs
  <2>3. c[i] = IF i \in s.origin + Line(t) + COLUMNS
                        ..s.origin + Line(t) + COLUMNS + (Line(b - 1) - Line(t)) - 1
               THEN s.mem[i - (s.origin + Line(t) + COLUMNS) + (s.origin + Line(t))]
               ELSE s.mem[i]
    BY <2>1, CopyIs
  <2>4. Grid(s)[r][k] = s.mem[i]
    BY CellIs
  <2>5. Shown!Down(Grid(s), t, b)[r][k] =
           IF r \in t + 1..b - 1 THEN Grid(s)[r - 1][k]
           ELSE IF r = t THEN Blank ELSE Grid(s)[r][k]
    BY DEF Shown!Down, Shown!Rows, Shown!BlankRow, Shown!Columns, Rows, Columns
  <2> HIDE DEF i
  <2>6. CASE r < t
    <3>1. Line(r) + COLUMNS <= Line(t)
      BY <2>6, LayoutHolds DEF Layout, Rows
    <3>2. m[i] = s.mem[i]
      BY <1>2, <1>3, <2>1, <2>2, <2>3, <3>1 DEF i
    <3> QED
      BY <2>4, <2>5, <2>6, <3>2 DEF i, Rows
  <2>7. CASE r \in t + 1..b - 1
    <3>1. r - 1 \in Rows /\ Line(r) = Line(r - 1) + COLUMNS
      <4>1. r - 1 \in Rows /\ (r - 1) + 1 = r
        BY <2>7 DEF Rows
      <4> QED
        BY <4>1, LayoutHolds DEF Layout
    <3>2. Line(t) + COLUMNS <= Line(r) /\ Line(r) <= Line(b - 1)
      <4>1. r = b - 1 \/ r < b - 1
        BY <2>7 DEF Rows
      <4> QED
        BY <2>7, <4>1, LayoutHolds, SMTT(60) DEF Layout, Rows
    <3>3. m[i] = s.mem[i - COLUMNS]
      BY <1>2, <1>3, <2>1, <2>2, <2>3, <3>2 DEF i
    <3>4. Grid(s)[r - 1][k] = s.mem[s.origin + Line(r - 1) + k]
      BY <3>1, CellIs
    <3>5. s.origin + Line(r - 1) + k = i - COLUMNS
      <4>1. Line(r - 1) \in Nat
        BY <3>1, LayoutHolds DEF Layout, Rows
      <4> QED
        BY <1>2, <2>1, <3>1, <4>1 DEF i
    <3> QED
      BY <2>5, <2>7, <3>3, <3>4, <3>5 DEF i
  <2>8. CASE r = t
    <3>1. m[i] = Blank
      BY <1>2, <1>3, <2>1, <2>2, <2>8 DEF i
    <3> QED
      BY <2>5, <2>8, <3>1 DEF i, Rows
  <2>9. CASE b <= r
    <3>1. Line(b - 1) + COLUMNS <= Line(r)
      BY <2>9, LayoutHolds DEF Layout, Rows
    <3>2. m[i] = s.mem[i]
      BY <1>2, <1>3, <2>1, <2>2, <2>3, <3>1 DEF i
    <3> QED
      BY <2>4, <2>5, <2>9, <3>2 DEF i, Rows
  <2> QED
    BY <2>6, <2>7, <2>8, <2>9 DEF i, Rows
<1> QED
  BY <1>6, <1>7

-----------------------------------------------------------------------------
(* What an operation makes of the console s: t is sound, shows the grid g, *)
(* has the cursor at x and y, and the region of s.                         *)

After(s, t, g, x, y) ==
    /\ Sound(t) /\ Grid(t) = g /\ t.x = x /\ t.y = y
    /\ t.top = s.top /\ t.bottom = s.bottom

LEMMA SoundFields ==
    ASSUME NEW s, Sound(s)
    PROVE  /\ s.mem \in [Words -> Glyphs] /\ s.origin \in Nat
           /\ s.scr_end = s.origin + Line(LINES) /\ s.scr_end <= SCREEN_END
           /\ s.x \in 0..COLUMNS /\ s.y \in Rows /\ Line(s.y) \in Nat
           /\ s.pos = s.origin + Line(s.y) + s.x
           /\ s.top \in Rows /\ s.bottom \in 1..LINES /\ s.top < s.bottom
<1>1. s.y \in Rows
  BY DEF Sound, InWindow, Rows
<1>2. Line(s.y) \in Nat /\ s.y * COLUMNS = Line(s.y) /\ Line(LINES) = LINES * COLUMNS
  BY <1>1, LineType
<1> QED
  BY <1>1, <1>2 DEF Sound, InWindow, Consoles, Words, Rows

(* What has to be shown of a new console. *)
LEMMA IsSound ==
    ASSUME NEW t, t = [mem |-> t.mem, origin |-> t.origin, scr_end |-> t.scr_end,
                       pos |-> t.pos, x |-> t.x, y |-> t.y,
                       top |-> t.top, bottom |-> t.bottom],
           t.mem \in [Words -> Glyphs], t.origin \in Nat,
           t.scr_end = t.origin + Line(LINES), t.scr_end <= SCREEN_END,
           t.x \in 0..COLUMNS, t.y \in Rows, t.pos = t.origin + Line(t.y) + t.x,
           t.top \in Rows, t.bottom \in 1..LINES, t.top < t.bottom
    PROVE  Sound(t)
<1>1. Line(t.y) \in Nat /\ t.y * COLUMNS = Line(t.y) /\ Line(LINES) = LINES * COLUMNS
      /\ Line(t.y) + COLUMNS <= Line(LINES) /\ Line(LINES) \in Nat
  BY LineType
<1>2. t.origin \in Words /\ t.scr_end \in 0..SCREEN_END /\ t.pos \in 0..SCREEN_END
  <2>1. t.scr_end \in Nat /\ t.origin + COLUMNS <= t.scr_end /\ t.pos <= t.scr_end
    BY <1>1
  <2>2. t.pos \in Nat
    BY <1>1
  <2> QED
    BY <2>1, <2>2 DEF Words
<1>3. t \in Consoles
  BY <1>2 DEF Consoles, Rows
<1>4. InWindow(t)
  BY <1>1 DEF InWindow, Rows
<1> QED
  BY <1>3, <1>4 DEF Sound

LEMMA RecordOf ==
    ASSUME NEW s, Sound(s)
    PROVE  s = [mem |-> s.mem, origin |-> s.origin, scr_end |-> s.scr_end,
                pos |-> s.pos, x |-> s.x, y |-> s.y, top |-> s.top, bottom |-> s.bottom]
BY DEF Sound, Consoles

(* The window stays and only the memory changes. *)
LEMMA MemoryChanges ==
    ASSUME NEW s, Sound(s), NEW m \in [Words -> Glyphs], NEW g \in Grids,
           \A r \in Rows, k \in Columns : m[s.origin + Line(r) + k] = g[r][k]
    PROVE  After(s, [s EXCEPT !.mem = m], g, s.x, s.y)
<1> DEFINE t == [s EXCEPT !.mem = m]
<1>1. t = [mem |-> m, origin |-> s.origin, scr_end |-> s.scr_end,
           pos |-> s.pos, x |-> s.x, y |-> s.y, top |-> s.top, bottom |-> s.bottom]
  BY RecordOf DEF Sound, Consoles
<1> HIDE DEF t
<1>2. Sound(t)
  BY <1>1, SoundFields, IsSound
<1>3. Grid(t) = g
  BY <1>1, GridIs
<1> QED
  BY <1>1, <1>2, <1>3 DEF After, t

LEMMA ScrollRegionIs ==
    ASSUME NEW s, Sound(s)
    PROVE  After(s, ScrollRegion(s), Shown!Up(Grid(s), s.top, s.bottom), s.x, s.y)
<1> DEFINE m == Fill(Copy(s.mem, s.origin + COLUMNS * s.top, s.origin + COLUMNS * (s.top + 1),
                          COLUMNS * (s.bottom - s.top - 1)),
                     s.origin + COLUMNS * (s.bottom - 1), COLUMNS)
<1>1. ScrollRegion(s) = [s EXCEPT !.mem = m]
  BY RecordOf DEF ScrollRegion
<1>2. /\ m \in [Words -> Glyphs]
      /\ \A r \in Rows, k \in Columns :
            m[s.origin + Line(r) + k] = Shown!Up(Grid(s), s.top, s.bottom)[r][k]
  BY SoundFields, RegionUp
<1>3. Shown!Up(Grid(s), s.top, s.bottom) \in Grids
  BY SoundFields, GridType, UpType
<1> HIDE DEF m
<1> QED
  BY <1>1, <1>2, <1>3, MemoryChanges

LEMMA ScrdownIs ==
    ASSUME NEW s, Sound(s)
    PROVE  After(s, scrdown(s), Shown!Down(Grid(s), s.top, s.bottom), s.x, s.y)
<1> DEFINE m == Fill(Copy(s.mem, s.origin + COLUMNS * (s.top + 1), s.origin + COLUMNS * s.top,
                          COLUMNS * (s.bottom - s.top - 1)),
                     s.origin + COLUMNS * s.top, COLUMNS)
<1>1. scrdown(s) = [s EXCEPT !.mem = m]
  BY RecordOf DEF scrdown
<1>2. /\ m \in [Words -> Glyphs]
      /\ \A r \in Rows, k \in Columns :
            m[s.origin + Line(r) + k] = Shown!Down(Grid(s), s.top, s.bottom)[r][k]
  BY SoundFields, RegionDown
<1>3. Shown!Down(Grid(s), s.top, s.bottom) \in Grids
  BY SoundFields, GridType, DownType
<1> HIDE DEF m
<1> QED
  BY <1>1, <1>2, <1>3, MemoryChanges

(* The window slides over the memory by a row. *)
LEMMA SlideIs ==
    ASSUME NEW s, Sound(s), s.top = 0, s.bottom = LINES, s.scr_end + COLUMNS <= SCREEN_END
    PROVE  After(s, Slide(s), Shown!Up(Grid(s), 0, LINES), s.x, s.y)
<1> DEFINE m == Fill(s.mem, s.scr_end, COLUMNS)
           t == Slide(s)
           g == Shown!Up(Grid(s), 0, LINES)
<1>1. t = [mem |-> m, origin |-> s.origin + COLUMNS, scr_end |-> s.scr_end + COLUMNS,
           pos |-> s.pos + COLUMNS, x |-> s.x, y |-> s.y, top |-> s.top, bottom |-> s.bottom]
  <2>1. t = [s EXCEPT !.mem = m, !.origin = s.origin + COLUMNS, !.pos = s.pos + COLUMNS,
                      !.scr_end = s.scr_end + COLUMNS]
    BY DEF Slide
  <2> HIDE DEF m, t
  <2>2. t \in [mem : {m}, origin : {s.origin + COLUMNS}, scr_end : {s.scr_end + COLUMNS},
               pos : {s.pos + COLUMNS}, x : {s.x}, y : {s.y}, top : {s.top},
               bottom : {s.bottom}]
    BY <2>1 DEF Sound, Consoles
  <2> QED
    BY <2>2
<1>2. m \in [Words -> Glyphs]
  BY SoundFields, FillType
<1>3. g \in Grids
  BY GridType, UpType DEF Rows
<1>4. ASSUME NEW r \in Rows, NEW k \in Columns
      PROVE  m[s.origin + COLUMNS + Line(r) + k] = g[r][k]
  <2>1. g[r][k] = IF r \in 0..LINES - 2 THEN Grid(s)[r + 1][k]
                  ELSE IF r = LINES - 1 THEN Blank ELSE Grid(s)[r][k]
    BY DEF Shown!Up, Shown!Rows, Shown!BlankRow, Shown!Columns, Rows, Columns
  <2>2. /\ Line(r) \in Nat /\ Line(r + 1) = Line(r) + COLUMNS /\ Line(LINES) \in Nat
        /\ Line(r + 1) <= Line(LINES) /\ k \in Nat /\ k < COLUMNS
    BY LineType DEF Columns
  <2> DEFINE i == s.origin + COLUMNS + Line(r) + k
  <2>3. i \in Words
    <3>1. i \in Nat /\ i < s.origin + COLUMNS + Line(LINES)
      BY <2>2, SoundFields
    <3>2. s.origin + COLUMNS + Line(LINES) <= SCREEN_END
      BY <2>2, SoundFields
    <3>3. s.origin + COLUMNS + Line(LINES) \in Nat
      BY <2>2, SoundFields
    <3> HIDE DEF i
    <3> QED
      BY <3>1, <3>2, <3>3 DEF Words
  <2>4. m[i] = IF i \in s.scr_end..s.scr_end + COLUMNS - 1 THEN Blank ELSE s.mem[i]
    BY <2>3, FillIs
  <2>5. CASE r = LINES - 1
    <3>1. i \in s.scr_end..s.scr_end + COLUMNS - 1
      BY <2>2, <2>5, SoundFields
    <3> QED
      BY <2>1, <2>4, <2>5, <3>1 DEF Rows
  <2>6. CASE r # LINES - 1
    <3>1. r \in 0..LINES - 2 /\ r + 1 \in Rows
      BY <2>6 DEF Rows
    <3>2. Line(r + 1) + COLUMNS <= Line(LINES)
      BY <3>1, LayoutHolds DEF Layout, Rows
    <3>3. m[i] = s.mem[i]
      BY <2>2, <2>4, <3>2, SoundFields
    <3>4. Grid(s)[r + 1][k] = s.mem[s.origin + Line(r + 1) + k]
      BY <3>1, CellIs
    <3>5. s.origin + Line(r + 1) + k = i
      BY <2>2, SoundFields
    <3> QED
      BY <2>1, <3>1, <3>3, <3>4, <3>5
  <2> QED
    BY <2>5, <2>6
<1> HIDE DEF m, t, g
<1>5. t.pos = t.origin + Line(t.y) + t.x /\ t.scr_end = t.origin + Line(LINES)
  <2>1. Line(LINES) \in Nat
    BY LayoutHolds DEF Layout
  <2> QED
    BY <1>1, <2>1, SoundFields
<1>6. Sound(t)
  BY <1>1, <1>2, <1>5, SoundFields, IsSound
<1>7. Grid(t) = g
  BY <1>1, <1>3, <1>4, GridIs
<1> QED
  BY <1>1, <1>6, <1>7 DEF After, t, g

(* The window goes back to the start of the memory. *)
LEMMA RewindIs ==
    ASSUME NEW s, Sound(s), s.top = 0, s.bottom = LINES
    PROVE  After(s, Rewind(s), Shown!Up(Grid(s), 0, LINES), s.x, s.y)
<1> DEFINE o == s.origin + COLUMNS
           kept == Line(LINES - 1)
           c == Copy(s.mem, 0, o, kept)
           m == Fill(c, kept, COLUMNS)
           t == Rewind(s)
           g == Shown!Up(Grid(s), 0, LINES)
<1>0. /\ (LINES - 1) * COLUMNS = kept /\ kept \in Nat /\ Line(LINES) = kept + COLUMNS
      /\ \A r \in Rows : Line(r) \in Nat /\ Line(r) <= kept
  <2>1. LINES - 1 \in Rows /\ (LINES - 1) + 1 = LINES
    BY DEF Rows
  <2>2. \A r \in Rows : r = LINES - 1 \/ r < LINES - 1
    BY DEF Rows
  <2> QED
    BY <2>1, <2>2, LayoutHolds DEF Layout, Rows
<1>1. t = [mem |-> m, origin |-> 0, scr_end |-> s.scr_end + COLUMNS - o,
           pos |-> s.pos + COLUMNS - o, x |-> s.x, y |-> s.y,
           top |-> s.top, bottom |-> s.bottom]
  <2>1. t = [s EXCEPT !.mem = m, !.origin = 0, !.pos = s.pos + COLUMNS - o,
                      !.scr_end = s.scr_end + COLUMNS - o]
    BY <1>0, Zenon DEF Rewind
  <2> HIDE DEF m, o, t
  <2>2. t \in [mem : {m}, origin : {0}, scr_end : {s.scr_end + COLUMNS - o},
               pos : {s.pos + COLUMNS - o}, x : {s.x}, y : {s.y}, top : {s.top},
               bottom : {s.bottom}]
    BY <2>1 DEF Sound, Consoles
  <2> QED
    BY <2>2
<1>2. m \in [Words -> Glyphs]
  <2>1. o \in Nat /\ o + kept <= SCREEN_END /\ s.mem \in [Words -> Glyphs]
    BY <1>0, SoundFields
  <2>2. c \in [Words -> Glyphs]
    BY <1>0, <2>1, CopyType
  <2> QED
    BY <2>2, FillType
<1>3. g \in Grids
  BY GridType, UpType DEF Rows
<1>4. ASSUME NEW r \in Rows, NEW k \in Columns
      PROVE  m[0 + Line(r) + k] = g[r][k]
  <2>1. g[r][k] = IF r \in 0..LINES - 2 THEN Grid(s)[r + 1][k]
                  ELSE IF r = LINES - 1 THEN Blank ELSE Grid(s)[r][k]
    BY DEF Shown!Up, Shown!Rows, Shown!BlankRow, Shown!Columns, Rows, Columns
  <2>2. Line(r) \in Nat /\ Line(r) <= kept /\ k \in Nat /\ k < COLUMNS
    BY <1>0 DEF Columns
  <2> DEFINE i == 0 + Line(r) + k
  <2>3. i \in Words /\ s.origin \in Nat
    <3>1. i \in Nat /\ i < kept + COLUMNS
      BY <1>0, <2>2
    <3>2. Line(LINES) = kept + COLUMNS /\ Line(LINES) <= SCREEN_END
      BY <1>0, SoundFields
    <3>. HIDE DEF i, kept
    <3>3. i < SCREEN_END
      BY <1>0, <3>1, <3>2
    <3>. QED BY <3>1, <3>3, SoundFields DEF Words
  <2>4. m[i] = IF i \in kept..kept + COLUMNS - 1 THEN Blank ELSE c[i]
    BY <2>3, FillIs
  <2>5. c[i] = IF i \in 0..0 + kept - 1 THEN s.mem[i - 0 + o] ELSE s.mem[i]
    BY <2>3, CopyIs
  <2>6. CASE r = LINES - 1
    <3>1. i \in kept..kept + COLUMNS - 1
      BY <1>0, <2>2, <2>6
    <3> QED
      BY <2>1, <2>4, <2>6, <3>1 DEF Rows
  <2>7. CASE r # LINES - 1
    <3>1. r \in 0..LINES - 2 /\ r + 1 \in Rows
      BY <2>7 DEF Rows
    <3>2. Line(r) + COLUMNS <= kept /\ Line(r + 1) = Line(r) + COLUMNS
      BY <1>0, <3>1, LayoutHolds DEF Layout, Rows
    <3>3. i \in 0..0 + kept - 1 /\ i \notin kept..kept + COLUMNS - 1 /\ i - 0 + o = i + o
      BY <1>0, <2>2, <2>3, <3>2
    <3>4. m[i] = s.mem[i + o]
      BY <2>4, <2>5, <3>3
    <3>5. Grid(s)[r + 1][k] = s.mem[s.origin + Line(r + 1) + k]
      BY <3>1, CellIs
    <3>6. s.origin + Line(r + 1) + k = i + o
      BY <2>2, <2>3, <3>2
    <3> QED
      BY <2>1, <3>1, <3>4, <3>5, <3>6
  <2> QED
    BY <2>6, <2>7
<1>5. /\ s.pos + COLUMNS - o = 0 + Line(s.y) + s.x
      /\ s.scr_end + COLUMNS - o = 0 + Line(LINES) /\ Line(LINES) <= SCREEN_END
  BY <1>0, SoundFields
<1> HIDE DEF m, t, g, o
<1>6. Sound(t)
  <2>1. /\ t.origin \in Nat /\ t.scr_end = t.origin + Line(LINES) /\ t.scr_end <= SCREEN_END
        /\ t.pos = t.origin + Line(t.y) + t.x
    BY <1>0, <1>1, <1>5
  <2> QED
    BY <1>1, <1>2, <2>1, SoundFields, IsSound
<1>7. Grid(t) = g
  BY <1>1, <1>3, <1>4, GridIs
<1> QED
  BY <1>1, <1>6, <1>7 DEF After, t, g

LEMMA ScrupIs ==
    ASSUME NEW s, Sound(s)
    PROVE  After(s, scrup(s), Shown!Up(Grid(s), s.top, s.bottom), s.x, s.y)
<1>1. CASE s.top # 0 \/ s.bottom # LINES
  BY <1>1, ScrollRegionIs DEF scrup
<1>2. CASE s.top = 0 /\ s.bottom = LINES /\ s.scr_end + COLUMNS > SCREEN_END
  BY <1>2, RewindIs DEF scrup
<1>3. CASE s.top = 0 /\ s.bottom = LINES /\ ~(s.scr_end + COLUMNS > SCREEN_END)
  <2>1. s.scr_end + COLUMNS <= SCREEN_END
    BY <1>3 DEF Sound, Consoles
  <2> QED
    BY <1>3, <2>1, SlideIs DEF scrup
<1> QED
  BY <1>1, <1>2, <1>3

-----------------------------------------------------------------------------
(* Moves of the cursor *)

LEMMA CursorMoves ==
    ASSUME NEW s, Sound(s), NEW nx \in 0..COLUMNS, NEW ny \in Rows, NEW t,
           t \in [mem : {s.mem}, origin : {s.origin}, scr_end : {s.scr_end},
                  pos : {s.origin + Line(ny) + nx}, x : {nx}, y : {ny},
                  top : {s.top}, bottom : {s.bottom}]
    PROVE  After(s, t, Grid(s), nx, ny)
<1>1. t = [mem |-> t.mem, origin |-> t.origin, scr_end |-> t.scr_end, pos |-> t.pos,
           x |-> t.x, y |-> t.y, top |-> t.top, bottom |-> t.bottom]
  OBVIOUS
<1>2. /\ t.mem = s.mem /\ t.origin = s.origin /\ t.scr_end = s.scr_end
      /\ t.pos = s.origin + Line(ny) + nx /\ t.x = nx /\ t.y = ny
      /\ t.top = s.top /\ t.bottom = s.bottom
  OBVIOUS
<1>3. Sound(t)
  BY <1>1, <1>2, SoundFields, IsSound
<1>4. Grid(t) = Grid(s)
  BY <1>2 DEF Grid
<1> QED
  BY <1>2, <1>3, <1>4 DEF After

(* Where a line feed leads, and what it makes of the grid. *)
Fed(s) == IF s.y + 1 < s.bottom THEN s.y + 1 ELSE s.y
FedOn(s) == IF s.y + 1 < s.bottom THEN Grid(s) ELSE Shown!Up(Grid(s), s.top, s.bottom)

LEMMA LfIs ==
    ASSUME NEW s, Sound(s)
    PROVE  After(s, lf(s), FedOn(s), s.x, Fed(s)) /\ Fed(s) \in Rows
<1>1. CASE s.y + 1 < s.bottom
  <2> DEFINE t == [s EXCEPT !.y = s.y + 1, !.pos = s.pos + COLUMNS]
  <2>1. s.y + 1 \in Rows /\ Line(s.y + 1) = Line(s.y) + COLUMNS
    BY <1>1, SoundFields, LineType DEF Rows
  <2>2. s.pos + COLUMNS = s.origin + Line(s.y + 1) + s.x
    BY <2>1, SoundFields
  <2>3. t \in [mem : {s.mem}, origin : {s.origin}, scr_end : {s.scr_end},
               pos : {s.origin + Line(s.y + 1) + s.x}, x : {s.x}, y : {s.y + 1},
               top : {s.top}, bottom : {s.bottom}]
    BY <2>2 DEF Sound, Consoles
  <2> HIDE DEF t
  <2>4. After(s, t, Grid(s), s.x, s.y + 1)
    BY <2>1, <2>3, SoundFields, CursorMoves
  <2>5. lf(s) = t
    BY <1>1 DEF lf, t
  <2> QED
    BY <1>1, <2>1, <2>4, <2>5 DEF Fed, FedOn
<1>2. CASE ~(s.y + 1 < s.bottom)
  <2>1. lf(s) = scrup(s) /\ Fed(s) = s.y
    BY <1>2 DEF lf, Fed
  <2>2. FedOn(s) = Shown!Up(Grid(s), s.top, s.bottom)
    BY <1>2 DEF FedOn
  <2> QED
    BY <2>1, <2>2, ScrupIs, SoundFields
<1> QED
  BY <1>1, <1>2

LEMMA RiIs ==
    ASSUME NEW s, Sound(s)
    PROVE  IF s.y > s.top
           THEN After(s, ri(s), Grid(s), s.x, s.y - 1) /\ s.y - 1 \in Rows
           ELSE After(s, ri(s), Shown!Down(Grid(s), s.top, s.bottom), s.x, s.y)
<1>1. CASE s.y > s.top
  <2> DEFINE t == [s EXCEPT !.y = s.y - 1, !.pos = s.pos - COLUMNS]
  <2>1. s.y - 1 \in Rows /\ Line(s.y) = Line(s.y - 1) + COLUMNS /\ Line(s.y - 1) \in Nat
    <3>1. s.y - 1 \in Rows /\ (s.y - 1) + 1 = s.y
      BY <1>1, SoundFields DEF Rows
    <3> QED
      BY <3>1, LineType
  <2>2. s.pos - COLUMNS = s.origin + Line(s.y - 1) + s.x
    BY <2>1, SoundFields
  <2>3. t \in [mem : {s.mem}, origin : {s.origin}, scr_end : {s.scr_end},
               pos : {s.origin + Line(s.y - 1) + s.x}, x : {s.x}, y : {s.y - 1},
               top : {s.top}, bottom : {s.bottom}]
    BY <2>2 DEF Sound, Consoles
  <2> HIDE DEF t
  <2>4. After(s, t, Grid(s), s.x, s.y - 1)
    BY <2>1, <2>3, SoundFields, CursorMoves
  <2>5. ri(s) = t
    BY <1>1 DEF ri, t
  <2> QED
    BY <1>1, <2>1, <2>4, <2>5
<1>2. CASE ~(s.y > s.top)
  <2>1. ri(s) = scrdown(s)
    BY <1>2 DEF ri
  <2> QED
    BY <1>2, <2>1, ScrdownIs
<1> QED
  BY <1>1, <1>2

LEMMA CrIs == ASSUME NEW s, Sound(s) PROVE After(s, cr(s), Grid(s), 0, s.y)
<1>1. s.pos - s.x = s.origin + Line(s.y) + 0
  BY SoundFields
<1>2. cr(s) \in [mem : {s.mem}, origin : {s.origin}, scr_end : {s.scr_end},
                 pos : {s.origin + Line(s.y) + 0}, x : {0}, y : {s.y},
                 top : {s.top}, bottom : {s.bottom}]
  BY <1>1 DEF cr, Sound, Consoles
<1> QED
  BY <1>2, SoundFields, CursorMoves

LEMMA BackIs ==
    ASSUME NEW s, Sound(s)
    PROVE  IF s.x = 0 THEN back(s) = s
           ELSE After(s, back(s), Grid(s), s.x - 1, s.y) /\ s.x - 1 \in Columns
<1>1. CASE s.x = 0
  BY <1>1 DEF back
<1>2. CASE s.x # 0
  <2>1. s.pos - 1 = s.origin + Line(s.y) + (s.x - 1) /\ s.x - 1 \in Columns
    BY <1>2, SoundFields DEF Columns
  <2>2. back(s) \in [mem : {s.mem}, origin : {s.origin}, scr_end : {s.scr_end},
                     pos : {s.origin + Line(s.y) + (s.x - 1)}, x : {s.x - 1}, y : {s.y},
                     top : {s.top}, bottom : {s.bottom}]
    BY <1>2, <2>1 DEF back, Sound, Consoles
  <2>3. s.x - 1 \in 0..COLUMNS
    BY <2>1 DEF Columns
  <2>4. After(s, back(s), Grid(s), s.x - 1, s.y)
    BY <2>2, <2>3, SoundFields, CursorMoves
  <2> QED
    BY <1>2, <2>1, <2>4
<1> QED
  BY <1>1, <1>2

LEMMA GotoIs ==
    ASSUME NEW s, Sound(s), NEW nx \in 0..COLUMNS, NEW ny \in Rows
    PROVE  After(s, goto(s, nx, ny), Grid(s), nx, ny)
<1>1. s.origin + ny * COLUMNS + nx = s.origin + Line(ny) + nx
  BY DEF Line
<1>2. goto(s, nx, ny) \in
         [mem : {s.mem}, origin : {s.origin}, scr_end : {s.scr_end},
          pos : {s.origin + Line(ny) + nx}, x : {nx}, y : {ny},
          top : {s.top}, bottom : {s.bottom}]
  BY <1>1 DEF goto, Sound, Consoles
<1> QED
  BY <1>2, CursorMoves

(* A place far away is on the screen, or the cursor stays. *)
LEMMA GotoxyIs ==
    ASSUME NEW s, Sound(s), NEW nx \in Int, NEW ny \in Int
    PROVE  \/ gotoxy(s, nx, ny) = s
           \/ \E cx \in Columns, cy \in Rows : After(s, gotoxy(s, nx, ny), Grid(s), cx, cy)
<1>1. CASE nx % Word >= COLUMNS \/ ny % Word >= LINES
  BY <1>1 DEF gotoxy
<1>2. CASE ~(nx % Word >= COLUMNS \/ ny % Word >= LINES)
  <2>1. nx % Word \in Nat /\ ny % Word \in Nat
    BY ModType
  <2>2. nx % Word \in Columns /\ ny % Word \in Rows /\ nx % Word \in 0..COLUMNS
    BY <1>2, <2>1 DEF Columns, Rows
  <2>3. gotoxy(s, nx, ny) = goto(s, nx % Word, ny % Word)
    BY <1>2 DEF gotoxy
  <2> QED
    BY <2>2, <2>3, GotoIs
<1> QED
  BY <1>1, <1>2

-----------------------------------------------------------------------------
(* Characters *)

LEMMA Changes ==
    ASSUME NEW s, Sound(s), NEW m \in [Words -> Glyphs], NEW g \in Grids,
           \A r \in Rows, k \in Columns : m[s.origin + Line(r) + k] = g[r][k],
           NEW nx \in 0..COLUMNS, NEW ny \in Rows, NEW t,
           t \in [mem : {m}, origin : {s.origin}, scr_end : {s.scr_end},
                  pos : {s.origin + Line(ny) + nx}, x : {nx}, y : {ny},
                  top : {s.top}, bottom : {s.bottom}]
    PROVE  After(s, t, g, nx, ny)
<1>1. t = [mem |-> t.mem, origin |-> t.origin, scr_end |-> t.scr_end, pos |-> t.pos,
           x |-> t.x, y |-> t.y, top |-> t.top, bottom |-> t.bottom]
  OBVIOUS
<1>2. /\ t.mem = m /\ t.origin = s.origin /\ t.scr_end = s.scr_end
      /\ t.pos = s.origin + Line(ny) + nx /\ t.x = nx /\ t.y = ny
      /\ t.top = s.top /\ t.bottom = s.bottom
  OBVIOUS
<1>3. Sound(t)
  BY <1>1, <1>2, SoundFields, IsSound
<1>4. Grid(t) = g
  BY <1>2, GridIs
<1> QED
  BY <1>2, <1>3, <1>4 DEF After

(* A word that is written is one cell of the screen. *)
OneCell(g, y, x, c) == [g EXCEPT ![y][x] = c]
Written(s, start, c) == [s.mem EXCEPT ![start] = c]

LEMMA OneCellIs ==
    ASSUME NEW s, Sound(s), NEW y \in Rows, NEW x \in Columns, NEW c \in Glyphs,
           NEW start, start = s.origin + Line(y) + x
    PROVE  /\ Written(s, start, c) \in [Words -> Glyphs] /\ OneCell(Grid(s), y, x, c) \in Grids
           /\ \A r \in Rows, k \in Columns :
                 Written(s, start, c)[s.origin + Line(r) + k] = OneCell(Grid(s), y, x, c)[r][k]
<1> DEFINE m == Written(s, start, c)
<1>1. m \in [Words -> Glyphs]
  BY SoundFields DEF Written
<1>2. OneCell(Grid(s), y, x, c) \in Grids
  BY GridType DEF OneCell, Grids
<1>3. ASSUME NEW r \in Rows, NEW k \in Columns
      PROVE  m[s.origin + Line(r) + k] = OneCell(Grid(s), y, x, c)[r][k]
  <2>0. k \in 0..COLUMNS /\ x \in 0..COLUMNS /\ k < COLUMNS /\ x < COLUMNS
    BY DEF Columns
  <2>1. /\ s.origin + Line(r) + k \in Words
        /\ (r # y \/ k # x) => s.origin + Line(r) + k # s.origin + Line(y) + x
    <3>1. s.origin + Line(r) + k \in Words /\ s.origin + Line(y) + x \in Words
      BY <2>0, Addresses
    <3>2. r < y => s.origin + Line(r) + k < s.origin + Line(y) + x
      BY <2>0, Addresses
    <3>3. y < r => s.origin + Line(y) + x < s.origin + Line(r) + k
      BY <2>0, Addresses
    <3>4. r = y /\ k # x => s.origin + Line(r) + k # s.origin + Line(y) + x
      BY <2>0, LineType, SoundFields
    <3> QED
      BY <3>1, <3>2, <3>3, <3>4 DEF Rows, Words
  <2>2. Grid(s)[r][k] = s.mem[s.origin + Line(r) + k]
    BY CellIs
  <2>3. Grid(s) \in [Rows -> [Columns -> Glyphs]] /\ s.mem \in [Words -> Glyphs]
    BY GridType, SoundFields DEF Grids
  <2>4. OneCell(Grid(s), y, x, c)[r][k] = IF r = y /\ k = x THEN c ELSE Grid(s)[r][k]
    BY <2>3 DEF OneCell
  <2>5. m[s.origin + Line(r) + k] =
           IF s.origin + Line(r) + k = s.origin + Line(y) + x THEN c
           ELSE s.mem[s.origin + Line(r) + k]
    BY <2>1, <2>3 DEF Written
  <2> QED
    BY <2>1, <2>2, <2>4, <2>5
<1> QED
  BY <1>1, <1>2, <1>3

LEMMA WrapIs ==
    ASSUME NEW s, Sound(s), NEW n \in 0..COLUMNS, NEW w, NEW u, wrap(w) = lf(u),
           u \in [mem : {s.mem}, origin : {s.origin}, scr_end : {s.scr_end},
                  pos : {s.origin + Line(s.y) + n}, x : {n}, y : {s.y},
                  top : {s.top}, bottom : {s.bottom}]
    PROVE  After(s, wrap(w), FedOn(s), n, Fed(s)) /\ Fed(s) \in Rows
<1>1. After(s, u, Grid(s), n, s.y)
  BY SoundFields, CursorMoves
<1>3. /\ Sound(u) /\ Grid(u) = Grid(s) /\ u.x = n /\ u.y = s.y
      /\ u.top = s.top /\ u.bottom = s.bottom
  BY <1>1 DEF After
<1>4. Fed(u) = Fed(s) /\ FedOn(u) = FedOn(s)
  BY <1>3 DEF Fed, FedOn
<1>5. After(u, lf(u), FedOn(s), n, Fed(s)) /\ Fed(s) \in Rows
  BY <1>3, <1>4, LfIs
<1> QED
  BY <1>3, <1>5 DEF After

LEMMA WriteIs ==
    ASSUME NEW s, Sound(s), s.x < COLUMNS, NEW c \in Glyphs, NEW t,
           t = [s EXCEPT !.mem[s.pos] = c, !.pos = @ + 1, !.x = @ + 1]
    PROVE  After(s, t, OneCell(Grid(s), s.y, s.x, c), s.x + 1, s.y)
<1> DEFINE m == Written(s, s.pos, c)
<1>1. s.x \in Columns /\ s.x + 1 \in 0..COLUMNS
      /\ s.pos = s.origin + Line(s.y) + s.x
      /\ s.pos + 1 = s.origin + Line(s.y) + (s.x + 1)
  BY SoundFields DEF Columns
<1>2. [s.mem EXCEPT ![s.pos] = c] = m
  BY DEF Written
<1>3. t = [s EXCEPT !.mem = [s.mem EXCEPT ![s.pos] = c], !.pos = s.pos + 1, !.x = s.x + 1]
  OBVIOUS
<1>4. /\ m \in [Words -> Glyphs] /\ OneCell(Grid(s), s.y, s.x, c) \in Grids
      /\ \A r \in Rows, k \in Columns :
            m[s.origin + Line(r) + k] = OneCell(Grid(s), s.y, s.x, c)[r][k]
  <2>0. s.y \in Rows
    BY SoundFields
  <2> QED
    BY <1>1, <2>0, OneCellIs
<1> HIDE DEF m
<1>5. t \in [mem : {m}, origin : {s.origin}, scr_end : {s.scr_end},
             pos : {s.origin + Line(s.y) + (s.x + 1)}, x : {s.x + 1}, y : {s.y},
             top : {s.top}, bottom : {s.bottom}]
  <2>1. t = [s EXCEPT !.mem = m, !.pos = s.origin + Line(s.y) + (s.x + 1), !.x = s.x + 1]
    BY <1>1, <1>2, <1>3
  <2> QED
    BY <2>1 DEF Sound, Consoles
<1>6. After(s, t, OneCell(Grid(s), s.y, s.x, c), s.x + 1, s.y)
  BY <1>1, <1>4, <1>5, SoundFields, Changes
<1> QED
  BY <1>6

LEMMA PutIs ==
    ASSUME NEW s, Sound(s), NEW c \in Glyphs
    PROVE  IF s.x = COLUMNS
           THEN After(s, put(s, c), OneCell(FedOn(s), Fed(s), 0, c), 1, Fed(s))
           ELSE After(s, put(s, c), OneCell(Grid(s), s.y, s.x, c), s.x + 1, s.y)
<1>1. CASE s.x = COLUMNS
  <2> DEFINE t == wrap(s)
             u == [s EXCEPT !.x = @ - COLUMNS, !.pos = @ - COLUMNS]
  <2>1. s.x - COLUMNS = 0 /\ s.pos - COLUMNS = s.origin + Line(s.y) + 0
    BY <1>1, SoundFields
  <2>2. u \in [mem : {s.mem}, origin : {s.origin}, scr_end : {s.scr_end},
               pos : {s.origin + Line(s.y) + 0}, x : {0}, y : {s.y},
               top : {s.top}, bottom : {s.bottom}]
    BY <2>1 DEF Sound, Consoles
  <2>3. After(s, t, FedOn(s), 0, Fed(s))
    <3>1. wrap(s) = lf(u)
      BY DEF wrap
    <3> HIDE DEF u
    <3> QED
      BY <2>2, <3>1, WrapIs
  <2>4. put(s, c) = [t EXCEPT !.mem[t.pos] = c, !.pos = @ + 1, !.x = @ + 1]
    <3>1. s.x >= COLUMNS
      BY <1>1
    <3> QED
      BY <3>1, Zenon DEF put
  <2> HIDE DEF t
  <2>5. After(t, put(s, c), OneCell(Grid(t), t.y, t.x, c), t.x + 1, t.y)
    <3>1. Sound(t) /\ t.x < COLUMNS
      BY <2>3 DEF After
    <3> QED
      BY <2>4, <3>1, WriteIs, Zenon
  <2> QED
    BY <1>1, <2>3, <2>5 DEF After
<1>2. CASE s.x # COLUMNS
  <2>1. s.x < COLUMNS
    BY <1>2, SoundFields
  <2>2. put(s, c) = [s EXCEPT !.mem[s.pos] = c, !.pos = @ + 1, !.x = @ + 1]
    <3>1. ~(s.x >= COLUMNS)
      BY <2>1, SoundFields
    <3> QED
      BY <3>1, Zenon DEF put
  <2> QED
    <3>1. After(s, put(s, c), OneCell(Grid(s), s.y, s.x, c), s.x + 1, s.y)
      BY <2>1, <2>2, WriteIs, Zenon
    <3> QED
      BY <1>2, <3>1
<1> QED
  BY <1>1, <1>2

LEMMA DelIs ==
    ASSUME NEW s, Sound(s)
    PROVE  IF s.x = 0 THEN del(s) = s
           ELSE After(s, del(s), OneCell(Grid(s), s.y, s.x - 1, Blank), s.x - 1, s.y)
<1>1. CASE s.x = 0
  BY <1>1 DEF del
<1>2. CASE s.x # 0
  <2> DEFINE m == Written(s, s.pos - 1, Blank)
  <2>1. s.pos - 1 = s.origin + Line(s.y) + (s.x - 1)
        /\ s.x - 1 \in Columns /\ s.x - 1 \in 0..COLUMNS
    BY <1>2, SoundFields DEF Columns
  <2>2. /\ m \in [Words -> Glyphs] /\ OneCell(Grid(s), s.y, s.x - 1, Blank) \in Grids
        /\ \A r \in Rows, k \in Columns :
              m[s.origin + Line(r) + k] = OneCell(Grid(s), s.y, s.x - 1, Blank)[r][k]
    <3>0. s.y \in Rows /\ Blank \in Glyphs
      BY SoundFields
    <3> QED
      BY <2>1, <3>0, OneCellIs
  <2>3. back(s) = [s EXCEPT !.pos = s.pos - 1, !.x = s.x - 1] /\ back(s).mem = s.mem
    BY <1>2 DEF back, Sound, Consoles
  <2>4. del(s) = [back(s) EXCEPT !.mem = [s.mem EXCEPT ![s.pos - 1] = Blank]]
    BY <1>2, <2>3 DEF del
  <2>5. [s.mem EXCEPT ![s.pos - 1] = Blank] = m
    BY DEF Written
  <2> HIDE DEF m
  <2>6. del(s) \in [mem : {m}, origin : {s.origin}, scr_end : {s.scr_end},
                    pos : {s.origin + Line(s.y) + (s.x - 1)}, x : {s.x - 1}, y : {s.y},
                    top : {s.top}, bottom : {s.bottom}]
    BY <2>1, <2>3, <2>4, <2>5 DEF Sound, Consoles
  <2>7. After(s, del(s), OneCell(Grid(s), s.y, s.x - 1, Blank), s.x - 1, s.y)
    BY <2>1, <2>2, <2>6, SoundFields, Changes
  <2> QED
    BY <1>2, <2>7
<1> QED
  BY <1>1, <1>2

-----------------------------------------------------------------------------
(* Tab stops *)

LEMMA DivMod ==
    ASSUME NEW n \in Int, NEW q \in Int, NEW r \in Int, q = n \div TAB, r = n % TAB
    PROVE  n = TAB * q + r
OBVIOUS

LEMMA StopsAhead ==
    ASSUME NEW x \in 0..COLUMNS - 1
    PROVE  /\ x + (TAB - (x % TAB)) \in {i * TAB : i \in 1..COLUMNS}
           /\ x < x + (TAB - (x % TAB)) /\ x + (TAB - (x % TAB)) <= x + TAB
           /\ x + (TAB - (x % TAB)) <= COLUMNS
<1>0. PICK q \in Int, r \in Int, c \in Int, z \in Int :
         q = x \div TAB /\ r = x % TAB /\ c = COLUMNS \div TAB /\ z = COLUMNS % TAB
  <2>1. x \div TAB \in Int /\ x % TAB \in Int /\ COLUMNS \div TAB \in Int
    OBVIOUS
  <2>2. COLUMNS % TAB \in Int
    OBVIOUS
  <2> QED
    BY <2>1, <2>2
<1>1. x = TAB * q + r /\ COLUMNS = TAB * c /\ r \in 0..TAB - 1
  <2>1. x = TAB * q + r
    BY <1>0, DivMod
  <2>2. COLUMNS = TAB * c + z /\ z = 0
    BY <1>0, DivMod
  <2>3. x % TAB \in 0..TAB - 1
    OBVIOUS
  <2> QED
    BY <1>0, <2>1, <2>2, <2>3
<1>2. x + (TAB - r) = (q + 1) * TAB
  BY <1>1
<1>3. TAB * q < TAB * c /\ TAB * q >= 0 - (TAB - 1)
  BY <1>1
<1>4. q < c
  <2>1. SUFFICES ASSUME q >= c PROVE FALSE
    BY <1>1
  <2>2. TAB * (q - c) >= 0 /\ TAB * (q - c) = TAB * q - TAB * c
    BY <1>1, <2>1
  <2> QED
    BY <1>1, <1>3, <2>2
<1>5. q >= 0
  <2>1. SUFFICES ASSUME q <= -1 PROVE FALSE
    BY <1>1
  <2>2. TAB * (-1 - q) >= 0 /\ TAB * (-1 - q) = 0 - TAB - TAB * q
    BY <1>1, <2>1
  <2> QED
    BY <1>1, <1>3, <2>2
<1>6. (q + 1) * TAB <= COLUMNS
  <2>1. TAB * (c - q - 1) >= 0 /\ TAB * (c - q - 1) = TAB * c - (q + 1) * TAB
    BY <1>1, <1>4
  <2> QED
    BY <1>1, <2>1
<1>7. q + 1 \in 1..COLUMNS
  <2>1. (TAB - 1) * c >= 0 /\ (TAB - 1) * c = TAB * c - c
    BY <1>1, <1>4, <1>5
  <2> QED
    BY <1>1, <1>4, <1>5, <2>1
<1>8. /\ x + (TAB - r) \in {i * TAB : i \in 1..COLUMNS}
      /\ x < x + (TAB - r) /\ x + (TAB - r) <= x + TAB /\ x + (TAB - r) <= COLUMNS
  BY <1>1, <1>2, <1>6, <1>7
<1> QED
  BY <1>0, <1>8

LEMMA TabFits == TAB <= COLUMNS
<1>1. 0 \in 0..COLUMNS - 1 /\ 0 % TAB = 0
  OBVIOUS
<1> QED
  BY <1>1, StopsAhead

LEMMA TabIs ==
    ASSUME NEW s, Sound(s)
    PROVE  IF s.x < COLUMNS
           THEN \E x \in {i * TAB : i \in 1..COLUMNS} :
                   /\ s.x < x /\ x <= s.x + TAB /\ x <= COLUMNS
                   /\ After(s, tab(s), Grid(s), x, s.y)
           ELSE After(s, tab(s), FedOn(s), TAB, Fed(s))
<1> DEFINE n == TAB - (s.x % TAB)
           t == [s EXCEPT !.x = s.x + n, !.pos = s.pos + n]
<1>1. tab(s) = IF t.x > COLUMNS THEN wrap(t) ELSE t
  BY DEF tab
<1>2. t.x = s.x + n
  BY DEF Sound, Consoles
<1>3. s.x \in 0..COLUMNS /\ s.x % TAB \in 0..TAB - 1 /\ n \in 1..TAB
  BY SoundFields
<1>4. CASE s.x < COLUMNS
  <2>1. /\ s.x + n \in {i * TAB : i \in 1..COLUMNS}
        /\ s.x < s.x + n /\ s.x + n <= s.x + TAB /\ s.x + n <= COLUMNS
    <3>1. s.x \in 0..COLUMNS - 1
      BY <1>3, <1>4
    <3> QED
      BY <3>1, StopsAhead
  <2>2. tab(s) = t
    BY <1>1, <1>2, <1>3, <2>1
  <2>3. s.pos + n = s.origin + Line(s.y) + (s.x + n) /\ s.x + n \in 0..COLUMNS
    BY <1>3, <2>1, SoundFields
  <2> HIDE DEF n
  <2>4. t \in [mem : {s.mem}, origin : {s.origin}, scr_end : {s.scr_end},
               pos : {s.origin + Line(s.y) + (s.x + n)}, x : {s.x + n}, y : {s.y},
               top : {s.top}, bottom : {s.bottom}]
    BY <2>3 DEF Sound, Consoles
  <2> HIDE DEF t
  <2>5. After(s, t, Grid(s), s.x + n, s.y)
    BY <2>3, <2>4, SoundFields, CursorMoves
  <2> QED
    BY <1>4, <2>1, <2>2, <2>5
<1>5. CASE ~(s.x < COLUMNS)
  <2>1. s.x = COLUMNS /\ n = TAB /\ s.x + n > COLUMNS
    BY <1>3, <1>5, TabFits
  <2>2. tab(s) = wrap(t)
    BY <1>1, <1>2, <2>1
  <2> DEFINE u == [t EXCEPT !.x = @ - COLUMNS, !.pos = @ - COLUMNS]
  <2>3. wrap(t) = lf(u)
    BY DEF wrap
  <2>4. s.x + n - COLUMNS = TAB /\ s.pos + n - COLUMNS = s.origin + Line(s.y) + TAB
        /\ TAB \in 0..COLUMNS
    BY <2>1, TabFits, SoundFields
  <2> HIDE DEF n
  <2>5. t \in [mem : {s.mem}, origin : {s.origin}, scr_end : {s.scr_end},
               pos : {s.pos + n}, x : {s.x + n}, y : {s.y},
               top : {s.top}, bottom : {s.bottom}]
    BY DEF Sound, Consoles
  <2> HIDE DEF t
  <2>6. u \in [mem : {s.mem}, origin : {s.origin}, scr_end : {s.scr_end},
               pos : {s.origin + Line(s.y) + TAB}, x : {TAB}, y : {s.y},
               top : {s.top}, bottom : {s.bottom}]
    <3>1. t.x - COLUMNS = TAB /\ t.pos - COLUMNS = s.origin + Line(s.y) + TAB
      <4>1. t.x = s.x + n /\ t.pos = s.pos + n
        BY <2>5
      <4> QED
        BY <1>3, <2>4, <4>1, SoundFields
    <3>2. u = [t EXCEPT !.x = TAB, !.pos = s.origin + Line(s.y) + TAB]
      BY <3>1
    <3> QED
      BY <2>5, <3>2
  <2> HIDE DEF u
  <2>7. After(s, wrap(t), FedOn(s), TAB, Fed(s))
    BY <2>3, <2>4, <2>6, WrapIs
  <2> QED
    BY <1>5, <2>2, <2>7
<1> QED
  BY <1>4, <1>5

-----------------------------------------------------------------------------
(* Erasing *)

Erased(g, cells) ==
    [r \in Rows |-> [k \in Columns |-> IF <<r, k>> \in cells THEN Blank ELSE g[r][k]]]
Earlier(s) == {c \in Rows \X Columns : c[1] < s.y \/ (c[1] = s.y /\ c[2] < s.x)}

Filled(s, start, n) == [s EXCEPT !.mem = Fill(@, start, n)]

LEMMA FillErases ==
    ASSUME NEW s, Sound(s), NEW start, NEW n, NEW cells,
           \A r \in Rows, k \in Columns :
              s.origin + Line(r) + k \in start..start + n - 1 <=> <<r, k>> \in cells
    PROVE  After(s, Filled(s, start, n), Erased(Grid(s), cells), s.x, s.y)
<1> DEFINE m == Fill(s.mem, start, n)
           g == Erased(Grid(s), cells)
<1>1. m \in [Words -> Glyphs]
  BY SoundFields, FillType
<1>2. g \in Grids
  BY GridType DEF Erased, Grids
<1>3. ASSUME NEW r \in Rows, NEW k \in Columns
      PROVE  m[s.origin + Line(r) + k] = g[r][k]
  <2>1. s.origin + Line(r) + k \in Words
    BY Addresses DEF Columns
  <2>2. m[s.origin + Line(r) + k] =
           IF s.origin + Line(r) + k \in start..start + n - 1 THEN Blank
           ELSE s.mem[s.origin + Line(r) + k]
    BY <2>1, FillIs
  <2>3. g[r][k] = IF <<r, k>> \in cells THEN Blank ELSE Grid(s)[r][k]
    BY DEF Erased
  <2> QED
    BY <2>2, <2>3, CellIs
<1>4. Filled(s, start, n) = [s EXCEPT !.mem = m]
  BY DEF Filled
<1> HIDE DEF m, g
<1>5. After(s, [s EXCEPT !.mem = m], g, s.x, s.y)
  BY <1>1, <1>2, <1>3, MemoryChanges
<1> QED
  BY <1>4, <1>5 DEF g

(* The sets of cells that a sequence erases. *)
Cells(s, c) ==
    IF c = "J" THEN {(Rows \X Columns) \ Earlier(s), Earlier(s), Rows \X Columns}
    ELSE {({s.y} \X Columns) \ Earlier(s), ({s.y} \X Columns) \cap Earlier(s),
          {s.y} \X Columns}

LEMMA EraseIs ==
    ASSUME NEW s, Sound(s), NEW c \in {"J", "K"}, NEW p \in Nat
    PROVE  \/ erase(s, c, p) = s
           \/ \E cells \in Cells(s, c) :
                 After(s, erase(s, c, p), Erased(Grid(s), cells), s.x, s.y)
<1>1. /\ s.origin \in Nat /\ s.scr_end = s.origin + Line(LINES) /\ s.x \in 0..COLUMNS
      /\ s.y \in Rows /\ s.pos = s.origin + Line(s.y) + s.x
  BY SoundFields
<1>2. ASSUME NEW r \in Rows, NEW k \in Columns
      PROVE  /\ Line(r) \in Nat /\ k \in Nat /\ k < COLUMNS /\ Line(LINES) \in Nat
             /\ Line(s.y) \in Nat /\ Line(r) + COLUMNS <= Line(LINES)
             /\ Line(s.y) + COLUMNS <= Line(LINES)
             /\ r < s.y => Line(r) + COLUMNS <= Line(s.y)
             /\ s.y < r => Line(s.y) + COLUMNS <= Line(r)
             /\ r < s.y \/ r = s.y \/ s.y < r
             /\ <<r, k>> \in Earlier(s) <=> r < s.y \/ (r = s.y /\ k < s.x)
  <2>1. Line(r) \in Nat /\ Line(LINES) \in Nat /\ Line(s.y) \in Nat
        /\ Line(r) + COLUMNS <= Line(LINES) /\ Line(s.y) + COLUMNS <= Line(LINES)
    BY <1>1, LineType
  <2>2. k \in Nat /\ k < COLUMNS /\ (r < s.y \/ r = s.y \/ s.y < r)
    BY <1>1 DEF Rows, Columns
  <2>3. /\ r < s.y => Line(r) + COLUMNS <= Line(s.y)
        /\ s.y < r => Line(s.y) + COLUMNS <= Line(r)
    BY <1>1, LayoutHolds DEF Layout, Rows
  <2>4. <<r, k>> \in Earlier(s) <=> r < s.y \/ (r = s.y /\ k < s.x)
    BY DEF Earlier
  <2> QED
    BY <2>1, <2>2, <2>3, <2>4
<1>3. CASE p > 2
  BY <1>3 DEF erase
<1>4. CASE p = 0 /\ c = "J"
  <2>1. erase(s, c, p) = Filled(s, s.pos, s.scr_end - s.pos)
    BY <1>4 DEF erase, Spans, Filled
  <2>2. ASSUME NEW r \in Rows, NEW k \in Columns
        PROVE  s.origin + Line(r) + k \in s.pos..s.pos + (s.scr_end - s.pos) - 1
               <=> <<r, k>> \in (Rows \X Columns) \ Earlier(s)
    BY <1>1, <1>2
  <2>3. After(s, erase(s, c, p), Erased(Grid(s), (Rows \X Columns) \ Earlier(s)), s.x, s.y)
    BY <2>1, <2>2, FillErases
  <2> QED
    BY <1>4, <2>3 DEF Cells
<1>5. CASE p = 1 /\ c = "J"
  <2>1. erase(s, c, p) = Filled(s, s.origin, s.pos - s.origin)
    BY <1>5 DEF erase, Spans, Filled
  <2>2. ASSUME NEW r \in Rows, NEW k \in Columns
        PROVE  s.origin + Line(r) + k \in s.origin..s.origin + (s.pos - s.origin) - 1
               <=> <<r, k>> \in Earlier(s)
    BY <1>1, <1>2
  <2>3. After(s, erase(s, c, p), Erased(Grid(s), Earlier(s)), s.x, s.y)
    BY <2>1, <2>2, FillErases
  <2> QED
    BY <1>5, <2>3 DEF Cells
<1>6. CASE p = 2 /\ c = "J"
  <2>1. erase(s, c, p) = Filled(s, s.origin, COLUMNS * LINES)
    BY <1>6 DEF erase, Spans, Filled
  <2>2. ASSUME NEW r \in Rows, NEW k \in Columns
        PROVE  s.origin + Line(r) + k \in s.origin..s.origin + COLUMNS * LINES - 1
               <=> <<r, k>> \in Rows \X Columns
    <3>1. COLUMNS * LINES = Line(LINES)
      BY LineNext
    <3> QED
      BY <1>1, <1>2, <3>1
  <2>3. After(s, erase(s, c, p), Erased(Grid(s), Rows \X Columns), s.x, s.y)
    BY <2>1, <2>2, FillErases
  <2> QED
    BY <1>6, <2>3 DEF Cells
<1>7. CASE p = 0 /\ c = "K"
  <2>1. erase(s, c, p) = Filled(s, s.pos, COLUMNS - s.x)
    BY <1>7 DEF erase, Spans, Filled
  <2>2. ASSUME NEW r \in Rows, NEW k \in Columns
        PROVE  s.origin + Line(r) + k \in s.pos..s.pos + (COLUMNS - s.x) - 1
               <=> <<r, k>> \in ({s.y} \X Columns) \ Earlier(s)
    BY <1>1, <1>2
  <2>3. After(s, erase(s, c, p), Erased(Grid(s), ({s.y} \X Columns) \ Earlier(s)), s.x, s.y)
    BY <2>1, <2>2, FillErases
  <2> QED
    BY <1>7, <2>3 DEF Cells
<1>8. CASE p = 1 /\ c = "K"
  <2>1. erase(s, c, p) = Filled(s, s.pos - s.x, s.x)
    BY <1>8 DEF erase, Spans, Filled
  <2>2. ASSUME NEW r \in Rows, NEW k \in Columns
        PROVE  s.origin + Line(r) + k \in s.pos - s.x..s.pos - s.x + s.x - 1
               <=> <<r, k>> \in ({s.y} \X Columns) \cap Earlier(s)
    BY <1>1, <1>2
  <2>3. After(s, erase(s, c, p), Erased(Grid(s), ({s.y} \X Columns) \cap Earlier(s)), s.x, s.y)
    BY <2>1, <2>2, FillErases
  <2> QED
    BY <1>8, <2>3 DEF Cells
<1>9. CASE p = 2 /\ c = "K"
  <2>1. erase(s, c, p) = Filled(s, s.pos - s.x, COLUMNS)
    BY <1>9 DEF erase, Spans, Filled
  <2>2. ASSUME NEW r \in Rows, NEW k \in Columns
        PROVE  s.origin + Line(r) + k \in s.pos - s.x..s.pos - s.x + COLUMNS - 1
               <=> <<r, k>> \in {s.y} \X Columns
    BY <1>1, <1>2
  <2>3. After(s, erase(s, c, p), Erased(Grid(s), {s.y} \X Columns), s.x, s.y)
    BY <2>1, <2>2, FillErases
  <2> QED
    BY <1>9, <2>3 DEF Cells
<1> QED
  BY <1>3, <1>4, <1>5, <1>6, <1>7, <1>8, <1>9

-----------------------------------------------------------------------------
(* Cells and rows that are inserted or deleted *)

InRow(g, y, row) == [g EXCEPT ![y] = row]
Inserted(row, x) == [k \in Columns |-> IF k < x THEN row[k]
                                       ELSE IF k = x THEN Blank ELSE row[k - 1]]
Deleted(row, x) == [k \in Columns |-> IF k < x THEN row[k]
                                      ELSE IF k = COLUMNS - 1 THEN Blank ELSE row[k + 1]]

(* A memory that differs only in the words of the cursor's row. *)
LEMMA RowChanges ==
    ASSUME NEW s, Sound(s), NEW m \in [Words -> Glyphs], NEW row \in [Columns -> Glyphs],
           \A k \in Columns : m[s.origin + Line(s.y) + k] = row[k],
           \A i \in Words : i \notin s.origin + Line(s.y)..s.origin + Line(s.y) + COLUMNS - 1
                               => m[i] = s.mem[i]
    PROVE  After(s, [s EXCEPT !.mem = m], InRow(Grid(s), s.y, row), s.x, s.y)
<1> DEFINE g == InRow(Grid(s), s.y, row)
<1>1. Grid(s) \in [Rows -> [Columns -> Glyphs]] /\ s.y \in Rows
  BY GridType, SoundFields DEF Grids
<1>2. g \in Grids
  BY <1>1 DEF InRow, Grids
<1>3. ASSUME NEW r \in Rows, NEW k \in Columns
      PROVE  m[s.origin + Line(r) + k] = g[r][k]
  <2>1. CASE r = s.y
    <3>1. g[r] = row
      BY <1>1, <2>1 DEF InRow
    <3> QED
      BY <2>1, <3>1
  <2>2. CASE r # s.y
    <3>1. g[r] = Grid(s)[r]
      BY <1>1, <2>2 DEF InRow
    <3>2. Line(r) + COLUMNS <= Line(s.y) \/ Line(s.y) + COLUMNS <= Line(r)
      <4>1. r < s.y \/ s.y < r
        BY <1>1, <2>2 DEF Rows
      <4> QED
        BY <1>1, <4>1, LinesApart
    <3>3. s.origin + Line(r) + k \in Words
      BY Addresses DEF Columns
    <3>4. s.origin + Line(r) + k
             \notin s.origin + Line(s.y)..s.origin + Line(s.y) + COLUMNS - 1
      <4>1. Line(r) \in Nat /\ Line(s.y) \in Nat /\ s.origin \in Nat
        BY <1>1, LineType, SoundFields
      <4>2. k \in Nat /\ k < COLUMNS
        BY DEF Columns
      <4> QED
        BY <3>2, <4>1, <4>2
    <3> QED
      BY <3>1, <3>3, <3>4, CellIs
  <2> QED
    BY <2>1, <2>2
<1> HIDE DEF g
<1>4. After(s, [s EXCEPT !.mem = m], g, s.x, s.y)
  BY <1>2, <1>3, MemoryChanges
<1> QED
  BY <1>4 DEF g

LEMMA InsertCharIs ==
    ASSUME NEW s, Sound(s)
    PROVE  \/ insert_char(s) = s
           \/ After(s, insert_char(s), InRow(Grid(s), s.y, Inserted(Grid(s)[s.y], s.x)),
                    s.x, s.y)
<1>1. CASE s.x >= COLUMNS
  BY <1>1 DEF insert_char
<1>2. CASE ~(s.x >= COLUMNS)
  <2> DEFINE c == Copy(s.mem, s.pos + 1, s.pos, COLUMNS - s.x - 1)
             m == Fill(c, s.pos, 1)
             row == Inserted(Grid(s)[s.y], s.x)
  <2>1. /\ s.mem \in [Words -> Glyphs] /\ s.origin \in Nat /\ s.x \in Columns /\ s.x < COLUMNS
        /\ s.y \in Rows /\ s.pos = s.origin + Line(s.y) + s.x /\ Line(s.y) \in Nat
        /\ s.origin + Line(s.y) + COLUMNS <= SCREEN_END
    <3>1. s.y \in Rows /\ s.scr_end <= SCREEN_END
      BY SoundFields
    <3>2. Line(s.y) + COLUMNS <= Line(LINES) /\ Line(LINES) \in Nat
      BY <3>1, LineType
    <3> QED
      BY <1>2, <3>1, <3>2, SoundFields DEF Columns
  <2>2. c \in [Words -> Glyphs]
    <3>1. /\ s.pos \in Nat /\ s.pos + 1 \in Nat /\ COLUMNS - s.x - 1 \in Nat
          /\ s.pos + (COLUMNS - s.x - 1) <= SCREEN_END
      BY <2>1 DEF Columns
    <3> QED
      BY <2>1, <3>1, CopyType
  <2>3. m \in [Words -> Glyphs]
    BY <2>2, FillType
  <2>4. \A i \in Words : m[i] = IF i \in s.pos..s.pos + 1 - 1 THEN Blank ELSE c[i]
    BY FillIs
  <2>5. \A i \in Words : c[i] = IF i \in s.pos + 1..s.pos + 1 + (COLUMNS - s.x - 1) - 1
                                THEN s.mem[i - (s.pos + 1) + s.pos] ELSE s.mem[i]
    BY CopyIs
  <2>6. Grid(s)[s.y] \in [Columns -> Glyphs]
    BY <2>1, GridType DEF Grids
  <2>7. row \in [Columns -> Glyphs]
    BY <2>1, <2>6 DEF Inserted, Columns
  <2> HIDE DEF c, m
  <2>8. ASSUME NEW k \in Columns PROVE m[s.origin + Line(s.y) + k] = row[k]
    <3> DEFINE i == s.origin + Line(s.y) + k
    <3>1. i \in Words /\ k \in Nat /\ k < COLUMNS
      BY <2>1, Addresses DEF Columns
    <3>2. row[k] = IF k < s.x THEN Grid(s)[s.y][k]
                   ELSE IF k = s.x THEN Blank ELSE Grid(s)[s.y][k - 1]
      BY DEF Inserted
    <3>3. Grid(s)[s.y][k] = s.mem[i]
      BY <2>1, CellIs
    <3> HIDE DEF i
    <3>4. CASE k < s.x
      <4>1. m[i] = s.mem[i]
        BY <2>1, <2>4, <2>5, <3>1, <3>4 DEF i, Columns
      <4> QED
        BY <3>2, <3>3, <3>4, <4>1 DEF i
    <3>5. CASE k = s.x
      <4>1. m[i] = Blank
        BY <2>1, <2>4, <3>1, <3>5 DEF i, Columns
      <4> QED
        BY <2>1, <3>2, <3>5, <4>1 DEF i, Columns
    <3>6. CASE k > s.x
      <4>1. m[i] = s.mem[i - 1]
        <5>1. /\ i \notin s.pos..s.pos + 1 - 1
              /\ i \in s.pos + 1..s.pos + 1 + (COLUMNS - s.x - 1) - 1
              /\ i - (s.pos + 1) + s.pos = i - 1
          BY <2>1, <3>1, <3>6 DEF i, Columns
        <5> QED
          BY <2>4, <2>5, <3>1, <5>1
      <4>2. k - 1 \in Columns /\ s.origin + Line(s.y) + (k - 1) = i - 1
        BY <2>1, <3>1, <3>6 DEF i, Columns
      <4>3. Grid(s)[s.y][k - 1] = s.mem[i - 1]
        BY <2>1, <4>2, CellIs
      <4>4. ~(k < s.x) /\ k # s.x
        BY <2>1, <3>1, <3>6 DEF Columns
      <4> QED
        BY <3>2, <4>1, <4>3, <4>4 DEF i
    <3> QED
      BY <2>1, <3>1, <3>4, <3>5, <3>6 DEF i, Columns
  <2>9. ASSUME NEW i \in Words,
               i \notin s.origin + Line(s.y)..s.origin + Line(s.y) + COLUMNS - 1
        PROVE  m[i] = s.mem[i]
    <3>1. i \notin s.pos..s.pos + 1 - 1
      BY <2>1, <2>9 DEF Words, Columns
    <3>2. i \notin s.pos + 1..s.pos + 1 + (COLUMNS - s.x - 1) - 1
      <4>1. s.pos + 1 + (COLUMNS - s.x - 1) - 1 = s.origin + Line(s.y) + COLUMNS - 1
        BY <2>1 DEF Columns
      <4>2. s.pos + 1 >= s.origin + Line(s.y) /\ s.pos + 1 \in Nat /\ i \in Nat
        BY <2>1, SMTT(60) DEF Words, Columns
      <4> QED
        BY <2>1, <2>9, <4>1, <4>2
    <3> QED
      BY <2>4, <2>5, <3>1, <3>2
  <2>10. insert_char(s) = [s EXCEPT !.mem = m]
    BY <1>2 DEF insert_char, m, c
  <2> HIDE DEF row
  <2>11. After(s, [s EXCEPT !.mem = m], InRow(Grid(s), s.y, row), s.x, s.y)
    BY <2>3, <2>7, <2>8, <2>9, RowChanges
  <2> QED
    BY <2>10, <2>11 DEF row
<1> QED
  BY <1>1, <1>2

LEMMA DeleteCharIs ==
    ASSUME NEW s, Sound(s)
    PROVE  \/ delete_char(s) = s
           \/ After(s, delete_char(s), InRow(Grid(s), s.y, Deleted(Grid(s)[s.y], s.x)),
                    s.x, s.y)
<1>1. CASE s.x >= COLUMNS
  BY <1>1 DEF delete_char
<1>2. CASE ~(s.x >= COLUMNS)
  <2> DEFINE n == COLUMNS - s.x - 1
             c == Copy(s.mem, s.pos, s.pos + 1, n)
             m == Fill(c, s.pos + n, 1)
             row == Deleted(Grid(s)[s.y], s.x)
  <2>1. /\ s.mem \in [Words -> Glyphs] /\ s.origin \in Nat /\ s.x \in Columns /\ s.x < COLUMNS
        /\ s.y \in Rows /\ s.pos = s.origin + Line(s.y) + s.x /\ Line(s.y) \in Nat
        /\ s.origin + Line(s.y) + COLUMNS <= SCREEN_END
    <3>1. s.y \in Rows /\ s.scr_end <= SCREEN_END
      BY SoundFields
    <3>2. Line(s.y) + COLUMNS <= Line(LINES) /\ Line(LINES) \in Nat
      BY <3>1, LineType
    <3> QED
      BY <1>2, <3>1, <3>2, SoundFields DEF Columns
  <2>2. c \in [Words -> Glyphs]
    <3>1. /\ s.pos \in Nat /\ s.pos + 1 \in Nat /\ n \in Nat
          /\ s.pos + 1 + n <= SCREEN_END
      BY <2>1 DEF Columns
    <3> QED
      BY <2>1, <3>1, CopyType
  <2>3. m \in [Words -> Glyphs]
    BY <2>2, FillType
  <2>4. \A i \in Words : m[i] = IF i \in s.pos + n..s.pos + n + 1 - 1 THEN Blank ELSE c[i]
    BY FillIs
  <2>5. \A i \in Words : c[i] = IF i \in s.pos..s.pos + n - 1
                                THEN s.mem[i - s.pos + (s.pos + 1)] ELSE s.mem[i]
    BY CopyIs
  <2>6. Grid(s)[s.y] \in [Columns -> Glyphs]
    BY <2>1, GridType DEF Grids
  <2>7. row \in [Columns -> Glyphs]
    BY <2>1, <2>6 DEF Deleted, Columns
  <2> HIDE DEF c, m
  <2>8. ASSUME NEW k \in Columns PROVE m[s.origin + Line(s.y) + k] = row[k]
    <3> DEFINE i == s.origin + Line(s.y) + k
    <3>1. i \in Words /\ k \in Nat /\ k < COLUMNS
      BY <2>1, Addresses DEF Columns
    <3>2. row[k] = IF k < s.x THEN Grid(s)[s.y][k]
                   ELSE IF k = COLUMNS - 1 THEN Blank ELSE Grid(s)[s.y][k + 1]
      BY DEF Deleted
    <3>3. Grid(s)[s.y][k] = s.mem[i]
      BY <2>1, CellIs
    <3> HIDE DEF i
    <3>4. CASE k < s.x
      <4>1. m[i] = s.mem[i]
        BY <2>1, <2>4, <2>5, <3>1, <3>4 DEF i, Columns
      <4> QED
        BY <3>2, <3>3, <3>4, <4>1 DEF i
    <3>5. CASE k >= s.x /\ k = COLUMNS - 1
      <4>1. m[i] = Blank
        BY <2>1, <2>4, <3>1, <3>5 DEF i, Columns
      <4> QED
        BY <2>1, <3>2, <3>5, <4>1 DEF i, Columns
    <3>6. CASE k >= s.x /\ k # COLUMNS - 1
      <4>1. m[i] = s.mem[i + 1]
        <5>1. /\ i \notin s.pos + n..s.pos + n + 1 - 1
              /\ i \in s.pos..s.pos + n - 1
              /\ i - s.pos + (s.pos + 1) = i + 1
          BY <2>1, <3>1, <3>6 DEF i, Columns
        <5> QED
          BY <2>4, <2>5, <3>1, <5>1
      <4>2. k + 1 \in Columns /\ s.origin + Line(s.y) + (k + 1) = i + 1
        BY <2>1, <3>1, <3>6 DEF i, Columns
      <4>3. Grid(s)[s.y][k + 1] = s.mem[i + 1]
        BY <2>1, <4>2, CellIs
      <4>4. ~(k < s.x)
        BY <2>1, <3>1, <3>6 DEF Columns
      <4> QED
        BY <3>2, <3>6, <4>1, <4>3, <4>4 DEF i
    <3> QED
      BY <2>1, <3>1, <3>4, <3>5, <3>6 DEF i, Columns
  <2>9. ASSUME NEW i \in Words,
               i \notin s.origin + Line(s.y)..s.origin + Line(s.y) + COLUMNS - 1
        PROVE  m[i] = s.mem[i]
    <3>0. s.pos + n = s.origin + Line(s.y) + COLUMNS - 1
      BY <2>1 DEF Columns
    <3>1. i \notin s.pos + n..s.pos + n + 1 - 1
      <4>1. i \notin s.origin + Line(s.y) + COLUMNS - 1
                        ..s.origin + Line(s.y) + COLUMNS - 1 + 1 - 1
        BY <2>1, <2>9 DEF Words, Columns
      <4> QED
        BY <3>0, <4>1
    <3>2. i \notin s.pos..s.pos + n - 1
      <4>1. s.pos + n - 1 = s.origin + Line(s.y) + COLUMNS - 2
        BY <2>1 DEF Columns
      <4>2. s.pos >= s.origin + Line(s.y) /\ s.pos \in Nat /\ i \in Nat
        BY <2>1 DEF Words, Columns
      <4> HIDE DEF n
      <4> QED
        BY <2>1, <2>9, <4>1, <4>2
    <3> QED
      BY <2>4, <2>5, <3>1, <3>2
  <2>10. delete_char(s) = [s EXCEPT !.mem = m]
    BY <1>2 DEF delete_char, m, c
  <2> HIDE DEF row
  <2>11. After(s, [s EXCEPT !.mem = m], InRow(Grid(s), s.y, row), s.x, s.y)
    BY <2>3, <2>7, <2>8, <2>9, RowChanges
  <2> QED
    BY <2>10, <2>11 DEF row
<1> QED
  BY <1>1, <1>2

(* The region changes and nothing else. *)
Scrolling(s, t, b) == [s EXCEPT !.top = t, !.bottom = b]

LEMMA RegionChanges ==
    ASSUME NEW s, Sound(s), NEW t \in Rows, NEW b \in 1..LINES, t < b,
           NEW u, u = Scrolling(s, t, b)
    PROVE  Sound(u) /\ Grid(u) = Grid(s) /\ u.x = s.x /\ u.y = s.y /\ u.top = t /\ u.bottom = b
<1>1. u \in [mem : {s.mem}, origin : {s.origin}, scr_end : {s.scr_end}, pos : {s.pos},
             x : {s.x}, y : {s.y}, top : {t}, bottom : {b}]
  BY DEF Scrolling, Sound, Consoles
<1>2. u = [mem |-> u.mem, origin |-> u.origin, scr_end |-> u.scr_end, pos |-> u.pos,
           x |-> u.x, y |-> u.y, top |-> u.top, bottom |-> u.bottom]
  BY <1>1
<1>3. /\ u.mem = s.mem /\ u.origin = s.origin /\ u.scr_end = s.scr_end /\ u.pos = s.pos
      /\ u.x = s.x /\ u.y = s.y /\ u.top = t /\ u.bottom = b
  BY <1>1
<1>4. Sound(u)
  BY <1>2, <1>3, SoundFields, IsSound
<1>5. Grid(u) = Grid(s)
  BY <1>3 DEF Grid
<1> QED
  BY <1>3, <1>4, <1>5

LEMMA FromHereIs ==
    ASSUME NEW s, Sound(s)
    PROVE  /\ Sound(FromHere(s)) /\ Grid(FromHere(s)) = Grid(s)
           /\ FromHere(s).x = s.x /\ FromHere(s).y = s.y
           /\ FromHere(s).top = s.y /\ FromHere(s).bottom = LINES
<1>1. s.y \in Rows /\ LINES \in 1..LINES /\ s.y < LINES
  BY SoundFields DEF Rows
<1>2. FromHere(s) = Scrolling(s, s.y, LINES)
  BY DEF FromHere, Scrolling
<1> QED
  BY <1>1, <1>2, RegionChanges

LEMMA RegionOfIs ==
    ASSUME NEW s, Sound(s), NEW t, Sound(t), NEW g, Grid(t) = g, t.x = s.x, t.y = s.y
    PROVE  After(s, RegionOf(t, s), g, s.x, s.y)
<1>1. s.top \in Rows /\ s.bottom \in 1..LINES /\ s.top < s.bottom
  BY SoundFields
<1>2. RegionOf(t, s) = Scrolling(t, s.top, s.bottom)
  BY DEF RegionOf, Scrolling
<1> QED
  BY <1>1, <1>2, RegionChanges DEF After

LEMMA InsertLineIs ==
    ASSUME NEW s, Sound(s)
    PROVE  After(s, insert_line(s), Shown!Down(Grid(s), s.y, LINES), s.x, s.y)
<1>1. After(FromHere(s), scrdown(FromHere(s)), Shown!Down(Grid(s), s.y, LINES), s.x, s.y)
  BY FromHereIs, ScrdownIs
<1> QED
  BY <1>1, RegionOfIs DEF insert_line, After

LEMMA DeleteLineIs ==
    ASSUME NEW s, Sound(s)
    PROVE  After(s, delete_line(s), Shown!Up(Grid(s), s.y, LINES), s.x, s.y)
<1>1. After(FromHere(s), scrup(FromHere(s)), Shown!Up(Grid(s), s.y, LINES), s.x, s.y)
  BY FromHereIs, ScrupIs
<1> QED
  BY <1>1, RegionOfIs DEF delete_line, After

LEMMA SetRegionIs ==
    ASSUME NEW s, Sound(s), NEW t \in Nat, NEW b \in Nat
    PROVE  \/ SetRegion(s, t, b) = s
           \/ /\ t \in Rows /\ b \in 1..LINES /\ t < b
              /\ Sound(SetRegion(s, t, b)) /\ Grid(SetRegion(s, t, b)) = Grid(s)
              /\ SetRegion(s, t, b).x = s.x /\ SetRegion(s, t, b).y = s.y
              /\ SetRegion(s, t, b).top = t /\ SetRegion(s, t, b).bottom = b
<1>1. CASE t < b /\ b <= LINES
  <2>1. t \in Rows /\ b \in 1..LINES
    BY <1>1 DEF Rows
  <2>2. SetRegion(s, t, b) = Scrolling(s, t, b)
    BY <1>1 DEF SetRegion, Scrolling
  <2> QED
    BY <1>1, <2>1, <2>2, RegionChanges
<1>2. CASE ~(t < b /\ b <= LINES)
  BY <1>2 DEF SetRegion
<1> QED
  BY <1>1, <1>2

-----------------------------------------------------------------------------
(* What is on the screen *)

CursorAt(s) == [x |-> s.x, y |-> s.y]
Scrolls(s) == [top |-> s.top, bottom |-> s.bottom]
ScreenStep == Sound(scr') /\ (Shown!Next \/ UNCHANGED Shown!vars)

LEMMA SameScreen ==
    ASSUME Sound(scr), scr' = scr, saved' = saved
    PROVE  ScreenStep
BY DEF ScreenStep, Shown!vars

LEMMA LineFeedStep ==
    ASSUME Sound(scr), scr' = lf(scr), saved' = saved
    PROVE  ScreenStep
<1>1. After(scr, scr', FedOn(scr), scr.x, Fed(scr))
  BY LfIs
<1>2. /\ Grid(scr') = FedOn(scr) /\ CursorAt(scr') = [x |-> scr.x, y |-> Fed(scr)]
      /\ Scrolls(scr') = Scrolls(scr) /\ Sound(scr')
  BY <1>1 DEF After, CursorAt, Scrolls
<1>3. Shown!FedGrid(scr.y) = FedOn(scr) /\ Shown!FedRow(scr.y) = Fed(scr)
  BY SoundFields DEF Shown!FedGrid, Shown!FedRow, Shown!AtEnd, FedOn, Fed, Rows
<1>4. Shown!LineFeed
  BY <1>2, <1>3 DEF Shown!LineFeed, CursorAt, Scrolls
<1> QED
  BY <1>2, <1>4 DEF ScreenStep, Shown!Next

LEMMA ReverseStep ==
    ASSUME Sound(scr), scr' = ri(scr), saved' = saved
    PROVE  ScreenStep
<1>1. CASE scr.y > scr.top
  <2>1. After(scr, scr', Grid(scr), scr.x, scr.y - 1)
    BY <1>1, RiIs
  <2>2. /\ Grid(scr') = Grid(scr) /\ CursorAt(scr') = [x |-> scr.x, y |-> scr.y - 1]
        /\ Scrolls(scr') = Scrolls(scr) /\ Sound(scr')
    BY <2>1 DEF After, CursorAt, Scrolls
  <2>3. Shown!ReverseFeed
    BY <1>1, <2>2 DEF Shown!ReverseFeed, CursorAt, Scrolls
  <2> QED
    BY <2>2, <2>3 DEF ScreenStep, Shown!Next
<1>2. CASE ~(scr.y > scr.top)
  <2>1. After(scr, scr', Shown!Down(Grid(scr), scr.top, scr.bottom), scr.x, scr.y)
    BY <1>2, RiIs
  <2>2. /\ Grid(scr') = Shown!Down(Grid(scr), scr.top, scr.bottom)
        /\ CursorAt(scr') = CursorAt(scr) /\ Scrolls(scr') = Scrolls(scr) /\ Sound(scr')
    BY <2>1 DEF After, CursorAt, Scrolls
  <2>3. Shown!ReverseFeed
    BY <1>2, <2>2 DEF Shown!ReverseFeed, CursorAt, Scrolls
  <2> QED
    BY <2>2, <2>3 DEF ScreenStep, Shown!Next
<1> QED
  BY <1>1, <1>2

(* Whatever only moves the cursor is a Move of the screen. *)
LEMMA MoveStep ==
    ASSUME NEW x \in 0..COLUMNS, NEW y \in Rows, After(scr, scr', Grid(scr), x, y),
           saved' = saved
    PROVE  ScreenStep
<1>1. /\ Grid(scr') = Grid(scr) /\ CursorAt(scr') = [x |-> x, y |-> y]
      /\ Scrolls(scr') = Scrolls(scr) /\ Sound(scr')
  BY DEF After, CursorAt, Scrolls
<1>2. [x |-> x, y |-> y] \in Shown!Places
  BY DEF Shown!Places, Shown!Rows, Rows
<1>3. Shown!Move
  BY <1>1, <1>2 DEF Shown!Move, CursorAt, Scrolls
<1> QED
  BY <1>1, <1>3 DEF ScreenStep, Shown!Next

LEMMA CrStep ==
    ASSUME Sound(scr), scr' = cr(scr), saved' = saved
    PROVE  ScreenStep
<1>1. 0 \in 0..COLUMNS /\ scr.y \in Rows
  BY SoundFields
<1> QED
  BY <1>1, CrIs, MoveStep

LEMMA BackStep ==
    ASSUME Sound(scr), scr' = back(scr), saved' = saved
    PROVE  ScreenStep
<1>1. CASE scr.x = 0
  BY <1>1, BackIs, SameScreen
<1>2. CASE scr.x # 0
  <2>1. scr.x - 1 \in 0..COLUMNS /\ scr.y \in Rows
    BY <1>2, BackIs, SoundFields DEF Columns
  <2> QED
    BY <1>2, <2>1, BackIs, MoveStep
<1> QED
  BY <1>1, <1>2

LEMMA GotoxyStep ==
    ASSUME Sound(scr), NEW x \in Int, NEW y \in Int, scr' = gotoxy(scr, x, y), saved' = saved
    PROVE  ScreenStep
<1>1. CASE gotoxy(scr, x, y) = scr
  BY <1>1, SameScreen
<1>2. CASE \E cx \in Columns, cy \in Rows : After(scr, scr', Grid(scr), cx, cy)
  <2>1. PICK cx \in Columns, cy \in Rows : After(scr, scr', Grid(scr), cx, cy)
    BY <1>2
  <2>2. cx \in 0..COLUMNS
    BY DEF Columns
  <2> QED
    BY <2>1, <2>2, MoveStep
<1> QED
  BY <1>1, <1>2, GotoxyIs

LEMMA DelStep ==
    ASSUME Sound(scr), scr' = del(scr), saved' = saved
    PROVE  ScreenStep
<1>1. CASE scr.x = 0
  BY <1>1, DelIs, SameScreen
<1>2. CASE scr.x # 0
  <2>1. After(scr, scr', OneCell(Grid(scr), scr.y, scr.x - 1, Blank), scr.x - 1, scr.y)
    BY <1>2, DelIs
  <2>2. /\ Grid(scr') = [Grid(scr) EXCEPT ![scr.y][scr.x - 1] = Blank]
        /\ CursorAt(scr') = [x |-> scr.x - 1, y |-> scr.y]
        /\ Scrolls(scr') = Scrolls(scr) /\ Sound(scr')
    BY <2>1 DEF After, CursorAt, Scrolls, OneCell
  <2>3. scr.x > 0
    BY <1>2, SoundFields
  <2>4. Shown!Delete
    BY <2>2, <2>3 DEF Shown!Delete, CursorAt, Scrolls
  <2> QED
    BY <2>2, <2>4 DEF ScreenStep, Shown!Next
<1> QED
  BY <1>1, <1>2

LEMMA PutStep ==
    ASSUME Sound(scr), NEW c \in Glyphs, scr' = put(scr, c), saved' = saved
    PROVE  ScreenStep
<1>1. Shown!FedGrid(scr.y) = FedOn(scr) /\ Shown!FedRow(scr.y) = Fed(scr)
  BY SoundFields DEF Shown!FedGrid, Shown!FedRow, Shown!AtEnd, FedOn, Fed, Rows
<1>2. CASE scr.x = COLUMNS
  <2>1. After(scr, scr', OneCell(FedOn(scr), Fed(scr), 0, c), 1, Fed(scr))
    BY <1>2, PutIs
  <2>2. /\ Grid(scr') = [FedOn(scr) EXCEPT ![Fed(scr)][0] = c]
        /\ CursorAt(scr') = [x |-> 0 + 1, y |-> Fed(scr)]
        /\ Scrolls(scr') = Scrolls(scr) /\ Sound(scr')
    BY <2>1 DEF After, CursorAt, Scrolls, OneCell
  <2> DEFINE cursor == [x |-> scr.x, y |-> scr.y]
  <2>3. /\ cursor.x = COLUMNS
        /\ Shown!FedGrid(cursor.y) = FedOn(scr) /\ Shown!FedRow(cursor.y) = Fed(scr)
    BY <1>1, <1>2
  <2>4. Shown!Put(c)
    BY <2>2, <2>3, Zenon DEF Shown!Put, CursorAt, Scrolls
  <2> QED
    BY <2>2, <2>4 DEF ScreenStep, Shown!Next
<1>3. CASE scr.x # COLUMNS
  <2>1. After(scr, scr', OneCell(Grid(scr), scr.y, scr.x, c), scr.x + 1, scr.y)
    BY <1>3, PutIs
  <2>2. /\ Grid(scr') = [Grid(scr) EXCEPT ![scr.y][scr.x] = c]
        /\ CursorAt(scr') = [x |-> scr.x + 1, y |-> scr.y]
        /\ Scrolls(scr') = Scrolls(scr) /\ Sound(scr')
    BY <2>1 DEF After, CursorAt, Scrolls, OneCell
  <2>3. Shown!Put(c)
    BY <1>3, <2>2 DEF Shown!Put, CursorAt, Scrolls
  <2> QED
    BY <2>2, <2>3 DEF ScreenStep, Shown!Next
<1> QED
  BY <1>2, <1>3

LEMMA TabStep ==
    ASSUME Sound(scr), scr' = tab(scr), saved' = saved
    PROVE  ScreenStep
<1>1. Shown!FedGrid(scr.y) = FedOn(scr) /\ Shown!FedRow(scr.y) = Fed(scr)
  BY SoundFields DEF Shown!FedGrid, Shown!FedRow, Shown!AtEnd, FedOn, Fed, Rows
<1>2. CASE scr.x < COLUMNS
  <2>1. PICK x \in Shown!Stops : /\ scr.x < x /\ x <= scr.x + TAB /\ x <= COLUMNS
                                 /\ After(scr, scr', Grid(scr), x, scr.y)
    BY <1>2, TabIs DEF Shown!Stops
  <2>2. /\ Grid(scr') = Grid(scr) /\ CursorAt(scr') = [x |-> x, y |-> scr.y]
        /\ Scrolls(scr') = Scrolls(scr) /\ Sound(scr')
    BY <2>1 DEF After, CursorAt, Scrolls
  <2>3. Shown!Tabulate
    BY <1>2, <2>1, <2>2 DEF Shown!Tabulate, CursorAt, Scrolls
  <2> QED
    BY <2>2, <2>3 DEF ScreenStep, Shown!Next
<1>3. CASE ~(scr.x < COLUMNS)
  <2>1. After(scr, scr', FedOn(scr), TAB, Fed(scr))
    BY <1>3, TabIs
  <2>2. /\ Grid(scr') = FedOn(scr) /\ CursorAt(scr') = [x |-> TAB, y |-> Fed(scr)]
        /\ Scrolls(scr') = Scrolls(scr) /\ Sound(scr')
    BY <2>1 DEF After, CursorAt, Scrolls
  <2>3. Shown!Tabulate
    BY <1>1, <1>3, <2>2 DEF Shown!Tabulate, CursorAt, Scrolls
  <2> QED
    BY <2>2, <2>3 DEF ScreenStep, Shown!Next
<1> QED
  BY <1>2, <1>3

LEMMA EraseStep ==
    ASSUME Sound(scr), NEW c \in {"J", "K"}, NEW p \in Nat,
           scr' = erase(scr, c, p), saved' = saved
    PROVE  ScreenStep
<1>1. CASE erase(scr, c, p) = scr
  BY <1>1, SameScreen
<1>2. ASSUME NEW cells \in Cells(scr, c),
             After(scr, scr', Erased(Grid(scr), cells), scr.x, scr.y)
      PROVE  ScreenStep
  <2>1. /\ Grid(scr') = Erased(Grid(scr), cells)
        /\ CursorAt(scr') = CursorAt(scr) /\ Scrolls(scr') = Scrolls(scr) /\ Sound(scr')
    BY <1>2 DEF After, CursorAt, Scrolls
  <2>2. Shown!Erase(cells)
    BY <2>1 DEF Shown!Erase, CursorAt, Scrolls, Erased, Shown!Rows, Shown!Columns, Rows, Columns
  <2>3. /\ Shown!Cells = Rows \X Columns /\ Shown!Before = Earlier(scr)
        /\ Shown!Row = {scr.y} \X Columns
    BY DEF Shown!Cells, Shown!Before, Shown!Row, Earlier, Shown!Rows, Shown!Columns, Rows, Columns
  <2>4. Shown!EraseScreen \/ Shown!EraseRow
    BY <2>2, <2>3 DEF Cells, Shown!EraseScreen, Shown!EraseRow
  <2> QED
    BY <2>1, <2>4 DEF ScreenStep, Shown!Next
<1> QED
  BY <1>1, <1>2, EraseIs

LEMMA InsertCharStep ==
    ASSUME Sound(scr), scr' = insert_char(scr), saved' = saved
    PROVE  ScreenStep
<1>1. CASE insert_char(scr) = scr
  BY <1>1, SameScreen
<1>2. CASE After(scr, scr', InRow(Grid(scr), scr.y, Inserted(Grid(scr)[scr.y], scr.x)),
                 scr.x, scr.y)
  <2>1. /\ Grid(scr') = [Grid(scr) EXCEPT ![scr.y] = Inserted(Grid(scr)[scr.y], scr.x)]
        /\ CursorAt(scr') = CursorAt(scr) /\ Scrolls(scr') = Scrolls(scr) /\ Sound(scr')
    BY <1>2 DEF After, CursorAt, Scrolls, InRow
  <2>2. Shown!InsertCell
    BY <2>1 DEF Shown!InsertCell, Shown!NewRow, Inserted, CursorAt, Scrolls,
                Shown!Columns, Columns
  <2> QED
    BY <2>1, <2>2 DEF ScreenStep, Shown!Next
<1> QED
  BY <1>1, <1>2, InsertCharIs

LEMMA DeleteCharStep ==
    ASSUME Sound(scr), scr' = delete_char(scr), saved' = saved
    PROVE  ScreenStep
<1>1. CASE delete_char(scr) = scr
  BY <1>1, SameScreen
<1>2. CASE After(scr, scr', InRow(Grid(scr), scr.y, Deleted(Grid(scr)[scr.y], scr.x)),
                 scr.x, scr.y)
  <2>1. /\ Grid(scr') = [Grid(scr) EXCEPT ![scr.y] = Deleted(Grid(scr)[scr.y], scr.x)]
        /\ CursorAt(scr') = CursorAt(scr) /\ Scrolls(scr') = Scrolls(scr) /\ Sound(scr')
    BY <1>2 DEF After, CursorAt, Scrolls, InRow
  <2>2. Shown!DeleteCell
    BY <2>1 DEF Shown!DeleteCell, Shown!NewRow, Deleted, CursorAt, Scrolls,
                Shown!Columns, Columns
  <2> QED
    BY <2>1, <2>2 DEF ScreenStep, Shown!Next
<1> QED
  BY <1>1, <1>2, DeleteCharIs

LEMMA LineStep ==
    ASSUME Sound(scr), scr' = insert_line(scr) \/ scr' = delete_line(scr), saved' = saved
    PROVE  ScreenStep
<1>1. CASE scr' = insert_line(scr)
  <2>1. After(scr, scr', Shown!Down(Grid(scr), scr.y, LINES), scr.x, scr.y)
    BY <1>1, InsertLineIs
  <2>2. /\ Grid(scr') = Shown!Down(Grid(scr), scr.y, LINES)
        /\ CursorAt(scr') = CursorAt(scr) /\ Scrolls(scr') = Scrolls(scr) /\ Sound(scr')
    BY <2>1 DEF After, CursorAt, Scrolls
  <2>3. Shown!InsertRow
    BY <2>2 DEF Shown!InsertRow, CursorAt, Scrolls
  <2> QED
    BY <2>2, <2>3 DEF ScreenStep, Shown!Next
<1>2. CASE scr' = delete_line(scr)
  <2>1. After(scr, scr', Shown!Up(Grid(scr), scr.y, LINES), scr.x, scr.y)
    BY <1>2, DeleteLineIs
  <2>2. /\ Grid(scr') = Shown!Up(Grid(scr), scr.y, LINES)
        /\ CursorAt(scr') = CursorAt(scr) /\ Scrolls(scr') = Scrolls(scr) /\ Sound(scr')
    BY <2>1 DEF After, CursorAt, Scrolls
  <2>3. Shown!DeleteRow
    BY <2>2 DEF Shown!DeleteRow, CursorAt, Scrolls
  <2> QED
    BY <2>2, <2>3 DEF ScreenStep, Shown!Next
<1> QED
  BY <1>1, <1>2

LEMMA RegionStep ==
    ASSUME Sound(scr), NEW t \in Nat, NEW b \in Nat,
           scr' = SetRegion(scr, t, b), saved' = saved
    PROVE  ScreenStep
<1>1. CASE SetRegion(scr, t, b) = scr
  BY <1>1, SameScreen
<1>2. CASE /\ t \in Rows /\ b \in 1..LINES /\ t < b
           /\ Sound(scr') /\ Grid(scr') = Grid(scr) /\ scr'.x = scr.x /\ scr'.y = scr.y
           /\ scr'.top = t /\ scr'.bottom = b
  <2>1. [top |-> t, bottom |-> b] \in Shown!Regions
    BY <1>2 DEF Shown!Regions, Shown!Rows, Rows
  <2>2. Shown!SetRegion
    BY <1>2, <2>1 DEF Shown!SetRegion
  <2> QED
    BY <1>2, <2>2 DEF ScreenStep, Shown!Next
<1> QED
  BY <1>1, <1>2, SetRegionIs

LEMMA SaveStep ==
    ASSUME Sound(scr), SaveCur
    PROVE  ScreenStep /\ saved' \in [x : 0..COLUMNS, y : Rows]
<1>1. Shown!Save
  BY DEF SaveCur, Shown!Save
<1> QED
  BY <1>1, SoundFields DEF SaveCur, ScreenStep, Shown!Next

LEMMA RestoreStep ==
    ASSUME Sound(scr), saved \in [x : 0..COLUMNS, y : Rows], RestoreCur
    PROVE  ScreenStep
<1>1. After(scr, scr', Grid(scr), saved.x, saved.y)
  BY GotoIs DEF RestoreCur
<1>2. /\ Grid(scr') = Grid(scr) /\ CursorAt(scr') = saved
      /\ Scrolls(scr') = Scrolls(scr) /\ Sound(scr')
  BY <1>1 DEF After, CursorAt, Scrolls
<1>3. Shown!Restore
  BY <1>2 DEF Shown!Restore, RestoreCur, CursorAt, Scrolls
<1> QED
  BY <1>2, <1>3 DEF ScreenStep, Shown!Next

-----------------------------------------------------------------------------
(* The steps of con_write() *)

(* The variables that are not on the screen. *)
ControlOK ==
    /\ saved \in [x : 0..COLUMNS, y : Rows]
    /\ state \in 0..3 /\ par \in [0..NPAR - 1 -> 0..Word - 1] /\ npar \in 0..NPAR - 1
    /\ rep \in [op : Loops, n : 0..LINES + COLUMNS]

LEMMA IInvIs == IInv <=> Sound(scr) /\ ControlOK
BY DEF IInv, TypeOK, CursorInWindow, Sound, Consoles, ControlOK, Rows

LEMMA NothingTyped == NoParameters \in [0..NPAR - 1 -> 0..Word - 1] /\ 0 \in 0..NPAR - 1
BY DEF NoParameters

(* Where the numbers of a sequence lead. *)
LEMMA TargetsTyped ==
    ASSUME Sound(scr), ControlOK, NEW t \in Targets(scr, par)
    PROVE  t[1] \in Int /\ t[2] \in Int
<1>1. par[0] \in Int /\ par[1] \in Int /\ scr.x \in Int /\ scr.y \in Int
  BY SoundFields DEF ControlOK, Rows
<1>2. \A n \in Int : LessOne(n) \in Int /\ AtLeast1(n) \in Int
  BY DEF LessOne, AtLeast1
<1> QED
  BY <1>1, <1>2 DEF Targets

LEMMA ControlStep == IInv /\ [Next]_vars => ControlOK'
<1> SUFFICES ASSUME Sound(scr), ControlOK, [Next]_vars
             PROVE  ControlOK'
  BY IInvIs
<1>1. scr.x \in 0..COLUMNS /\ scr.y \in Rows
  BY SoundFields
<1>2. ASSUME SaveCur PROVE saved' \in [x : 0..COLUMNS, y : Rows]
  BY <1>1, <1>2 DEF SaveCur
<1>3. CASE Text
  BY <1>3 DEF Text, Does, ControlOK
<1>4. CASE Escape \/ Bracket \/ Question
  BY <1>4 DEF Escape, Bracket, Question, ControlOK
<1>5. CASE Short
  BY <1>2, <1>5 DEF Short, Does, RestoreCur, ControlOK
<1>6. CASE Semicolon
  BY <1>6 DEF Semicolon, ControlOK
<1>7. ASSUME NEW d \in Digits, Digit(d) PROVE ControlOK'
  <2>1. (10 * par[npar] + d) % Word \in 0..Word - 1
    <3>1. 10 * par[npar] + d \in Int
      BY DEF ControlOK
    <3> QED
      BY <3>1, ModType
  <2>2. par' \in [0..NPAR - 1 -> 0..Word - 1]
    BY <1>7, <2>1 DEF Digit, ControlOK
  <2> QED
    BY <1>7, <2>2 DEF Digit, ControlOK
<1>8. CASE Moves \/ Erases \/ Region \/ Unknown
  BY <1>8, NothingTyped DEF Moves, Erases, Region, Unknown, Ends, Does, ControlOK
<1>9. CASE Saves \/ Restores
  BY <1>2, <1>9, NothingTyped DEF Saves, Restores, Ends, RestoreCur, ControlOK
<1>10. ASSUME NEW op \in Loops, Starts(op) PROVE ControlOK'
  <2>1. par[0] \in Nat /\ Limit(op) \in 1..LINES + COLUMNS
    BY DEF ControlOK, Limit
  <2>2. (IF par[0] > Limit(op) THEN Limit(op) ELSE AtLeast1(par[0])) \in 0..LINES + COLUMNS
    BY <2>1 DEF AtLeast1
  <2> QED
    BY <1>10, <2>2, NothingTyped DEF Starts, Ends, Does, ControlOK
<1>11. CASE Round
  <2>1. rep.n - 1 \in 0..LINES + COLUMNS
    BY <1>11 DEF Round, Ready, ControlOK
  <2> QED
    BY <1>11, <2>1 DEF Round, Does, ControlOK
<1>12. CASE UNCHANGED vars
  BY <1>12 DEF vars, ControlOK
<1> QED
  BY <1>3, <1>4, <1>5, <1>6, <1>7, <1>8, <1>9, <1>10, <1>11, <1>12 DEF Next

LEMMA EveryStepShown == IInv /\ [Next]_vars => ScreenStep
<1> SUFFICES ASSUME Sound(scr), ControlOK, [Next]_vars
             PROVE  ScreenStep
  BY IInvIs
<1>1. CASE Text
  BY <1>1, LineFeedStep, CrStep, DelStep, BackStep, TabStep, PutStep DEF Text, Does
<1>2. CASE Escape \/ Bracket \/ Question \/ Semicolon \/ \E d \in Digits : Digit(d)
  BY <1>2, SameScreen DEF Escape, Bracket, Question, Semicolon, Digit
<1>3. CASE Short
  <2>1. CASE Does(gotoxy(scr, 0, scr.y + 1))
    <3>1. 0 \in Int /\ scr.y + 1 \in Int
      BY SoundFields DEF Rows
    <3> QED
      BY <2>1, <3>1, GotoxyStep DEF Does
  <2>2. CASE Does(ri(scr)) \/ Does(lf(scr)) \/ Does(scr)
    BY <2>2, ReverseStep, LineFeedStep, SameScreen DEF Does
  <2>3. CASE SaveCur \/ RestoreCur
    BY <2>3, SaveStep, RestoreStep DEF ControlOK
  <2> QED
    BY <1>3, <2>1, <2>2, <2>3 DEF Short
<1>4. CASE Moves
  <2>1. PICK t \in Targets(scr, par) : Does(gotoxy(scr, t[1], t[2]))
    BY <1>4 DEF Moves
  <2> QED
    BY <2>1, TargetsTyped, GotoxyStep DEF Does
<1>5. CASE Erases
  <2>1. PICK c \in {"J", "K"} : Does(erase(scr, c, par[0]))
    BY <1>5 DEF Erases
  <2>2. par[0] \in Nat
    BY DEF ControlOK
  <2> QED
    BY <2>1, <2>2, EraseStep DEF Does
<1>6. CASE Region
  <2>1. LessOne(par[0]) \in Nat /\ (IF par[1] = 0 THEN LINES ELSE par[1]) \in Nat
    BY DEF ControlOK, LessOne
  <2> QED
    BY <1>6, <2>1, RegionStep DEF Region, Does
<1>7. CASE Saves \/ Restores
  BY <1>7, SaveStep, RestoreStep DEF Saves, Restores, ControlOK
<1>8. CASE Unknown \/ \E op \in Loops : Starts(op)
  BY <1>8, SameScreen DEF Unknown, Starts, Does
<1>9. CASE Round
  BY <1>9, InsertCharStep, DeleteCharStep, LineStep DEF Round, Does
<1>10. CASE UNCHANGED vars
  BY <1>10, SameScreen DEF vars
<1> QED
  BY <1>1, <1>2, <1>3, <1>4, <1>5, <1>6, <1>7, <1>8, <1>9, <1>10 DEF Next

LEMMA InitSound == Init => Sound(scr) /\ ControlOK /\ Shown!Init
<1> SUFFICES ASSUME Init PROVE Sound(scr) /\ ControlOK /\ Shown!Init
  OBVIOUS
<1>1. PICK m \in [Words -> Glyphs], cx \in 0..COLUMNS - 1, cy \in 0..LINES - 1 :
         scr = [mem |-> m, origin |-> 0, scr_end |-> LINES * COLUMNS,
                pos |-> cy * COLUMNS + cx, x |-> cx, y |-> cy,
                top |-> 0, bottom |-> LINES]
  BY DEF Init
<1>2. /\ cy * COLUMNS = Line(cy) /\ Line(cy) \in Nat
      /\ LINES * COLUMNS = Line(LINES) /\ Line(LINES) \in Nat /\ Line(LINES) <= SCREEN_END
  BY LineType, LayoutHolds DEF Rows, Layout
<1>3. scr = [mem |-> scr.mem, origin |-> scr.origin, scr_end |-> scr.scr_end,
             pos |-> scr.pos, x |-> scr.x, y |-> scr.y,
             top |-> scr.top, bottom |-> scr.bottom]
  BY <1>1
<1>4. /\ scr.mem \in [Words -> Glyphs] /\ scr.origin \in Nat /\ scr.scr_end <= SCREEN_END
      /\ scr.scr_end = scr.origin + Line(LINES) /\ scr.x \in 0..COLUMNS /\ scr.y \in Rows
      /\ scr.pos = scr.origin + Line(scr.y) + scr.x
      /\ scr.top \in Rows /\ scr.bottom \in 1..LINES /\ scr.top < scr.bottom
  BY <1>1, <1>2 DEF Rows
<1>5. Sound(scr)
  BY <1>3, <1>4, IsSound
<1>6. ControlOK
  BY NothingTyped DEF Init, ControlOK, Rows, NoLoop, Loops
<1>7. Shown!Init
  <2>1. Grid(scr) \in Grids
    BY <1>5, GridType
  <2>2. scr.x \in Columns /\ scr.y \in Rows /\ scr.top = 0 /\ scr.bottom = LINES
    BY <1>1 DEF Rows, Columns
  <2> QED
    BY <2>1, <2>2 DEF Shown!Init, Init, Grids, Shown!Rows, Shown!Columns, Rows, Columns
<1> QED
  BY <1>5, <1>6, <1>7

(* The inductive invariant: every variable has its type, and pos, which    *)
(* the code moves on its own, is the address of the cell at x and y of a   *)
(* window that lies inside the video memory.                               *)
THEOREM Inductive == Spec => []IInv
<1>1. Init => IInv
  BY InitSound, IInvIs
<1>2. IInv /\ [Next]_vars => IInv'
  <2>1. IInv /\ [Next]_vars => Sound(scr') /\ ControlOK'
    BY EveryStepShown, ControlStep DEF ScreenStep
  <2>2. Sound(scr') /\ ControlOK' => IInv'
    BY DEF IInv, TypeOK, CursorInWindow, Sound, Consoles, ControlOK, Rows
  <2> QED
    BY <2>1, <2>2
<1> QED
  BY <1>1, <1>2, PTL DEF Spec

(* Nothing that is written to the console takes the cursor or the window   *)
(* out of the video memory, nor the one away from the other.               *)
THEOREM CursorStays == Spec => []CursorInWindow
<1>1. IInv => CursorInWindow
  BY DEF IInv
<1> QED
  BY <1>1, Inductive, PTL

(* The console implements the screen: whatever the size of the screen and  *)
(* of the memory and wherever the window is, each step of con_write()      *)
(* shows what one operation of the screen would, or nothing new.           *)
THEOREM ImplementsScreen == Spec => ShowsTheScreen
<1>1. Init => Shown!Init
  BY InitSound
<1>2. IInv /\ [Next]_vars => [Shown!Next]_(Shown!vars)
  BY EveryStepShown DEF ScreenStep
<1> QED
  BY <1>1, <1>2, Inductive, PTL DEF Spec, ShowsTheScreen, Shown!Spec
=============================================================================
