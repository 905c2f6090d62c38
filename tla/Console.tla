------------------------------ MODULE Console ------------------------------
(***************************************************************************)
(* The console: kernel/console.c.                                          *)
(*                                                                         *)
(* con_write() takes one character after the other from the write queue;   *)
(* a character is one step, and each round of the loops of csi_at(),       *)
(* csi_L(), csi_P() and csi_M() is one.  The video memory is an array of   *)
(* words, numbered from SCREEN_START; the screen shows the words from      *)
(* origin on.  A scroll of the whole screen moves origin, and at the end   *)
(* of the memory copies the screen back to its start.                      *)
(*                                                                         *)
(* Of a word only the character is kept (csi_m and attr are left out, and  *)
(* so is the answer to ESC Z).  All printing characters behave alike.      *)
(* par[] and npar are dead outside a control sequence and 0 there.  The    *)
(* echo of a key comes from an interrupt, which can find con_write() in    *)
(* the middle of a character; here it comes between two characters.        *)
(***************************************************************************)
EXTENDS Integers

CONSTANTS LINES, COLUMNS,
          SCREEN_END,   \* words of video memory
          TAB,          \* 8: columns between tab stops
          NPAR,         \* parameters of a control sequence
          Word,         \* 2^32: unsigned arithmetic is modulo this
          Digits,       \* the digits that are typed
          SaveAt,       \* '7' and '8', which con_write() compares with the
          RestoreAt,    \* column of the cursor
          Glyphs, Blank \* what a cell can show; 0x0720

ASSUME ConsoleAssumption ==
    /\ LINES \in Nat \ {0} /\ TAB \in Nat \ {0}
    /\ COLUMNS \in Nat \ {0} /\ COLUMNS % 2 = 0 /\ COLUMNS % TAB = 0
    /\ SCREEN_END \in Nat /\ LINES * COLUMNS <= SCREEN_END
    /\ NPAR \in Nat \ {0, 1} /\ Word \in Nat /\ Word > LINES /\ Word > COLUMNS
    /\ Digits \subseteq 0..9 /\ Blank \in Glyphs

VARIABLES
    scr,   \* the video memory mem, the window origin and scr_end, the cursor
           \* pos, x and y, the scrolling region top and bottom
    saved, \* saved_x and saved_y
    state, \* 0: text, 1: after ESC, 2: after ESC [, 3: in the parameters
    par, npar, \* the parameters and the number of the current one
    rep    \* the loop con_write() is in, and how many rounds are left

vars == <<scr, saved, state, par, npar, rep>>

Words == 0..SCREEN_END - 1
NoParameters == [i \in 0..NPAR - 1 |-> 0]
Loops == {"@", "P", "L", "M"}
NoLoop == [op |-> "@", n |-> 0]

TypeOK ==
    /\ scr \in [mem : [Words -> Glyphs], origin : Words, scr_end : 0..SCREEN_END,
                pos : 0..SCREEN_END, x : 0..COLUMNS, y : 0..LINES - 1,
                top : 0..LINES - 1, bottom : 1..LINES]
    /\ saved \in [x : 0..COLUMNS, y : 0..LINES - 1]
    /\ state \in 0..3 /\ par \in [0..NPAR - 1 -> 0..Word - 1] /\ npar \in 0..NPAR - 1
    /\ rep \in [op : Loops, n : 0..LINES + COLUMNS]

(* con_init(): the cursor is where the BIOS left it. *)
Init ==
    /\ \E m \in [Words -> Glyphs], cx \in 0..COLUMNS - 1, cy \in 0..LINES - 1 :
          scr = [mem |-> m, origin |-> 0, scr_end |-> LINES * COLUMNS,
                 pos |-> cy * COLUMNS + cx, x |-> cx, y |-> cy,
                 top |-> 0, bottom |-> LINES]
    /\ saved = [x |-> 0, y |-> 0]
    /\ state = 0 /\ par = NoParameters /\ npar = 0 /\ rep = NoLoop

-----------------------------------------------------------------------------
(* stos and movs.  Each copy runs in the direction in which it reads a     *)
(* word before it overwrites it.                                           *)

Fill(m, at, n) == [i \in Words |-> IF i \in at..at + n - 1 THEN Blank ELSE m[i]]
Copy(m, to, from, n) ==
    [i \in Words |-> IF i \in to..to + n - 1 THEN m[i - to + from] ELSE m[i]]

(* The parts of scrup(): the window moves on, goes back to the start of    *)
(* the memory, or only a part of it scrolls.                               *)
Slide(s) ==
    [s EXCEPT !.mem = Fill(@, s.scr_end, COLUMNS), !.origin = @ + COLUMNS,
              !.pos = @ + COLUMNS, !.scr_end = @ + COLUMNS]
\* faulty: the cursor stays where it was in the memory
RewindCursorStays(s) ==
    LET o == s.origin + COLUMNS
        kept == (LINES - 1) * COLUMNS
    IN [s EXCEPT !.mem = Fill(Copy(@, 0, o, kept), kept, COLUMNS), !.origin = 0,
                 !.scr_end = @ + COLUMNS - o]
Rewind(s) ==
    LET o == s.origin + COLUMNS
        kept == (LINES - 1) * COLUMNS
    IN [s EXCEPT !.mem = Fill(Copy(@, 0, o, kept), kept, COLUMNS), !.origin = 0,
                 !.pos = @ + COLUMNS - o, !.scr_end = @ + COLUMNS - o]
ScrollRegion(s) ==
    LET row(r) == s.origin + COLUMNS * r IN
    [s EXCEPT !.mem = Fill(Copy(@, row(s.top), row(s.top + 1),
                                COLUMNS * (s.bottom - s.top - 1)),
                           row(s.bottom - 1), COLUMNS)]
scrup(s) ==
    IF s.top # 0 \/ s.bottom # LINES THEN ScrollRegion(s)
    ELSE IF s.scr_end + COLUMNS > SCREEN_END THEN Rewind(s) ELSE Slide(s)

scrdown(s) ==
    LET row(r) == s.origin + COLUMNS * r IN
    [s EXCEPT !.mem = Fill(Copy(@, row(s.top + 1), row(s.top),
                                COLUMNS * (s.bottom - s.top - 1)),
                           row(s.top), COLUMNS)]

lf(s) == IF s.y + 1 < s.bottom THEN [s EXCEPT !.y = @ + 1, !.pos = @ + COLUMNS]
         ELSE scrup(s)
ri(s) == IF s.y > s.top THEN [s EXCEPT !.y = @ - 1, !.pos = @ - COLUMNS]
         ELSE scrdown(s)
cr(s) == [s EXCEPT !.pos = @ - s.x, !.x = 0]
back(s) == IF s.x = 0 THEN s ELSE [s EXCEPT !.pos = @ - 1, !.x = @ - 1]
del(s) == IF s.x = 0 THEN s ELSE [back(s) EXCEPT !.mem[s.pos - 1] = Blank]

wrap(s) == lf([s EXCEPT !.x = @ - COLUMNS, !.pos = @ - COLUMNS])
put(s, c) ==
    LET t == IF s.x >= COLUMNS THEN wrap(s) ELSE s IN
    [t EXCEPT !.mem[t.pos] = c, !.pos = @ + 1, !.x = @ + 1]
tab(s) ==
    LET n == TAB - (s.x % TAB)
        t == [s EXCEPT !.x = @ + n, !.pos = @ + n]
    IN IF t.x > COLUMNS THEN wrap(t) ELSE t

(* A place outside the screen is ignored. *)
goto(s, nx, ny) == [s EXCEPT !.x = nx, !.y = ny, !.pos = s.origin + ny * COLUMNS + nx]
gotoxy(s, nx, ny) ==
    IF nx % Word >= COLUMNS \/ ny % Word >= LINES THEN s
    ELSE goto(s, nx % Word, ny % Word)

-----------------------------------------------------------------------------
(* Erasing; each entry is where it begins and how many words it erases. *)
Spans(s) == [J |-> <<<<s.pos, s.scr_end - s.pos>>, <<s.origin, s.pos - s.origin>>,
                     <<s.origin, COLUMNS * LINES>>>>,
             K |-> <<<<s.pos, COLUMNS - s.x>>, <<s.pos - s.x, s.x>>,
                     <<s.pos - s.x, COLUMNS>>>>]
erase(s, c, p) ==
    IF p > 2 THEN s
    ELSE [s EXCEPT !.mem = Fill(@, Spans(s)[c][p + 1][1], Spans(s)[c][p + 1][2])]

insert_char(s) ==
    IF s.x >= COLUMNS THEN s
    ELSE [s EXCEPT !.mem = Fill(Copy(@, s.pos + 1, s.pos, COLUMNS - s.x - 1), s.pos, 1)]
delete_char(s) ==
    LET n == COLUMNS - s.x - 1 IN
    IF s.x >= COLUMNS THEN s
    ELSE [s EXCEPT !.mem = Fill(Copy(@, s.pos, s.pos + 1, n), s.pos + n, 1)]

FromHere(s) == [s EXCEPT !.top = s.y, !.bottom = LINES]
\* faulty: top and bottom are not put back
RegionLeft(t, s) == t
RegionOf(t, s) == [t EXCEPT !.top = s.top, !.bottom = s.bottom]
insert_line(s) == RegionOf(scrdown(FromHere(s)), s)
delete_line(s) == RegionOf(scrup(FromHere(s)), s)

-----------------------------------------------------------------------------
(* con_write() *)

Ready == rep.n = 0
Does(s) == scr' = s /\ UNCHANGED saved
SaveCur == saved' = [x |-> scr.x, y |-> scr.y] /\ UNCHANGED scr
RestoreCur == scr' = goto(scr, saved.x, saved.y) /\ UNCHANGED saved

Text ==
    /\ Ready /\ state = 0
    /\ Does(lf(scr)) \/ Does(cr(scr)) \/ Does(del(scr)) \/ Does(back(scr)) \/ Does(tab(scr))
       \/ \E c \in Glyphs : Does(put(scr, c))
    /\ UNCHANGED <<state, par, npar, rep>>

Escape == /\ Ready /\ state = 0 /\ state' = 1
          /\ UNCHANGED <<scr, saved, par, npar, rep>>

(* The second character: '[' and the short sequences.  ESC 7 and ESC 8 are *)
(* recognised by the column the cursor is in.                              *)
Bracket == /\ Ready /\ state = 1 /\ state' = 2
           /\ UNCHANGED <<scr, saved, par, npar, rep>>
Short ==
    /\ Ready /\ state = 1 /\ state' = 0
    /\ \/ Does(gotoxy(scr, 0, scr.y + 1)) \/ Does(ri(scr)) \/ Does(lf(scr))
       \/ IF scr.x = SaveAt THEN SaveCur
          ELSE IF scr.x = RestoreAt THEN RestoreCur ELSE Does(scr)
    /\ UNCHANGED <<par, npar, rep>>

(* The parameters. *)
Question == /\ Ready /\ state = 2 /\ state' = 3
            /\ UNCHANGED <<scr, saved, par, npar, rep>>
Digit(d) == /\ Ready /\ state \in {2, 3} /\ state' = 3
            /\ par' = [par EXCEPT ![npar] = (10 * @ + d) % Word]
            /\ UNCHANGED <<scr, saved, npar, rep>>
Semicolon == /\ Ready /\ state \in {2, 3} /\ npar < NPAR - 1
             /\ state' = 3 /\ npar' = npar + 1
             /\ UNCHANGED <<scr, saved, par, rep>>

(* The last character. *)
AtLeast1(n) == IF n = 0 THEN 1 ELSE n
LessOne(n) == IF n = 0 THEN 0 ELSE n - 1
Targets(s, p) == \* of G A B C D E F d H, columns and rows from 0
    {<<LessOne(p[0]), s.y>>, <<s.x, LessOne(p[0])>>, <<LessOne(p[1]), LessOne(p[0])>>}
    \cup {<<s.x, s.y - AtLeast1(p[0])>>, <<s.x, s.y + AtLeast1(p[0])>>,
          <<s.x - AtLeast1(p[0]), s.y>>, <<s.x + AtLeast1(p[0]), s.y>>,
          <<0, s.y - AtLeast1(p[0])>>, <<0, s.y + AtLeast1(p[0])>>}

SetRegion(s, t, b) ==
    IF t < b /\ b <= LINES THEN [s EXCEPT !.top = t, !.bottom = b] ELSE s
Ends == /\ Ready /\ state \in {2, 3}
        /\ state' = 0 /\ par' = NoParameters /\ npar' = 0
Moves == /\ Ends
         /\ \E t \in Targets(scr, par) : Does(gotoxy(scr, t[1], t[2]))
         /\ UNCHANGED rep
Erases == /\ Ends
          /\ \E c \in {"J", "K"} : Does(erase(scr, c, par[0]))
          /\ UNCHANGED rep
Region == /\ Ends
          /\ Does(SetRegion(scr, LessOne(par[0]), IF par[1] = 0 THEN LINES ELSE par[1]))
          /\ UNCHANGED rep
Saves == Ends /\ SaveCur /\ UNCHANGED rep
Restores == Ends /\ RestoreCur /\ UNCHANGED rep
Unknown == Ends /\ Does(scr) /\ UNCHANGED rep

(* csi_at(), csi_P(), csi_L() and csi_M(): so many rounds. *)
Limit(op) == IF op \in {"@", "P"} THEN COLUMNS ELSE LINES
Starts(op) ==
    /\ Ends /\ Does(scr)
    /\ rep' = [op |-> op, n |-> IF par[0] > Limit(op) THEN Limit(op) ELSE AtLeast1(par[0])]
Round ==
    /\ ~Ready /\ rep' = [rep EXCEPT !.n = @ - 1]
    /\ \/ rep.op = "@" /\ Does(insert_char(scr))
       \/ rep.op = "P" /\ Does(delete_char(scr))
       \/ rep.op = "L" /\ Does(insert_line(scr))
       \/ rep.op = "M" /\ Does(delete_line(scr))
    /\ UNCHANGED <<state, par, npar>>

Next ==
    \/ Text \/ Escape \/ Bracket \/ Short \/ Question \/ Semicolon
    \/ \E d \in Digits : Digit(d)
    \/ Moves \/ Erases \/ Region \/ Saves \/ Restores \/ Unknown
    \/ \E op \in Loops : Starts(op)
    \/ Round

Spec == Init /\ [][Next]_vars

-----------------------------------------------------------------------------
(* Properties *)

(* pos, which is only ever moved by what x and y are moved by, is the      *)
(* address of the cursor; the window has the size of the screen and is     *)
(* inside the memory; so is the cursor, unless it is behind the last cell  *)
(* of the last row, where nothing is written (gotoxy, scrup, lf, ri, the   *)
(* wrap and the tab of con_write, restore_cur).                            *)
InWindow(s) ==
    /\ 0 <= s.origin /\ s.scr_end = s.origin + LINES * COLUMNS
    /\ s.scr_end <= SCREEN_END
    /\ s.x \in 0..COLUMNS /\ s.y \in 0..LINES - 1
    /\ s.pos = s.origin + s.y * COLUMNS + s.x
    /\ 0 <= s.top /\ s.top < s.bottom /\ s.bottom <= LINES
CursorInWindow == InWindow(scr)

(* What the window shows is what a screen without a window would show: no  *)
(* scroll, copy or erase touches a cell it should not, wherever the window *)
(* is (scrup, scrdown, csi_J, csi_K, insert_char, delete_char,             *)
(* insert_line, delete_line).                                              *)
Grid(s) == [r \in 0..LINES - 1 |-> [k \in 0..COLUMNS - 1 |->
               s.mem[s.origin + COLUMNS * r + k]]]
Shown == INSTANCE Screen WITH
            grid <- Grid(scr), cursor <- [x |-> scr.x, y |-> scr.y],
            region <- [top |-> scr.top, bottom |-> scr.bottom]
ShowsTheScreen == Shown!Spec
=============================================================================
