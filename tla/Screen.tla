------------------------------- MODULE Screen -------------------------------
(***************************************************************************)
(* What a VT100-like console promises to show: a grid of cells, a cursor,  *)
(* and a region of rows that scrolls.  There is no video memory here, no   *)
(* window that slides over it, no address of the cursor, and a control     *)
(* sequence is one step.  Console.tla implements this.                     *)
(*                                                                         *)
(* A cursor in column COLUMNS is behind the last cell of its row: the next *)
(* character goes to the next row.                                         *)
(***************************************************************************)
EXTENDS Integers

CONSTANTS LINES, COLUMNS, TAB, Glyphs, Blank

VARIABLES grid,   \* grid[r][k]: what is shown in column k of row r
          cursor, \* its row y and column x
          saved,  \* the cursor that "restore" goes back to
          region  \* the rows top to bottom - 1 scroll

vars == <<grid, cursor, saved, region>>

Rows == 0..LINES - 1
Columns == 0..COLUMNS - 1
Places == [x : 0..COLUMNS, y : Rows]
Regions == {r \in [top : Rows, bottom : 1..LINES] : r.top < r.bottom}
BlankRow == [k \in Columns |-> Blank]

Init == /\ grid \in [Rows -> [Columns -> Glyphs]]
        /\ cursor \in [x : Columns, y : Rows]
        /\ saved = [x |-> 0, y |-> 0]
        /\ region = [top |-> 0, bottom |-> LINES]

(* The rows from t to b - 1 move by one; one is lost, one is new. *)
Up(g, t, b) == [r \in Rows |-> IF r \in t..b - 2 THEN g[r + 1]
                               ELSE IF r = b - 1 THEN BlankRow ELSE g[r]]
Down(g, t, b) == [r \in Rows |-> IF r \in t + 1..b - 1 THEN g[r - 1]
                                 ELSE IF r = t THEN BlankRow ELSE g[r]]

(* A line feed from row y: the next row, or at the end of the region, and  *)
(* from everywhere below it but where there is a next row, a scroll.       *)
AtEnd(y) == y + 1 >= region.bottom
FedRow(y) == IF AtEnd(y) THEN y ELSE y + 1
FedGrid(y) == IF AtEnd(y) THEN Up(grid, region.top, region.bottom) ELSE grid

LineFeed == /\ grid' = FedGrid(cursor.y)
            /\ cursor' = [cursor EXCEPT !.y = FedRow(@)]
            /\ UNCHANGED <<saved, region>>

ReverseFeed ==
    /\ IF cursor.y > region.top
       THEN cursor' = [cursor EXCEPT !.y = @ - 1] /\ UNCHANGED grid
       ELSE grid' = Down(grid, region.top, region.bottom) /\ UNCHANGED cursor
    /\ UNCHANGED <<saved, region>>

(* A character is shown under the cursor, which moves on. *)
Put(c) ==
    /\ LET wraps == cursor.x = COLUMNS
           k == IF wraps THEN 0 ELSE cursor.x
           r == IF wraps THEN FedRow(cursor.y) ELSE cursor.y
       IN /\ grid' = [(IF wraps THEN FedGrid(cursor.y) ELSE grid)
                         EXCEPT ![r][k] = c]
          /\ cursor' = [x |-> k + 1, y |-> r]
    /\ UNCHANGED <<saved, region>>

(* The next multiple of TAB; from behind the last cell it is the first one *)
(* of the next row.                                                        *)
Stops == {i * TAB : i \in 1..COLUMNS}
Tabulate ==
    /\ IF cursor.x < COLUMNS
       THEN /\ \E x \in Stops : /\ cursor.x < x /\ x <= cursor.x + TAB /\ x <= COLUMNS
                                /\ cursor' = [cursor EXCEPT !.x = x]
            /\ UNCHANGED grid
       ELSE /\ grid' = FedGrid(cursor.y)
            /\ cursor' = [x |-> TAB, y |-> FedRow(cursor.y)]
    /\ UNCHANGED <<saved, region>>

(* The cursor goes anywhere; what is shown stays. *)
Move == /\ cursor' \in Places
        /\ UNCHANGED <<grid, saved, region>>
Save == saved' = cursor /\ UNCHANGED <<grid, cursor, region>>
Restore == cursor' = saved /\ UNCHANGED <<grid, saved, region>>
SetRegion == region' \in Regions /\ UNCHANGED <<grid, cursor, saved>>

(* The cell before the cursor is erased. *)
Delete == /\ cursor.x > 0
          /\ grid' = [grid EXCEPT ![cursor.y][cursor.x - 1] = Blank]
          /\ cursor' = [cursor EXCEPT !.x = @ - 1]
          /\ UNCHANGED <<saved, region>>

(* Cells that are erased: before or after the cursor, or all, of the row   *)
(* or of the whole screen.                                                 *)
Cells == Rows \X Columns
Row == {cursor.y} \X Columns
Before == {c \in Cells : c[1] < cursor.y \/ (c[1] = cursor.y /\ c[2] < cursor.x)}
Erase(cells) ==
    /\ grid' = [r \in Rows |-> [k \in Columns |-> IF <<r, k>> \in cells THEN Blank
                                                 ELSE grid[r][k]]]
    /\ UNCHANGED <<cursor, saved, region>>
EraseScreen == Erase(Before) \/ Erase(Cells \ Before) \/ Erase(Cells)
EraseRow == Erase(Row \cap Before) \/ Erase(Row \ Before) \/ Erase(Row)

(* The cells of the row, or the rows, from the cursor on move by one. *)
NewRow(row) == /\ grid' = [grid EXCEPT ![cursor.y] = row]
               /\ UNCHANGED <<cursor, saved, region>>
InsertCell == NewRow([k \in Columns |-> IF k < cursor.x THEN grid[cursor.y][k]
                                       ELSE IF k = cursor.x THEN Blank
                                       ELSE grid[cursor.y][k - 1]])
DeleteCell == NewRow([k \in Columns |-> IF k < cursor.x THEN grid[cursor.y][k]
                                       ELSE IF k = COLUMNS - 1 THEN Blank
                                       ELSE grid[cursor.y][k + 1]])
InsertRow == /\ grid' = Down(grid, cursor.y, LINES)
             /\ UNCHANGED <<cursor, saved, region>>
DeleteRow == /\ grid' = Up(grid, cursor.y, LINES)
             /\ UNCHANGED <<cursor, saved, region>>

Next == \/ LineFeed \/ ReverseFeed \/ Tabulate \/ Move \/ Save \/ Restore
        \/ SetRegion \/ Delete \/ EraseScreen \/ EraseRow
        \/ InsertCell \/ DeleteCell \/ InsertRow \/ DeleteRow
        \/ \E c \in Glyphs : Put(c)

Spec == Init /\ [][Next]_vars
=============================================================================
