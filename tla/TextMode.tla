------------------------------ MODULE TextMode ------------------------------
(***************************************************************************)
(* The text mode video of v6502/textmode.c: a region of memory whose       *)
(* stores are drawn on a terminal through curses. Addresses count from     *)
(* textMode_characterMemoryStart; the characters come first, a row at a    *)
(* time, and what is mapped goes on behind them. Bytes are zero or         *)
(* characters that curses draws in one cell.                               *)
(***************************************************************************)
EXTENDS Integers

CONSTANTS
  Rows, Columns,  \* of the video, 24 and 80
  RegionSize,     \* the addresses that are mapped, 0x2000
  Character,      \* the bytes a cell may show
  Shell,          \* what is on the terminal while curses does not have it
  Blank,          \* what is in a cell that nothing was drawn in, and the byte zero
  Terminals       \* the sizes of terminals, in rows and columns

Characters == 0 .. Rows * Columns - 1
Region     == 0 .. RegionSize - 1
Content    == Character \cup {Blank}

ASSUME TextModeAssumption ==
  /\ Rows \in Nat \ {0} /\ Columns \in Nat \ {0}
  /\ RegionSize \in Nat /\ Rows * Columns <= RegionSize
  /\ Blank \notin Character
  /\ Terminals \subseteq [rows : Nat \ {0}, columns : Nat \ {0}]

VARIABLES
  terminal,    \* the size of the terminal
  bytes,       \* the bytes of the region
  taken,       \* vid->screen is not NULL
  cells,       \* what the window of curses holds in each row and column
  cursor,      \* where curses puts the next character
  screen,      \* what the terminal shows: the cells of a window, or Shell
  refreshing,  \* textMode_refreshVideo is running
  next         \* and this is the address it is at

vars == <<terminal, bytes, taken, cells, cursor, screen, refreshing, next>>

-----------------------------------------------------------------------------
(* curses: initscr makes one window, a second call returns it as it is; wrefresh shows *)
(* it, and after endwin shows all of it again                                          *)

Cells == [row : 0 .. terminal.rows - 1, column : 0 .. terminal.columns - 1]
Home  == [row |-> 0, column |-> 0]
Clear == [c \in Cells |-> Blank]

\* wmove: a place that is not on the screen leaves the cursor alone
Moved(place, at) == IF place \in Cells THEN place ELSE at

\* Mutant: on the last cell the cursor goes on
Runaway(at) ==
  IF at.column + 1 < terminal.columns THEN [at EXCEPT !.column = @ + 1]
  ELSE [row |-> at.row + 1, column |-> 0]

\* waddch puts the cursor on the next cell, and leaves it on the last one
Advanced(at) ==
  IF at.column + 1 < terminal.columns THEN [at EXCEPT !.column = @ + 1]
  ELSE IF at.row + 1 < terminal.rows THEN [row |-> at.row + 1, column |-> 0]
  ELSE at

-----------------------------------------------------------------------------

\* The place of an address
PlaceOf(a) == [row |-> a \div Columns, column |-> a % Columns]

\* Mutant: the cursor is not moved
Unmoved(a, byte) ==
  /\ cells'  = IF byte = Blank THEN cells ELSE [cells EXCEPT ![cursor] = byte]
  /\ cursor' = IF byte = Blank THEN cursor ELSE Advanced(cursor)

\* textMode_updateOffset and textMode_updateCharacter: zero is not drawn
Draw(a, byte) ==
  LET at == Moved(PlaceOf(a), cursor) IN
  /\ cells'  = IF byte = Blank THEN cells ELSE [cells EXCEPT ![at] = byte]
  /\ cursor' = IF byte = Blank THEN cursor ELSE Advanced(at)

Init ==
  /\ terminal \in Terminals
  /\ bytes \in [Region -> {Blank}]
  /\ taken = FALSE
  /\ cells = Clear
  /\ cursor = Home
  /\ screen = Shell
  /\ refreshing = FALSE
  /\ next = 0

\* A store that goes through the memory map: textMode_write
Store(a, byte) ==
  /\ ~ refreshing
  /\ bytes' = [bytes EXCEPT ![a] = byte]
  /\ taken' = TRUE
  /\ Draw(a, byte)
  /\ screen' = cells'
  /\ UNCHANGED <<terminal, refreshing, next>>

\* load writes behind the map
LoadByte(a, byte) ==
  /\ ~ refreshing
  /\ bytes' = [bytes EXCEPT ![a] = byte]
  /\ UNCHANGED <<terminal, taken, cells, cursor, screen, refreshing, next>>

\* So does mreset
ResetMemory ==
  /\ ~ refreshing
  /\ bytes' = [a \in Region |-> Blank]
  /\ UNCHANGED <<terminal, taken, cells, cursor, screen, refreshing, next>>

\* textMode_refreshVideo, from run(): it takes the terminal first
StartRefresh ==
  /\ ~ refreshing
  /\ refreshing' = TRUE
  /\ next' = 0
  /\ taken' = TRUE
  /\ UNCHANGED <<terminal, bytes, cells, cursor, screen>>

\* Mutant: the first column is left out
SkipsFirst ==
  /\ refreshing /\ next \in Characters
  /\ next' = next + 1
  /\ IF next % Columns = 0 THEN UNCHANGED <<cells, cursor>> ELSE Draw(next, bytes[next])
  /\ UNCHANGED <<terminal, bytes, taken, screen, refreshing>>

RefreshCharacter ==
  /\ refreshing /\ next \in Characters
  /\ next' = next + 1
  /\ Draw(next, bytes[next])
  /\ UNCHANGED <<terminal, bytes, taken, screen, refreshing>>

\* Mutant: the window is not shown
Unshown ==
  /\ refreshing /\ next \notin Characters
  /\ refreshing' = FALSE
  /\ UNCHANGED <<terminal, bytes, taken, cells, cursor, screen, next>>

EndRefresh ==
  /\ refreshing /\ next \notin Characters
  /\ refreshing' = FALSE
  /\ screen' = cells
  /\ UNCHANGED <<terminal, bytes, taken, cells, cursor, next>>

\* textMode_rest, and endwin: the terminal is given back
RestVideo ==
  /\ ~ refreshing
  /\ taken' = FALSE
  /\ screen' = Shell
  /\ UNCHANGED <<terminal, bytes, cells, cursor, refreshing, next>>

Next ==
  \/ \E a \in Region, byte \in Content : Store(a, byte) \/ LoadByte(a, byte)
  \/ ResetMemory \/ StartRefresh \/ RefreshCharacter \/ EndRefresh \/ RestVideo

Spec == Init /\ [][Next]_vars

-----------------------------------------------------------------------------
(* Properties *)

\* Every variable keeps its type; the cursor stays on the screen wherever stores go
\* (textmode.c 28-89).
TypeOK ==
  /\ terminal \in Terminals
  /\ bytes \in [Region -> Content]
  /\ taken \in BOOLEAN
  /\ cells \in [Cells -> Content]
  /\ cursor \in Cells
  /\ screen \in [Cells -> Content] \cup {Shell}
  /\ refreshing \in BOOLEAN
  /\ next \in 0 .. Rows * Columns

\* The terminal has a place for every address of the video, or of all that is mapped
ShowsCharacters == terminal.rows >= Rows /\ terminal.columns >= Columns
ShowsRegion == ShowsCharacters /\ terminal.rows * Columns >= RegionSize

\* What the window shows for an address
Shown(a) == cells[PlaceOf(a)]

\* No place of the video ever comes to show anything but the byte of its own address,
\* if the terminal has places for all that is mapped, attributes included, whose stores
\* are drawn like characters (textmode.c 28-50). This holds for bytes that curses draws in
\* one cell: control characters, which textmode.c:41 hands to waddch too, are left out.
PlacesShowTheirBytes ==
  [][ShowsRegion =>
       \A a \in Characters : Shown(a)' # Shown(a) => Shown(a)' = bytes'[a]]_vars

\* A refresh leaves no character of memory undrawn, whatever was loaded, stored or taken
\* down before it (textmode.c 71-92), of characters that curses draws in one cell.
RefreshShowsAll ==
  ShowsCharacters /\ refreshing =>
    \A a \in 0 .. next - 1 : bytes[a] # Blank => Shown(a) = bytes[a]

\* Whenever the host has the terminal it shows the window as it is, and the shell
\* otherwise, as textmode.h says of textMode_rest: "The video data is preserved and will
\* be redisplayed on next access" (textmode.c 45-50, 65-82).
ScreenShowsVideo == ~ refreshing => screen = IF taken THEN cells ELSE Shell

=============================================================================
