--------------------------- MODULE TextModeProofs ---------------------------
(***************************************************************************)
(* Theorems about TextMode, for a video, a region and terminals of any     *)
(* size.                                                                   *)
(***************************************************************************)
EXTENDS TextMode, TLAPS

\* A terminal has a first cell.
LEMMA HomeIsThere ==
  ASSUME terminal \in Terminals
  PROVE  /\ terminal.rows \in Nat \ {0} /\ terminal.columns \in Nat \ {0}
         /\ Home \in Cells
<1>1. terminal.rows \in Nat \ {0} /\ terminal.columns \in Nat \ {0}
  BY TextModeAssumption
<1>2. 0 \in 0 .. terminal.rows - 1 /\ 0 \in 0 .. terminal.columns - 1
  BY <1>1
<1> QED
  BY <1>1, <1>2 DEF Home, Cells

\* A cell is a row and a column of the terminal.
LEMMA CellFields ==
  ASSUME NEW c \in Cells
  PROVE  /\ c.row \in 0 .. terminal.rows - 1
         /\ c.column \in 0 .. terminal.columns - 1
         /\ c = [row |-> c.row, column |-> c.column]
BY DEF Cells

\* A move leads to a cell.
LEMMA MovedIsCell ==
  ASSUME NEW place, NEW at \in Cells
  PROVE  Moved(place, at) \in Cells
BY DEF Moved

\* So does a step of the cursor.
LEMMA AdvancedIsCell ==
  ASSUME terminal \in Terminals, NEW at \in Cells
  PROVE  Advanced(at) \in Cells
<1>1. /\ terminal.rows \in Nat \ {0} /\ terminal.columns \in Nat \ {0}
  BY HomeIsThere
<1>2. /\ at.row \in 0 .. terminal.rows - 1
      /\ at.column \in 0 .. terminal.columns - 1
      /\ at = [row |-> at.row, column |-> at.column]
  BY CellFields
<1>3. CASE at.column + 1 < terminal.columns
  <2>1. [at EXCEPT !.column = @ + 1] = [row |-> at.row, column |-> at.column + 1]
    BY <1>2
  <2>2. at.column + 1 \in 0 .. terminal.columns - 1
    BY <1>1, <1>2, <1>3
  <2> QED
    BY <1>2, <1>3, <2>1, <2>2 DEF Advanced, Cells
<1>4. CASE ~ (at.column + 1 < terminal.columns) /\ at.row + 1 < terminal.rows
  <2>1. at.row + 1 \in 0 .. terminal.rows - 1 /\ 0 \in 0 .. terminal.columns - 1
    BY <1>1, <1>2, <1>4
  <2> QED
    BY <1>4, <2>1 DEF Advanced, Cells
<1>5. CASE ~ (at.column + 1 < terminal.columns) /\ ~ (at.row + 1 < terminal.rows)
  BY <1>5 DEF Advanced
<1> QED
  BY <1>3, <1>4, <1>5

-----------------------------------------------------------------------------

\* Drawing keeps the types of what it changes.
LEMMA DrawTyped ==
  ASSUME terminal \in Terminals, cells \in [Cells -> Content], cursor \in Cells,
         UNCHANGED terminal,
         NEW a, NEW byte \in Content, Draw(a, byte)
  PROVE  cells' \in [Cells -> Content]' /\ cursor' \in Cells'
<1> DEFINE at == Moved(PlaceOf(a), cursor)
<1>1. at \in Cells
  BY MovedIsCell
<1>2. Advanced(at) \in Cells
  BY <1>1, AdvancedIsCell
<1>3. Cells' = Cells
  BY DEF Cells
<1>4. /\ cells' = IF byte = Blank THEN cells ELSE [cells EXCEPT ![at] = byte]
      /\ cursor' = IF byte = Blank THEN cursor ELSE Advanced(at)
  BY DEF Draw
<1> HIDE DEF at
<1> QED
  BY <1>1, <1>2, <1>3, <1>4

\* Every variable keeps its type.
THEOREM TypeCorrect == Spec => []TypeOK
<1>1. Init => TypeOK
  <2> SUFFICES ASSUME Init PROVE TypeOK
    OBVIOUS
  <2>1. terminal \in Terminals
    BY DEF Init
  <2>2. bytes \in [Region -> Content]
    BY DEF Init, Content
  <2>3. cells \in [Cells -> Content]
    BY DEF Init, Clear, Content
  <2>4. cursor \in Cells
    BY <2>1, HomeIsThere DEF Init
  <2>5. next \in 0 .. Rows * Columns
    <3>1. Rows * Columns \in Nat
      BY TextModeAssumption
    <3> QED
      BY <3>1 DEF Init
  <2>6. /\ taken \in BOOLEAN /\ refreshing \in BOOLEAN
        /\ screen \in [Cells -> Content] \cup {Shell}
    BY DEF Init
  <2> QED
    BY <2>1, <2>2, <2>3, <2>4, <2>5, <2>6 DEF TypeOK
<1>2. TypeOK /\ [Next]_vars => TypeOK'
  <2> SUFFICES ASSUME TypeOK, [Next]_vars PROVE TypeOK'
    OBVIOUS
  <2> USE DEF TypeOK
  <2>0. UNCHANGED terminal => Cells' = Cells
    BY DEF Cells
  <2>n. Rows * Columns \in Nat
    BY TextModeAssumption
  <2>1. ASSUME NEW a \in Region, NEW byte \in Content, Store(a, byte) PROVE TypeOK'
    <3>1. cells' \in [Cells -> Content]' /\ cursor' \in Cells'
      BY <2>1, DrawTyped DEF Store
    <3>2. bytes' \in [Region -> Content]
      BY <2>1 DEF Store
    <3> QED
      BY <2>1, <3>1, <3>2 DEF Store
  <2>2. ASSUME NEW a \in Region, NEW byte \in Content, LoadByte(a, byte) PROVE TypeOK'
    BY <2>2, <2>0 DEF LoadByte
  <2>3. CASE ResetMemory
    <3>1. bytes' \in [Region -> Content]
      BY <2>3 DEF ResetMemory, Content
    <3> QED
      BY <2>3, <2>0, <3>1 DEF ResetMemory
  <2>4. CASE StartRefresh
    BY <2>4, <2>0, <2>n DEF StartRefresh
  <2>5. CASE RefreshCharacter
    <3>1. next \in Region /\ next' \in 0 .. Rows * Columns
      BY <2>5, <2>n, TextModeAssumption DEF RefreshCharacter, Characters, Region
    <3>2. bytes[next] \in Content
      BY <3>1
    <3>3. cells' \in [Cells -> Content]' /\ cursor' \in Cells'
      BY <2>5, <3>2, DrawTyped DEF RefreshCharacter
    <3> QED
      BY <2>5, <2>0, <3>1, <3>3 DEF RefreshCharacter
  <2>6. CASE EndRefresh
    BY <2>6, <2>0 DEF EndRefresh
  <2>7. CASE RestVideo
    BY <2>7, <2>0 DEF RestVideo
  <2>8. CASE UNCHANGED vars
    BY <2>8, <2>0 DEF vars
  <2> QED
    BY <2>1, <2>2, <2>3, <2>4, <2>5, <2>6, <2>7, <2>8 DEF Next
<1> QED
  BY <1>1, <1>2, PTL DEF Spec

-----------------------------------------------------------------------------
(* Places *)

\* A number is what its quotient and its remainder make of it.
LEMMA Division ==
  ASSUME NEW n \in Nat, NEW d \in Nat \ {0}
  PROVE  /\ n \div d \in Nat /\ n % d \in 0 .. d - 1
         /\ n = d * (n \div d) + (n % d)
OBVIOUS

\* Two addresses have two places.
LEMMA PlacesDiffer ==
  ASSUME NEW a \in Nat, NEW b \in Nat, PlaceOf(a) = PlaceOf(b)
  PROVE  a = b
<1>1. a \div Columns = b \div Columns /\ a % Columns = b % Columns
  BY DEF PlaceOf
<1>2. a = Columns * (a \div Columns) + (a % Columns)
  BY Division, TextModeAssumption
<1>3. b = Columns * (b \div Columns) + (b % Columns)
  BY Division, TextModeAssumption
<1> QED
  BY <1>1, <1>2, <1>3

\* A number below a product has a quotient below its factor.
LEMMA QuotientBelow ==
  ASSUME NEW n \in Nat, NEW d \in Nat \ {0}, NEW q \in Nat, n < q * d
  PROVE  n \div d < q
<1>1. /\ n \div d \in Nat /\ n % d \in 0 .. d - 1
      /\ n = d * (n \div d) + (n % d)
  BY Division
<1> DEFINE k == n \div d
<1>2. SUFFICES ASSUME k >= q PROVE FALSE
  BY <1>1
<1>3. k \in Nat /\ d * k <= n
  <2>1. d * k \in Nat
    BY <1>1
  <2> QED
    BY <1>1, <2>1
<1> HIDE DEF k
<1>4. d * k >= d * q
  BY <1>2, <1>3
<1>5. d * q = q * d
  OBVIOUS
<1>6. d * k \in Nat /\ d * q \in Nat
  BY <1>3
<1> QED
  BY <1>3, <1>4, <1>5, <1>6

\* The place of an address above the last row of the terminal is one of its cells.
LEMMA PlaceIsCell ==
  ASSUME terminal \in Terminals, terminal.columns >= Columns,
         NEW a \in Nat, a < terminal.rows * Columns
  PROVE  PlaceOf(a) \in Cells
<1>1. terminal.rows \in Nat \ {0} /\ terminal.columns \in Nat \ {0} /\ Columns \in Nat \ {0}
  BY HomeIsThere, TextModeAssumption
<1>2. a \div Columns < terminal.rows
  BY <1>1, QuotientBelow
<1>3. a \div Columns \in Nat /\ a % Columns \in 0 .. Columns - 1
  BY <1>1, Division
<1>4. a \div Columns \in 0 .. terminal.rows - 1 /\ a % Columns \in 0 .. terminal.columns - 1
  BY <1>1, <1>2, <1>3
<1> QED
  BY <1>4 DEF PlaceOf, Cells

\* What is shown for an address is in the cell at its place, before and after a step.
LEMMA ShownIsCell ==
  ASSUME NEW b
  PROVE  Shown(b) = cells[PlaceOf(b)] /\ Shown(b)' = cells'[PlaceOf(b)]
BY DEF Shown, PlaceOf

\* Where a place is on the terminal, drawing changes what is shown at that place, to what
\* is drawn, and at no other.
LEMMA DrawnAtPlace ==
  ASSUME terminal \in Terminals, cells \in [Cells -> Content],
         NEW a \in Nat, PlaceOf(a) \in Cells,
         NEW byte, Draw(a, byte)
  PROVE  /\ byte # Blank => cells'[PlaceOf(a)] = byte
         /\ \A b \in Nat : Shown(b)' # Shown(b) => b = a /\ byte # Blank
<1>1. Moved(PlaceOf(a), cursor) = PlaceOf(a)
  BY DEF Moved
<1>2. cells' = IF byte = Blank THEN cells ELSE [cells EXCEPT ![PlaceOf(a)] = byte]
  BY <1>1 DEF Draw
<1>3. \A b \in Nat : b # a => PlaceOf(b) # PlaceOf(a)
  BY PlacesDiffer
<1>4. \A b \in Nat : Shown(b) = cells[PlaceOf(b)] /\ Shown(b)' = cells'[PlaceOf(b)]
  BY ShownIsCell
<1>5. CASE byte = Blank
  BY <1>2, <1>4, <1>5
<1>6. CASE byte # Blank
  <2>1. cells' = [cells EXCEPT ![PlaceOf(a)] = byte]
    BY <1>2, <1>6
  <2>2. cells'[PlaceOf(a)] = byte
    BY <2>1
  <2>3. \A b \in Nat : b # a => cells'[PlaceOf(b)] = cells[PlaceOf(b)]
    BY <2>1, <1>3
  <2> QED
    BY <1>4, <1>6, <2>2, <2>3
<1> QED
  BY <1>5, <1>6

-----------------------------------------------------------------------------
(* What the terminal shows *)

RefreshHasScreen == refreshing => taken

\* While the host has the terminal it shows the window: a refresh, which leaves it as it
\* was until its end, has taken it at its start.
THEOREM VideoIsShown == Spec => []ScreenShowsVideo
<1> DEFINE Inv == RefreshHasScreen /\ ScreenShowsVideo
<1>1. Init => Inv
  BY DEF Init, RefreshHasScreen, ScreenShowsVideo
<1>2. Inv /\ [Next]_vars => Inv'
  <2> SUFFICES ASSUME Inv, [Next]_vars PROVE Inv'
    OBVIOUS
  <2> USE DEF RefreshHasScreen, ScreenShowsVideo
  <2>1. ASSUME NEW a \in Region, NEW byte \in Content, Store(a, byte) PROVE Inv'
    BY <2>1 DEF Store
  <2>2. ASSUME NEW a \in Region, NEW byte \in Content, LoadByte(a, byte) PROVE Inv'
    BY <2>2 DEF LoadByte
  <2>3. CASE ResetMemory
    BY <2>3 DEF ResetMemory
  <2>4. CASE StartRefresh
    BY <2>4 DEF StartRefresh
  <2>5. CASE RefreshCharacter
    BY <2>5 DEF RefreshCharacter
  <2>6. CASE EndRefresh
    BY <2>6 DEF EndRefresh
  <2>7. CASE RestVideo
    BY <2>7 DEF RestVideo
  <2>8. CASE UNCHANGED vars
    BY <2>8 DEF vars
  <2> QED
    BY <2>1, <2>2, <2>3, <2>4, <2>5, <2>6, <2>7, <2>8 DEF Next
<1> QED
  BY <1>1, <1>2, PTL DEF Spec

-----------------------------------------------------------------------------
(* What the places show *)

\* The addresses of the video have cells on a terminal that is large enough for it.
LEMMA CharactersAreCells ==
  ASSUME terminal \in Terminals, ShowsCharacters, NEW a \in Characters
  PROVE  a \in Nat /\ PlaceOf(a) \in Cells
<1>1. /\ terminal.rows \in Nat /\ terminal.columns \in Nat
      /\ Rows \in Nat /\ Columns \in Nat /\ Rows * Columns \in Nat
  BY HomeIsThere, TextModeAssumption
<1>2. a \in Nat /\ a < Rows * Columns
  BY <1>1 DEF Characters
<1>3. Rows * Columns <= terminal.rows * Columns
  BY <1>1 DEF ShowsCharacters
<1>4. terminal.rows * Columns \in Nat
  BY <1>1
<1>5. a < terminal.rows * Columns
  BY <1>1, <1>2, <1>3, <1>4
<1>6. terminal.columns >= Columns
  BY DEF ShowsCharacters
<1> QED
  BY <1>2, <1>5, <1>6, PlaceIsCell

\* A refresh has drawn every character up to the one it is at: what is drawn later goes
\* elsewhere, and memory stays as it is meanwhile.
THEOREM RefreshIsComplete == Spec => []RefreshShowsAll
<1>1. Init => RefreshShowsAll
  BY DEF Init, RefreshShowsAll
<1>2. TypeOK /\ RefreshShowsAll /\ [Next]_vars => RefreshShowsAll'
  <2> SUFFICES ASSUME TypeOK, RefreshShowsAll, [Next]_vars PROVE RefreshShowsAll'
    OBVIOUS
  <2>1. ASSUME NEW a \in Region, NEW byte \in Content, Store(a, byte) \/ LoadByte(a, byte)
        PROVE  RefreshShowsAll'
    BY <2>1 DEF Store, LoadByte, RefreshShowsAll
  <2>2. CASE ResetMemory \/ EndRefresh \/ RestVideo
    BY <2>2 DEF ResetMemory, EndRefresh, RestVideo, RefreshShowsAll
  <2>3. CASE StartRefresh
    BY <2>3 DEF StartRefresh, RefreshShowsAll
  <2>4. CASE RefreshCharacter
    <3> SUFFICES ASSUME ShowsCharacters', NEW a \in 0 .. next' - 1, bytes'[a] # Blank
                 PROVE  Shown(a)' = bytes'[a]
      BY DEF RefreshShowsAll
    <3>1. /\ refreshing /\ next \in Characters /\ next' = next + 1
          /\ Draw(next, bytes[next]) /\ bytes' = bytes /\ ShowsCharacters
      BY <2>4 DEF RefreshCharacter, ShowsCharacters
    <3>2. terminal \in Terminals /\ cells \in [Cells -> Content]
      BY DEF TypeOK
    <3>3. next \in Nat /\ PlaceOf(next) \in Cells
      BY <3>1, <3>2, CharactersAreCells
    <3>4. /\ bytes[next] # Blank => cells'[PlaceOf(next)] = bytes[next]
          /\ \A b \in Nat : Shown(b)' # Shown(b) => b = next /\ bytes[next] # Blank
      BY <3>1, <3>2, <3>3, DrawnAtPlace
    <3>5. CASE a = next
      <4>1. Shown(a)' = cells'[PlaceOf(a)]
        BY ShownIsCell
      <4> QED
        BY <3>1, <3>4, <3>5, <4>1
    <3>6. CASE a # next
      <4>1. a \in 0 .. next - 1 /\ a \in Nat
        BY <3>1, <3>3, <3>6
      <4>2. Shown(a) = bytes[a]
        BY <3>1, <4>1 DEF RefreshShowsAll
      <4> QED
        BY <3>1, <3>4, <3>6, <4>1, <4>2
    <3> QED
      BY <3>5, <3>6
  <2>5. CASE UNCHANGED vars
    BY <2>5 DEF vars, RefreshShowsAll, Shown, ShowsCharacters, PlaceOf
  <2> QED
    BY <2>1, <2>2, <2>3, <2>4, <2>5 DEF Next
<1> QED
  BY <1>1, <1>2, TypeCorrect, PTL DEF Spec

\* What comes to be shown at a place is the byte of its address: a store is drawn at its
\* own place, that of an attribute below the characters.
THEOREM PlacesAreTrue == Spec => PlacesShowTheirBytes
<1> DEFINE A == ShowsRegion =>
                  \A a \in Characters : Shown(a)' # Shown(a) => Shown(a)' = bytes'[a]
<1>1. TypeOK /\ [Next]_vars => [A]_vars
  <2> SUFFICES ASSUME TypeOK, [Next]_vars, ShowsRegion, NEW a \in Characters,
                      Shown(a)' # Shown(a)
               PROVE  Shown(a)' = bytes'[a]
    OBVIOUS
  <2>0. terminal \in Terminals /\ cells \in [Cells -> Content] /\ ShowsCharacters
    BY DEF TypeOK, ShowsRegion
  <2>n. a \in Nat /\ PlaceOf(a) \in Cells
    BY <2>0, CharactersAreCells
  <2>1. ASSUME NEW b \in Region, NEW byte \in Content, Store(b, byte)
        PROVE  Shown(a)' = bytes'[a]
    <3>1. b \in Nat /\ b < RegionSize /\ RegionSize \in Nat
      BY TextModeAssumption DEF Region
    <3>2. RegionSize <= terminal.rows * Columns /\ terminal.columns >= Columns
      BY DEF ShowsRegion, ShowsCharacters
    <3>3. terminal.rows * Columns \in Nat
      BY <2>0, HomeIsThere, TextModeAssumption
    <3>4. b < terminal.rows * Columns
      BY <3>1, <3>2, <3>3
    <3>5. PlaceOf(b) \in Cells
      BY <2>0, <3>1, <3>2, <3>4, PlaceIsCell
    <3>6. /\ byte # Blank => cells'[PlaceOf(b)] = byte
          /\ \A c \in Nat : Shown(c)' # Shown(c) => c = b /\ byte # Blank
      BY <2>0, <2>1, <3>1, <3>5, DrawnAtPlace DEF Store
    <3>7. a = b /\ Shown(a)' = byte
      BY <2>n, <3>6, ShownIsCell
    <3>8. bytes' = [bytes EXCEPT ![b] = byte] /\ bytes \in [Region -> Content]
      BY <2>1 DEF Store, TypeOK
    <3> QED
      BY <3>7, <3>8
  <2>2. CASE RefreshCharacter
    <3>1. /\ next \in Characters /\ Draw(next, bytes[next]) /\ bytes' = bytes
      BY <2>2 DEF RefreshCharacter
    <3>2. next \in Nat /\ PlaceOf(next) \in Cells
      BY <2>0, <3>1, CharactersAreCells
    <3>3. /\ bytes[next] # Blank => cells'[PlaceOf(next)] = bytes[next]
          /\ \A c \in Nat : Shown(c)' # Shown(c) => c = next /\ bytes[next] # Blank
      BY <2>0, <3>1, <3>2, DrawnAtPlace
    <3> QED
      BY <2>n, <3>1, <3>3, ShownIsCell
  <2>3. cells' = cells => FALSE
    BY DEF Shown, PlaceOf
  <2>4. ASSUME NEW b \in Region, NEW byte \in Content, LoadByte(b, byte) PROVE FALSE
    BY <2>3, <2>4 DEF LoadByte
  <2>5. CASE ResetMemory \/ StartRefresh \/ EndRefresh \/ RestVideo \/ UNCHANGED vars
    BY <2>3, <2>5 DEF ResetMemory, StartRefresh, EndRefresh, RestVideo, vars
  <2> QED
    BY <2>1, <2>2, <2>4, <2>5 DEF Next
<1>2. [][A]_vars <=> PlacesShowTheirBytes
  BY PTL DEF PlacesShowTheirBytes
<1> QED
  BY <1>1, <1>2, TypeCorrect, PTL DEF Spec

=============================================================================
