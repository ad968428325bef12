----------------------------- MODULE SymbolTable -----------------------------
(***************************************************************************)
(* The linked list of as6502/symbols.c as a sequence of symbols, longest   *)
(* name first. A name is an atom; only its length and, for the parser, its *)
(* look are known of it.                                                   *)
(***************************************************************************)
EXTENDS Integers, Sequences

CONSTANTS
  Name,        \* the symbol names of a source, mnemonics and A, X, Y excluded
  NameLength   \* strlen of a name

ASSUME NameAssumption == NameLength \in [Name -> Nat]

WordCount == 65536
Word == 0 .. WordCount - 1

\* as6502_symbol; the unlinked types are never made
SymbolType == {"label", "variable"}
Symbol == [name : Name, address : Word, type : SymbolType, line : Nat]

\* as6502_symbolForString, the index of what it returns: the first match
IsNamed(table, name) == \E i \in DOMAIN table : table[i].name = name
SymbolForString(table, name) ==
  CHOOSE i \in DOMAIN table :
    table[i].name = name /\ \A j \in 1 .. i - 1 : table[j].name # name

\* The address behind a name that is in the table
AddressOf(table, name) == table[SymbolForString(table, name)].address

\* Mutant: a second declaration is taken whatever its address
NeverConflicts(table, symbol) == FALSE

\* A second declaration of a name is an error unless it says the same
Conflicts(table, symbol) ==
  IsNamed(table, symbol.name) /\ AddressOf(table, symbol.name) # symbol.address

\* Mutant: it goes before the names that are as long
BeforeEquals(table, symbol) ==
  LET notLonger(i) == NameLength[table[i].name] <= NameLength[symbol.name]
  IN  IF \E i \in DOMAIN table : notLonger(i)
      THEN (CHOOSE i \in DOMAIN table : notLonger(i) /\ \A j \in 1 .. i - 1 : ~ notLonger(j)) - 1
      ELSE Len(table)

\* The entries a new symbol goes behind: all up to the first shorter name
Before(table, symbol) ==
  LET shorter(i) == NameLength[table[i].name] < NameLength[symbol.name]
  IN  IF \E i \in DOMAIN table : shorter(i)
      THEN (CHOOSE i \in DOMAIN table : shorter(i) /\ \A j \in 1 .. i - 1 : ~ shorter(j)) - 1
      ELSE Len(table)

Inserted(table, symbol) ==
  LET n == Before(table, symbol)
  IN  SubSeq(table, 1, n) \o <<symbol>> \o SubSeq(table, n + 1, Len(table))

\* as6502_addSymbolToTable: the same declaration twice is listed twice
AddSymbol(table, symbol) ==
  IF Conflicts(table, symbol) THEN table ELSE Inserted(table, symbol)

-----------------------------------------------------------------------------
(* The script for the debugger: its label and var commands *)

\* as6502_printSymbolScript: a command a symbol, in the order of the table
SymbolScript(table) ==
  [i \in DOMAIN table |->
     [command |-> table[i].type, name |-> table[i].name, value |-> table[i].address]]

\* What the debugger adds for a command
MadeSymbol(command) ==
  [name |-> command.name, address |-> command.value, type |-> command.command, line |-> 0]

\* v6502_runDebuggerScript on such a script, when the debugger has no symbols
Loaded(script) ==
  LET after[n \in 0 .. Len(script)] ==
        IF n = 0 THEN <<>> ELSE AddSymbol(after[n - 1], MadeSymbol(script[n]))
  IN  after[Len(script)]

-----------------------------------------------------------------------------
(* What the table keeps *)

Ordered(table) ==
  \A i, j \in DOMAIN table :
    i < j => NameLength[table[i].name] >= NameLength[table[j].name]

OneAddress(table) ==
  \A i, j \in DOMAIN table :
    table[i].name = table[j].name => table[i].address = table[j].address

=============================================================================
