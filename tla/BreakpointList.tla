--------------------------- MODULE BreakpointList ---------------------------
(***************************************************************************)
(* The growable array of v6502/breakpoint.c, as a sequence of addresses.   *)
(***************************************************************************)
EXTENDS Integers, Sequences

\* v6502_breakpointIsInList
IsInList(list, address) == \E i \in DOMAIN list : list[i] = address

\* locationOfBreakpointInList: the first match (there must be one)
LocationOf(list, address) ==
  CHOOSE i \in DOMAIN list :
    list[i] = address /\ \A j \in 1 .. i - 1 : list[j] # address

\* v6502_addBreakpointToList
Added(list, address) ==
  IF IsInList(list, address) THEN list ELSE Append(list, address)

\* Mutant: the shift starts one element late
ShiftedLate(list, address) ==
  LET loc == LocationOf(list, address)
  IN  [i \in 1 .. Len(list) - 1 |-> IF i <= loc THEN list[i] ELSE list[i + 1]]

\* v6502_removeBreakpointFromList: what follows the match moves down by one
Removed(list, address) ==
  IF ~ IsInList(list, address) THEN list
  ELSE LET loc == LocationOf(list, address)
       IN  [i \in 1 .. Len(list) - 1 |-> IF i < loc THEN list[i] ELSE list[i + 1]]

\* The breakpoint command of the debugger
Toggled(list, address) ==
  IF IsInList(list, address) THEN Removed(list, address) ELSE Added(list, address)

=============================================================================
