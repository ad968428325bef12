---------------------------- MODULE BreakpointSet ----------------------------
(***************************************************************************)
(* What the breakpoint list of v6502/breakpoint.c is for: a set of         *)
(* addresses, which a user changes one address at a time.                  *)
(***************************************************************************)
CONSTANT Address

VARIABLE stops

Init == stops = {}

\* An address that is not a stop becomes one, a stop ceases to be one
Toggle(a) == stops' = IF a \in stops THEN stops \ {a} ELSE stops \cup {a}

Next == \E a \in Address : Toggle(a)

Spec == Init /\ [][Next]_stops

=============================================================================
