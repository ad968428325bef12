---------------------------- MODULE MCMemoryMap ----------------------------
(***************************************************************************)
(* Small instances of MemoryMap: a handful of addresses, a device that     *)
(* only reads, one that only writes (as textmode.c maps) and one that does *)
(* both.                                                                   *)
(***************************************************************************)
EXTENDS MemoryMap

CONSTANTS r1, r2, w1, w2, c1, c2

MCDevice ==
  {[read |-> r1, write |-> NULL, context |-> NULL],
   [read |-> NULL, write |-> w1, context |-> c1],
   [read |-> r2, write |-> w2, context |-> c2]}

\* Every request, those past the end of the address space included
AnyRequest == [start : Address, size : 0 .. AddressCount + 1]

\* The same without the empty ones
SolidRequest == {q \in AnyRequest : q.size > 0}

\* The requests that stay below the last address
LowRequest == {q \in [start : Address, size : 1 .. AddressCount] : Top(q) < AddressCount}
=============================================================================
