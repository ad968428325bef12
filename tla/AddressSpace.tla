---------------------------- MODULE AddressSpace ----------------------------
(***************************************************************************)
(* What the memory of v6502/mem.h promises a host: each address belongs to *)
(* at most one device, for good, and an access reaches the device that     *)
(* owns the address, if it takes that kind of access, and the byte behind  *)
(* the address otherwise. How addresses are looked up does not show.       *)
(***************************************************************************)
EXTENDS Integers

CONSTANTS Address, Backed, Device, Value, Zero, NULL, Called(_, _), Byte(_),
          Returned(_), Nothing, Stored

VARIABLES owner, bytes, result, stopped

vars == <<owner, bytes, result, stopped>>

Init ==
  /\ owner = [a \in Address |-> NULL]
  /\ bytes = [a \in Backed |-> Zero]
  /\ result = Nothing
  /\ stopped = FALSE

\* A device takes a run of addresses nobody owns
Claim(from, to, d) ==
  /\ result' = Returned(TRUE)
  /\ \A a \in from .. to : owner[a] = NULL
  /\ owner' = [a \in Address |-> IF a \in from .. to THEN d ELSE owner[a]]
  /\ UNCHANGED <<bytes, stopped>>

Refuse == result' = Returned(FALSE) /\ UNCHANGED <<owner, bytes, stopped>>

Reads(d)  == d # NULL /\ d.read # NULL
Writes(d) == d # NULL /\ d.write # NULL

Read(a) ==
  LET d == owner[a] IN
  /\ \/ Reads(d) /\ result' = Called(d.read, d.context)
     \/ ~ Reads(d) /\ a \in Backed /\ result' = Byte(bytes[a])
  /\ UNCHANGED <<owner, bytes, stopped>>

Write(a, v) ==
  LET d == owner[a] IN
  /\ \/ Writes(d) /\ result' = Called(d.write, d.context) /\ UNCHANGED bytes
     \/ /\ result' = Stored
        /\ ~ Writes(d) /\ a \in Backed
        /\ bytes' = [bytes EXCEPT ![a] = v]
  /\ UNCHANGED <<owner, stopped>>

\* The process may stop on an access, or a claim, outside the backing bytes
Stop ==
  /\ Address # Backed
  /\ stopped' = TRUE
  /\ UNCHANGED <<owner, bytes, result>>

Next ==
  /\ ~ stopped
  /\ \/ \E from, to \in Address, d \in Device : Claim(from, to, d)
     \/ Refuse
     \/ \E a \in Address : Read(a) \/ \E v \in Value : Write(a, v)
     \/ Stop

Spec == Init /\ [][Next]_vars

=============================================================================
