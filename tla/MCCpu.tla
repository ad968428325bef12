------------------------------- MODULE MCCpu -------------------------------
(***************************************************************************)
(* Small instances of Cpu: every opcode on a sample of operands, registers *)
(* and flags; two recursive programs; and additions of tests/overflow.s.  *)
(* A byte nobody sets is zero, the opcode of brk.                          *)
(***************************************************************************)
EXTENDS Cpu

At == 1536  \* DEFAULT_RESET_VECTOR of v6502/main.c

Code(from, program) == [a \in from .. from + Len(program) - 1 |-> program[a - from + 1]]

With(f, g) == [a \in DOMAIN f \cup DOMAIN g |-> IF a \in DOMAIN f THEN f[a] ELSE g[a]]

Registers(ac, x, y, sp) == [ac |-> ac, x |-> x, y |-> y, sp |-> sp]

Begin(r, flags, program) ==
  [pc |-> At, reg |-> r, sr |-> flags, bytes |-> With(Code(At, program), Code(255, <<16, 3>>))]

E == Encoding

-----------------------------------------------------------------------------

Sample == {0, 1, 5, 127, 128, 255}

Index == [n \in Sample |-> CASE n = 0 -> 0 [] n = 1 -> 255 [] n = 5 -> 250
                             [] n = 127 -> 128 [] n = 128 -> 127 [] n = 255 -> 1]

EachInstruction ==
  {Begin(Registers(ac, Index[ac], Index[low], Index[ac]), flags,
         <<opcode, low, IF low = 0 THEN 32 ELSE 3>>) :
     opcode \in Byte, low \in Sample, ac \in Sample, flags \in {{Ignored}, Bit \ {Break}}}

\* The byte at 65535 is not backed: memory is 65535 bytes
OffTheEnd == {Begin(Registers(0, 0, 0, 255), {Ignored}, <<E.lda.abs, 255, 255>>)}

\* A subroutine at $0606 that calls itself until x is zero
Recursive(levels) ==
  <<E.ldx.imm, levels, E.jsr.abs, 6, 6, E.brk.imp,
    E.dex.imp, E.beq.rel, 3, E.jsr.abs, 6, 6, E.rts.imp>>

\* The same, with the accumulator and the flags kept across the call
Preserving(levels) ==
  <<E.ldx.imm, levels, E.jsr.abs, 6, 6, E.brk.imp,
    E.txa.imp, E.pha.imp, E.php.imp, E.dex.imp, E.beq.rel, 3, E.jsr.abs, 6, 6,
    E.plp.imp, E.pla.imp, E.rts.imp>>

Recursions ==
  {Begin(Registers(0, 0, 0, sp), {Ignored}, program) :
     sp \in {0, 1, 255}, program \in {Recursive(128), Preserving(3), Preserving(64)}}

Programs == EachInstruction \cup OffTheEnd \cup Recursions

Terminal == {8192}  \* the first address of textmode.c, as a device

-----------------------------------------------------------------------------
(* The additions of tests/overflow.s, lines 52 to 62 *)

TryAdc == <<E.cpy.imm, 1, E.lda.zpg, 1, E.adc.zpg, 2, E.brk.imp>>

\* Those of zero and any operand with the carry clear: S1 or U1 at 1, S2 or U2 at 2
AdditionsToZero ==
  {[pc |-> At, reg |-> Registers(0, 0, 0, 255), sr |-> {Ignored},
    bytes |-> With(Code(At, TryAdc), Code(1, <<0, operand>>))] : operand \in Byte}

\* An addition leaves the flags that tests/overflow.s describes: "Carry is set if
\* U1 + U2 >= 256" (line 61), and V if the sum of the operands as signed bytes is no
\* signed byte ("Demonstrate that the V flag works as described", line 8). With an
\* accumulator and a carry of zero the code has both wrong in one step (cpu.c 41 and 49).
AdditionsAreAsDescribed ==
  last.name = "adc" =>
    LET carry == IF Carry \in last.sr THEN 1 ELSE 0 IN
    /\ (Carry \in sr) = (last.reg.ac + last.operand + carry >= 256)
    /\ (Overflow \in sr) = (Signed(last.reg.ac) + Signed(last.operand) + carry \notin -128 .. 127)

=============================================================================
