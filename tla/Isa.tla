-------------------------------- MODULE Isa --------------------------------
(***************************************************************************)
(* The instruction set of v6502/cpu.h, and the two functions of            *)
(* v6502/cpu.c that recover the address mode and the length of an          *)
(* instruction from the bits of its opcode instead of a table.             *)
(***************************************************************************)
EXTENDS Integers

Byte == 0 .. 255

\* The opcodes of v6502_opcode, by mnemonic and by the address mode in its name
Encoding ==
  [brk |-> [imp |-> \h00], nop |-> [imp |-> \hEA], clc |-> [imp |-> \h18],
   cld |-> [imp |-> \hD8], cli |-> [imp |-> \h58], clv |-> [imp |-> \hB8],
   sec |-> [imp |-> \h38], sed |-> [imp |-> \hF8], sei |-> [imp |-> \h78],
   dex |-> [imp |-> \hCA], dey |-> [imp |-> \h88], tax |-> [imp |-> \hAA],
   tay |-> [imp |-> \hA8], tsx |-> [imp |-> \hBA], txa |-> [imp |-> \h8A],
   txs |-> [imp |-> \h9A], tya |-> [imp |-> \h98], inx |-> [imp |-> \hE8],
   iny |-> [imp |-> \hC8], rti |-> [imp |-> \h40], rts |-> [imp |-> \h60],
   pha |-> [imp |-> \h48], php |-> [imp |-> \h08], pla |-> [imp |-> \h68],
   plp |-> [imp |-> \h28], wai |-> [imp |-> \hCB],
   bcc |-> [rel |-> \h90], bcs |-> [rel |-> \hB0], beq |-> [rel |-> \hF0],
   bne |-> [rel |-> \hD0], bmi |-> [rel |-> \h30], bpl |-> [rel |-> \h10],
   bvc |-> [rel |-> \h50], bvs |-> [rel |-> \h70],
   jsr |-> [abs |-> \h20],
   adc |-> [imm |-> \h69, zpg |-> \h65, zpgx |-> \h75, abs |-> \h6D,
           absx |-> \h7D, absy |-> \h79, indx |-> \h61, indy |-> \h71],
   and |-> [imm |-> \h29, zpg |-> \h25, zpgx |-> \h35, abs |-> \h2D,
           absx |-> \h3D, absy |-> \h39, indx |-> \h21, indy |-> \h31],
   asl |-> [acc |-> \h0A, zpg |-> \h06, zpgx |-> \h16, abs |-> \h0E, absx |-> \h1E],
   bit |-> [zpg |-> \h24, abs |-> \h2C],
   cmp |-> [imm |-> \hC9, zpg |-> \hC5, zpgx |-> \hD5, abs |-> \hCD,
           absx |-> \hDD, absy |-> \hD9, indx |-> \hC1, indy |-> \hD1],
   cpx |-> [imm |-> \hE0, zpg |-> \hE4, abs |-> \hEC],
   cpy |-> [imm |-> \hC0, zpg |-> \hC4, abs |-> \hCC],
   dec |-> [zpg |-> \hC6, zpgx |-> \hD6, abs |-> \hCE, absx |-> \hDE],
   eor |-> [imm |-> \h49, zpg |-> \h45, zpgx |-> \h55, abs |-> \h4D,
           absx |-> \h5D, absy |-> \h59, indx |-> \h41, indy |-> \h51],
   inc |-> [zpg |-> \hE6, zpgx |-> \hF6, abs |-> \hEE, absx |-> \hFE],
   jmp |-> [abs |-> \h4C, ind |-> \h6C],
   ora |-> [imm |-> \h09, zpg |-> \h05, zpgx |-> \h15, abs |-> \h0D,
           absx |-> \h1D, absy |-> \h19, indx |-> \h01, indy |-> \h11],
   lda |-> [imm |-> \hA9, zpg |-> \hA5, zpgx |-> \hB5, abs |-> \hAD,
           absx |-> \hBD, absy |-> \hB9, indx |-> \hA1, indy |-> \hB1],
   ldx |-> [imm |-> \hA2, zpg |-> \hA6, zpgy |-> \hB6, abs |-> \hAE, absy |-> \hBE],
   ldy |-> [imm |-> \hA0, zpg |-> \hA4, zpgx |-> \hB4, abs |-> \hAC, absx |-> \hBC],
   lsr |-> [acc |-> \h4A, zpg |-> \h46, zpgx |-> \h56, abs |-> \h4E, absx |-> \h5E],
   rol |-> [acc |-> \h2A, zpg |-> \h26, zpgx |-> \h36, abs |-> \h2E, absx |-> \h3E],
   ror |-> [acc |-> \h6A, zpg |-> \h66, zpgx |-> \h76, abs |-> \h6E, absx |-> \h7E],
   sbc |-> [imm |-> \hE9, zpg |-> \hE5, zpgx |-> \hF5, abs |-> \hED,
           absx |-> \hFD, absy |-> \hF9, indx |-> \hE1, indy |-> \hF1],
   sta |-> [zpg |-> \h85, zpgx |-> \h95, abs |-> \h8D, absx |-> \h9D,
           absy |-> \h99, indx |-> \h81, indy |-> \h91],
   stx |-> [zpg |-> \h86, zpgy |-> \h96, abs |-> \h8E],
   sty |-> [zpg |-> \h84, zpgx |-> \h94, abs |-> \h8C]]

Mnemonic == DOMAIN Encoding

\* v6502_address_mode
Mode == {"imp", "acc", "imm", "abs", "absx", "absy", "ind", "indx", "indy", "rel",
         "zpg", "zpgx", "zpgy"}

\* The pairs of mnemonic and mode an opcode stands for: one, or none
Meanings(opcode) ==
  {p \in Mnemonic \X Mode :
     p[2] \in DOMAIN Encoding[p[1]] /\ Encoding[p[1]][p[2]] = opcode}

\* The mnemonic of every byte, "illegal" where the instruction set has none
MnemonicOf ==
  [opcode \in Byte |->
     IF Meanings(opcode) = {} THEN "illegal" ELSE (CHOOSE p \in Meanings(opcode) : TRUE)[1]]

\* The mode in the name of a legal opcode
ModeInName ==
  [opcode \in {b \in Byte : Meanings(b) # {}} |-> (CHOOSE p \in Meanings(opcode) : TRUE)[2]]

Low(opcode)  == opcode % 16
High(opcode) == opcode \div 16
Odd(opcode)  == High(opcode) % 2 = 1

\* v6502_addressModeForOpcode
ModeOf ==
  [opcode \in Byte |->
     CASE Low(opcode) = 8 -> "imp"
       [] Low(opcode) \in 4 .. 6 ->
            IF ~ Odd(opcode) THEN "zpg"
            ELSE IF opcode \in {Encoding.stx.zpgy, Encoding.ldx.zpgy} THEN "zpgy" ELSE "zpgx"
       [] Low(opcode) >= 12 ->
            IF Odd(opcode) THEN IF opcode = Encoding.ldx.absy THEN "absy" ELSE "absx"
            ELSE IF opcode = Encoding.jmp.ind THEN "ind" ELSE "abs"
       [] Low(opcode) \in 10 .. 11 -> IF High(opcode) >= 8 THEN "imp" ELSE "acc"
       [] Low(opcode) = 9 -> IF Odd(opcode) THEN "absy" ELSE "imm"
       [] Low(opcode) = 1 -> IF Odd(opcode) THEN "indy" ELSE "indx"
       [] Low(opcode) = 0 ->
            IF Odd(opcode) THEN "rel"
            ELSE IF High(opcode) >= 8 THEN "imm"
            ELSE IF opcode = Encoding.jsr.abs THEN "abs" ELSE "imp"
       [] OTHER -> IF opcode = Encoding.ldx.imm THEN "imm" ELSE "unknown"]

\* Mutant: the special case of jsr is lost
LengthWithoutJsr ==
  [opcode \in Byte |->
     IF Low(opcode) \in 1 .. 6 THEN 2
     ELSE IF Low(opcode) > 11 THEN 3
     ELSE IF Low(opcode) = 9 THEN IF Odd(opcode) THEN 3 ELSE 2
     ELSE IF Low(opcode) = 0 /\ (Odd(opcode) \/ High(opcode) > 8) THEN 2
     ELSE 1]

\* v6502_instructionLengthForOpcode
LengthOf ==
  [opcode \in Byte |->
     IF Low(opcode) \in 1 .. 6 THEN 2
     ELSE IF Low(opcode) > 11 THEN 3
     ELSE IF Low(opcode) = 9 THEN IF Odd(opcode) THEN 3 ELSE 2
     ELSE IF opcode = Encoding.jsr.abs THEN 3
     ELSE IF Low(opcode) = 0 /\ (Odd(opcode) \/ High(opcode) > 8) THEN 2
     ELSE 1]

\* What the mode of an instruction says of its length
LengthOfMode ==
  [mode \in Mode |->
     CASE mode \in {"imp", "acc"} -> 1
       [] mode \in {"abs", "absx", "absy", "ind"} -> 3
       [] OTHER -> 2]

=============================================================================
