------------------------------ MODULE IsaProofs ------------------------------
(***************************************************************************)
(* Lemmas on the instruction set: what the bits of an opcode say of it is  *)
(* what its name says.                                                     *)
(***************************************************************************)
EXTENDS Isa, TLAPS

\* The opcodes that the decoding functions make exceptions for
LEMMA SpecialOpcodes ==
  /\ Encoding.stx.zpgy = 150 /\ Encoding.ldx.zpgy = 182 /\ Encoding.ldx.absy = 190
  /\ Encoding.jmp.ind = 108 /\ Encoding.jsr.abs = 32 /\ Encoding.ldx.imm = 162
BY DEF Encoding

\* The bits of an opcode say of it what its name says
Fits(opcode, mode) ==
  opcode \in Byte /\ ModeOf[opcode] = mode /\ LengthOf[opcode] = LengthOfMode[mode]

\* The bytes of each mode
LEMMA ModesFit ==
  /\ \A b \in {0, 8, 24, 40, 56, 64, 72, 88, 96, 104, 120, 136, 138, 152, 154, 168,
              170, 184, 186, 200, 202, 203, 216, 232, 234, 248} :
       Fits(b, "imp")
  /\ \A b \in {16, 48, 80, 112, 144, 176, 208, 240} :
       Fits(b, "rel")
  /\ \A b \in {13, 14, 32, 44, 45, 46, 76, 77, 78, 109, 110, 140, 141, 142, 172, 173,
              174, 204, 205, 206, 236, 237, 238} :
       Fits(b, "abs")
  /\ \A b \in {9, 41, 73, 105, 160, 162, 169, 192, 201, 224, 233} :
       Fits(b, "imm")
  /\ \A b \in {5, 6, 36, 37, 38, 69, 70, 101, 102, 132, 133, 134, 164, 165, 166, 196,
              197, 198, 228, 229, 230} :
       Fits(b, "zpg")
  /\ \A b \in {21, 22, 53, 54, 85, 86, 117, 118, 148, 149, 180, 181, 213, 214, 245,
              246} :
       Fits(b, "zpgx")
  /\ \A b \in {29, 30, 61, 62, 93, 94, 125, 126, 157, 188, 189, 221, 222, 253, 254} :
       Fits(b, "absx")
  /\ \A b \in {25, 57, 89, 121, 153, 185, 190, 217, 249} :
       Fits(b, "absy")
  /\ \A b \in {1, 33, 65, 97, 129, 161, 193, 225} :
       Fits(b, "indx")
  /\ \A b \in {17, 49, 81, 113, 145, 177, 209, 241} :
       Fits(b, "indy")
  /\ \A b \in {10, 42, 74, 106} :
       Fits(b, "acc")
  /\ \A b \in {108} :
       Fits(b, "ind")
  /\ \A b \in {150, 182} :
       Fits(b, "zpgy")
BY SpecialOpcodes DEF Fits, ModeOf, LengthOf, LengthOfMode, Mode, Low, High, Odd, Byte

\* And so they say of every opcode of every mnemonic
LEMMA EveryOpcodeFits ==
  ASSUME NEW op \in Mnemonic, NEW mode \in DOMAIN Encoding[op]
  PROVE  Fits(Encoding[op][mode], mode)
<1> DEFINE IsRow(row) == \A m \in DOMAIN row : Fits(row[m], m)
<1>1. /\ IsRow(Encoding.brk) /\ IsRow(Encoding.nop) /\ IsRow(Encoding.clc)
      /\ IsRow(Encoding.cld) /\ IsRow(Encoding.cli) /\ IsRow(Encoding.clv)
  BY ModesFit DEF Encoding
<1>2. /\ IsRow(Encoding.sec) /\ IsRow(Encoding.sed) /\ IsRow(Encoding.sei)
      /\ IsRow(Encoding.dex) /\ IsRow(Encoding.dey) /\ IsRow(Encoding.tax)
  BY ModesFit DEF Encoding
<1>3. /\ IsRow(Encoding.tay) /\ IsRow(Encoding.tsx) /\ IsRow(Encoding.txa)
      /\ IsRow(Encoding.txs) /\ IsRow(Encoding.tya) /\ IsRow(Encoding.inx)
  BY ModesFit DEF Encoding
<1>4. /\ IsRow(Encoding.iny) /\ IsRow(Encoding.rti) /\ IsRow(Encoding.rts)
      /\ IsRow(Encoding.pha) /\ IsRow(Encoding.php) /\ IsRow(Encoding.pla)
  BY ModesFit DEF Encoding
<1>5. /\ IsRow(Encoding.plp) /\ IsRow(Encoding.wai) /\ IsRow(Encoding.bcc)
      /\ IsRow(Encoding.bcs) /\ IsRow(Encoding.beq) /\ IsRow(Encoding.bne)
  BY ModesFit DEF Encoding
<1>6. /\ IsRow(Encoding.bmi) /\ IsRow(Encoding.bpl) /\ IsRow(Encoding.bvc)
      /\ IsRow(Encoding.bvs) /\ IsRow(Encoding.jsr) /\ IsRow(Encoding.adc)
  BY ModesFit DEF Encoding
<1>7. /\ IsRow(Encoding.and) /\ IsRow(Encoding.asl) /\ IsRow(Encoding.bit)
      /\ IsRow(Encoding.cmp) /\ IsRow(Encoding.cpx) /\ IsRow(Encoding.cpy)
  BY ModesFit DEF Encoding
<1>8. /\ IsRow(Encoding.dec) /\ IsRow(Encoding.eor) /\ IsRow(Encoding.inc)
      /\ IsRow(Encoding.jmp) /\ IsRow(Encoding.ora) /\ IsRow(Encoding.lda)
  BY ModesFit DEF Encoding
<1>9. /\ IsRow(Encoding.ldx) /\ IsRow(Encoding.ldy) /\ IsRow(Encoding.lsr)
      /\ IsRow(Encoding.rol) /\ IsRow(Encoding.ror) /\ IsRow(Encoding.sbc)
  BY ModesFit DEF Encoding
<1>10. /\ IsRow(Encoding.sta) /\ IsRow(Encoding.stx) /\ IsRow(Encoding.sty)
  BY ModesFit DEF Encoding
<1>11. op \in {"brk", "nop", "clc", "cld", "cli", "clv", "sec", "sed", "sei", "dex", "dey",
            "tax", "tay", "tsx", "txa", "txs", "tya", "inx", "iny", "rti",
            "rts", "pha", "php", "pla", "plp", "wai", "bcc", "bcs", "beq",
            "bne", "bmi", "bpl", "bvc", "bvs", "jsr", "adc", "and", "asl",
            "bit", "cmp", "cpx", "cpy", "dec", "eor", "inc", "jmp", "ora",
            "lda", "ldx", "ldy", "lsr", "rol", "ror", "sbc", "sta", "stx", "sty"}
  BY DEF Mnemonic, Encoding
<1> HIDE DEF IsRow
<1>12. IsRow(Encoding[op])
  BY <1>1, <1>2, <1>3, <1>4, <1>5, <1>6, <1>7, <1>8, <1>9, <1>10, <1>11
<1> QED
  BY <1>12 DEF IsRow

\* A byte that has a name has one meaning
LEMMA MeaningFits ==
  ASSUME NEW b \in Byte, MnemonicOf[b] # "illegal"
  PROVE  LET op   == MnemonicOf[b]
             mode == ModeInName[b]
         IN  /\ op \in Mnemonic /\ mode \in DOMAIN Encoding[op] /\ Encoding[op][mode] = b
             /\ mode \in Mode /\ Fits(b, mode)
<1> DEFINE p == CHOOSE q \in Meanings(b) : TRUE
<1>1. Meanings(b) # {}
  BY DEF MnemonicOf
<1>2. p \in Meanings(b)
  BY <1>1
<1>3. MnemonicOf[b] = p[1] /\ ModeInName[b] = p[2]
  BY <1>1 DEF ModeInName, MnemonicOf
<1> HIDE DEF p
<1>4. p[1] \in Mnemonic /\ p[2] \in Mode /\ p[2] \in DOMAIN Encoding[p[1]] /\ Encoding[p[1]][p[2]] = b
  BY <1>2 DEF Meanings
<1>5. Fits(b, p[2])
  BY <1>4, EveryOpcodeFits
<1> QED
  BY <1>3, <1>4, <1>5

=============================================================================
