------------------------------- MODULE Parser -------------------------------
(***************************************************************************)
(* What as6502 makes of one line of code: the address mode that parser.c   *)
(* reads off the tokens, the tokens that symbols.c puts in the place of    *)
(* names, the arithmetic of codegen.c, and the opcode.                     *)
(* A token is a value or a name. Of a value's notation there remains       *)
(* whether it is wide and whether it starts with * or #.                   *)
(***************************************************************************)
EXTENDS Isa, SymbolTable

CONSTANT
  HexNames  \* the names that read as a wide number: four hex digits after the first letter

ASSUME HexNamesAssumption == HexNames \subseteq Name

Value(n, wide, mark) == [type |-> "value", value |-> n, wide |-> wide, mark |-> mark]
Named(n) == [type |-> "other", name |-> n]

Token == [type : {"value"}, value : Word, wide : BOOLEAN, mark : {"", "*", "#"}]
           \cup [type : {"other"}, name : Name]

IsValue(t) == t.type = "value"

\* An operand: what stands around its terms, and at most one operator between two
Shape == {"none", "A", "plain", ",X", ",Y", "()", "(,X)", "(),Y"}
Operand ==
  {o \in [shape : Shape, terms : Seq(Token), operator : {"", "+", "-"}] :
     /\ o.shape \in {"none", "A"} => o.terms = <<>> /\ o.operator = ""
     /\ o.shape \notin {"none", "A"} => Len(o.terms) = IF o.operator = "" THEN 1 ELSE 2}

\* as6502_valueForString: a name is a number without digits
ValueOf(t) == IF IsValue(t) THEN t.value ELSE 0
IsWide(t)  == IF IsValue(t) THEN t.wide ELSE t.name \in HexNames

\* as6502_firstTokenOfTypeInList, for values: a sequence of one, or of none
FirstValue(o) ==
  LET values == {i \in DOMAIN o.terms : IsValue(o.terms[i])}
  IN  IF values = {} THEN <<>>
      ELSE <<o.terms[CHOOSE i \in values : \A j \in values : i <= j]>>

-----------------------------------------------------------------------------
(* Address modes *)

Branches == {"bcc", "bcs", "beq", "bmi", "bne", "bpl", "bvc", "bvs"}

\* as6502_symbolShouldBeReplacedDoubleWidth, outside parentheses
ShouldBeReplacedDoubleWidth(op) == op \notin Branches

Marked(t, mark) == IsValue(t) /\ t.mark = mark
IsZeropage(o) == \E i \in DOMAIN FirstValue(o) : FirstValue(o)[i].mark = "*"

\* as6502_addressModeForExpression
AddressMode(op, o) ==
  CASE o.shape = "none" -> "imp"
    [] o.shape = "A"    -> "acc"
    [] o.shape = "()"   -> "ind"
    [] o.shape = "(,X)" -> "indx"
    [] o.shape = "(),Y" -> "indy"
    [] o.shape = ",X"   -> IF IsZeropage(o) THEN "zpgx" ELSE "absx"
    [] o.shape = ",Y"   -> IF IsZeropage(o) THEN "zpgy" ELSE "absy"
    [] OTHER -> IF Marked(o.terms[1], "#") THEN "imm"
                ELSE IF Marked(o.terms[1], "*") THEN "zpg"
                ELSE IF IsWide(o.terms[1]) \/ ShouldBeReplacedDoubleWidth(op) THEN "abs"
                ELSE "rel"

-----------------------------------------------------------------------------
(* Names *)

\* Mutant: the distance is counted from the branch and not from what follows it
FromTheBranch(mode, address, offset) ==
  IF LengthOfMode[mode] # 2
  THEN IF address <= 255 THEN Value(address, FALSE, "*") ELSE Value(address, TRUE, "")
  ELSE IF mode = "rel" THEN Value((address - offset) % 256, FALSE, "")
  ELSE Value(address % 256, FALSE, "")

\* What takes the place of a name: a zero page address whenever it can be one
AddressToken(mode, address, offset) ==
  IF LengthOfMode[mode] # 2
  THEN IF address <= 255 THEN Value(address, FALSE, "*") ELSE Value(address, TRUE, "")
  ELSE IF mode = "rel" THEN Value((address - (offset + LengthOfMode[mode])) % 256, FALSE, "")
  ELSE Value(address % 256, FALSE, "")

\* as6502_desymbolicateExpression: a name that is not in the table stays
Desymbolicate(table, op, o, offset) ==
  LET mode == AddressMode(op, o)
      replaced(t) == IF ~ IsValue(t) /\ IsNamed(table, t.name)
                     THEN AddressToken(mode, AddressOf(table, t.name), offset) ELSE t
  IN  [o EXCEPT !.terms = [i \in DOMAIN o.terms |-> replaced(o.terms[i])]]

-----------------------------------------------------------------------------
(* Arithmetic *)

\* The result is printed padded with blanks, which end the number that is read back:
\* "$%4x" if a term was wide, "*$%2x" otherwise
ResultToken(n, wide) ==
  IF wide THEN IF n >= 4096 THEN Value(n, TRUE, "") ELSE Value(0, FALSE, "")
  ELSE IF n >= 16 THEN Value(n, n >= 256, "*") ELSE Value(0, FALSE, "*")

\* as6502_resolveArithmeticInExpression: only an operator right behind the first value
ResolveArithmetic(o) ==
  IF o.operator = "" \/ ~ IsValue(o.terms[1]) THEN o
  ELSE LET a == ValueOf(o.terms[1])
           b == ValueOf(o.terms[2])
           n == (IF o.operator = "+" THEN a + b ELSE a - b) % WordCount
       IN  [o EXCEPT !.operator = "",
                     !.terms = <<ResultToken(n, IsWide(o.terms[1]) \/ IsWide(o.terms[2]))>>]

-----------------------------------------------------------------------------
(* Instructions *)

\* The instructions whose opcode is taken whatever the mode
SingleByte == {"brk", "nop", "clc", "cld", "cli", "clv", "sec", "sed", "sei", "dex", "dey",
               "tax", "tay", "tsx", "txa", "txs", "tya", "inx", "iny"}
Stack == {"jsr", "rti", "rts", "pha", "pla", "php", "plp"}

\* The others; wai is not among them
Moded == Mnemonic \ (SingleByte \cup Stack \cup {"wai"})

\* as6502_opcodeForInstructionAndMode: the opcodes a line may get, none if it is in error
Opcodes(op, mode) ==
  CASE op = "tya" -> {Encoding.dey.imp}
    [] op = "jsr" -> {Encoding.jsr.abs}
    [] op \in (SingleByte \cup Stack) \ {"tya", "jsr"} -> {Encoding[op].imp}
    [] op \in Moded /\ mode \in DOMAIN Encoding[op] -> {Encoding[op][mode]}
    [] OTHER -> {}

\* The operand of a line as the assembler encodes it
Encoded(table, op, o, offset) == ResolveArithmetic(Desymbolicate(table, op, o, offset))

\* The length that the first pass counts and the second emits
LineLength(table, op, o, offset) ==
  LengthOfMode[AddressMode(op, Encoded(table, op, o, offset))]

\* as6502_instructionForExpression and what assembleLine emits of it
LineBytes(table, op, o, offset) ==
  LET encoded == Encoded(table, op, o, offset)
      mode    == AddressMode(op, encoded)
      opcodes == Opcodes(op, mode)
      opcode  == IF opcodes = {} THEN Encoding.nop.imp ELSE CHOOSE c \in opcodes : TRUE
      values  == FirstValue(encoded)
      n       == IF values = <<>> THEN 0 ELSE values[1].value
  IN  SubSeq(<<opcode, n % 256, n \div 256>>, 1, LengthOfMode[mode])

IsError(table, op, o, offset) ==
  Opcodes(op, AddressMode(op, Encoded(table, op, o, offset))) = {}

=============================================================================
