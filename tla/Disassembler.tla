---------------------------- MODULE Disassembler ----------------------------
(***************************************************************************)
(* disassembleFile of dis6502/main.c for one file, with what it calls in   *)
(* dis6502/reverse.c and as6502/symbols.c: labels are derived from the     *)
(* branches, those outside of the blob are removed, the blob is printed an *)
(* instruction at a time, and the labels that were not met are printed     *)
(* last. The readers of files make one blob, so there is one here.         *)
(***************************************************************************)
EXTENDS SourceLines

CONSTANTS
  Binaries,     \* the files: a format, the bytes of its program, and the -s given with it
  LabelBound,   \* the labels that may be made; n names "Label<n>"
  OffsetCount,  \* 0x10000 where a uint16_t counts offsets
  StrayByte     \* what may be behind the end of the blob

Base == [flat |-> 0, ines |-> 32768]
Binary == [format : DOMAIN Base, load : Word, data : Seq(Byte)]

ASSUME DisassemblerAssumption ==
  /\ Binaries \subseteq Binary
  /\ LabelBound \in Nat
  /\ 1 .. LabelBound \subseteq Name
  /\ OffsetCount \in Nat \ {0}
  /\ StrayByte \subseteq Byte

VARIABLES
  binary,          \* the file
  phase,           \* derive, truncate, print, rest, then done; or undefined
  offset,          \* of the instruction that is next, a uint16_t
  symbols,         \* the symbol table
  currentLabel,    \* the number of the next label
  this,            \* the index of the symbol a loop over the table is at
  high, low,       \* the operand bytes of the last instructions that had them
  insideOfString,
  highestOffset,
  listing          \* the lines of the output

disassemblerVars ==
  <<binary, phase, offset, symbols, currentLabel, this, high, low, insideOfString,
    highestOffset, listing>>

data  == binary.data
start == (Base[binary.format] + binary.load) % WordCount

\* The bytes a read of the blob may return: it is not kept from reading past the end
BytesAt(i) == IF i < Len(data) THEN {data[i + 1]} ELSE StrayByte

\* What the lines of a listing hold besides what a source may hold
Listed == Body \cup {[kind |-> "illegal"], [kind |-> "string"]}

LabelLine(name) == Line(name, IF insideOfString THEN [kind |-> "string"] ELSE Blank)

\* as6502_symbolForAddress: the first symbol there
HasSymbol(table, n) == \E i \in DOMAIN table : table[i].address = n
SymbolForAddress(table, n) ==
  table[CHOOSE i \in DOMAIN table :
          table[i].address = n /\ \A j \in 1 .. i - 1 : table[j].address # n]

DisassemblerInit ==
  /\ binary \in Binaries
  /\ phase = "derive"
  /\ offset = 0
  /\ symbols = <<>>
  /\ currentLabel = 1
  /\ this = 1
  /\ high = 0 /\ low = 0
  /\ insideOfString = FALSE
  /\ highestOffset = 0
  /\ listing = IF start = 0 THEN <<>> ELSE <<Line(NoName, Org(start))>>

-----------------------------------------------------------------------------
(* Labels from the branches: dis6502_deriveSymbolsForObjectBlob *)

Jumps == {Encoding.jmp.abs, Encoding.jmp.ind, Encoding.jsr.abs}
BranchOpcodes == {Encoding[op].rel : op \in Branches}

\* v6502_signedValueOfByte
Signed(b) == IF b > 127 THEN b - 256 ELSE b

\* Where the instruction at the offset leads, given the two bytes behind its opcode
Target(at, second, third) ==
  IF data[at + 1] \in Jumps THEN second + 256 * third
  ELSE (start + at + 2 + Signed(second)) % WordCount

\* Mutant: what is at the address already is not looked for
AlwaysLabels(n) ==
  AddSymbol(symbols, [name |-> currentLabel, address |-> n, type |-> "label", line |-> 0])

\* A label for an address that has none
WithLabelAt(n) ==
  IF HasSymbol(symbols, n) THEN symbols
  ELSE AddSymbol(symbols, [name |-> currentLabel, address |-> n, type |-> "label", line |-> 0])

\* Mutant: the counter is an int
AdvanceUnwrapped == offset' = offset + LengthOf[data[offset + 1]]

Advance == offset' = (offset + LengthOf[data[offset + 1]]) % OffsetCount

DeriveLabel ==
  /\ phase = "derive" /\ offset < Len(data)
  /\ data[offset + 1] \in Jumps \cup BranchOpcodes
  /\ \E second \in BytesAt(offset + 1), third \in BytesAt(offset + 2) :
       LET n == Target(offset, second, third) IN
       /\ HasSymbol(symbols, n) \/ currentLabel <= LabelBound
       /\ symbols' = WithLabelAt(n)
       /\ currentLabel' = IF HasSymbol(symbols, n) THEN currentLabel ELSE currentLabel + 1
  /\ Advance
  /\ UNCHANGED <<binary, phase, this, high, low, insideOfString, highestOffset, listing>>

DeriveNone ==
  /\ phase = "derive" /\ offset < Len(data)
  /\ data[offset + 1] \notin Jumps \cup BranchOpcodes
  /\ Advance
  /\ UNCHANGED <<binary, phase, symbols, currentLabel, this, high, low, insideOfString,
                 highestOffset, listing>>

EndDerive ==
  /\ phase = "derive" /\ offset >= Len(data)
  /\ phase' = "truncate"
  /\ offset' = 0
  /\ UNCHANGED <<binary, symbols, currentLabel, this, high, low, insideOfString,
                 highestOffset, listing>>

-----------------------------------------------------------------------------
(* as6502_truncateTableToAddressSpace *)

Outside(symbol) == symbol.address < start \/ symbol.address > start + Len(data)

\* Mutant: after a removal the loop goes on behind what moved up
SkipsNext ==
  /\ phase = "truncate" /\ this \in DOMAIN symbols
  /\ symbols' = IF Outside(symbols[this])
                THEN SubSeq(symbols, 1, this - 1) \o SubSeq(symbols, this + 1, Len(symbols))
                ELSE symbols
  /\ this' = this + 1
  /\ UNCHANGED <<binary, phase, offset, currentLabel, high, low, insideOfString,
                 highestOffset, listing>>

\* The loop starts over when the head is removed and goes on from the predecessor when
\* another is: either way the symbol that moves up is next
TruncateSymbol ==
  /\ phase = "truncate" /\ this \in DOMAIN symbols
  /\ IF Outside(symbols[this])
     THEN /\ symbols' = SubSeq(symbols, 1, this - 1) \o SubSeq(symbols, this + 1, Len(symbols))
          /\ this' = this
     ELSE /\ symbols' = symbols
          /\ this' = this + 1
  /\ UNCHANGED <<binary, phase, offset, currentLabel, high, low, insideOfString,
                 highestOffset, listing>>

EndTruncate ==
  /\ phase = "truncate" /\ this \notin DOMAIN symbols
  /\ phase' = "print"
  /\ this' = 1
  /\ UNCHANGED <<binary, offset, symbols, currentLabel, high, low, insideOfString,
                 highestOffset, listing>>

-----------------------------------------------------------------------------
(* The text of an instruction *)

Operand1(shape, value) == [shape |-> shape, terms |-> <<value>>, operator |-> ""]
Word2(second, third) == Value(second + 256 * third, TRUE, "")

\* dis6502_stringForOperand
OperandOf(b, second, third) ==
  LET mode == ModeOf[b] IN
  CASE mode = "acc"  -> [shape |-> "A", terms |-> <<>>, operator |-> ""]
    [] mode = "imm"  -> Operand1("plain", Value(second, FALSE, "#"))
    [] mode = "zpg"  -> Operand1("plain", Value(second, FALSE, "*"))
    [] mode = "zpgx" -> Operand1(",X", Value(second, FALSE, "*"))
    [] mode = "zpgy" -> Operand1(",Y", Value(second, FALSE, "*"))
    [] mode = "rel"  -> Operand1("plain", Value(second, FALSE, ""))
    [] mode = "abs"  -> Operand1("plain", Word2(second, third))
    [] mode = "absx" -> Operand1(",X", Word2(second, third))
    [] mode = "absy" -> Operand1(",Y", Word2(second, third))
    [] mode = "ind"  -> Operand1("()", Word2(second, third))
    [] mode = "indx" -> Operand1("(,X)", Value(second, FALSE, ""))
    [] mode = "indy" -> Operand1("(),Y", Value(second, FALSE, ""))
    [] OTHER         -> [shape |-> "none", terms |-> <<>>, operator |-> ""]

\* The instructions whose words are looked up: b and j are their first letters, bit apart
Symbolicated == Branches \cup {"brk", "jmp", "jsr"}

\* as6502_symbolicateLine: a label takes the place of a whole word, parentheses included;
\* the mnemonic is a word that reads as 0
Symbolicate(op, operand) ==
  IF op \notin Symbolicated THEN Code(op, operand)
  ELSE IF HasSymbol(symbols, 0) THEN [kind |-> "illegal"]
  ELSE IF operand.terms # <<>> /\ HasSymbol(symbols, operand.terms[1].value)
  THEN Code(op, Operand1("plain", Named(SymbolForAddress(symbols, operand.terms[1].value).name)))
  ELSE Code(op, operand)

\* dis6502_stringForOpcode, a case for each opcode of the enumeration
StringForOpcode(b) == MnemonicOf[b]

\* dis6502_stringForInstruction, and the line that is made of it
InstructionLine(b, second, third) ==
  IF StringForOpcode(b) = "illegal" THEN [kind |-> "illegal"]
  ELSE Symbolicate(StringForOpcode(b), OperandOf(b, second, third))

-----------------------------------------------------------------------------
(* The loop that prints *)

opcode == data[offset + 1]
Printable(b) == b \in 32 .. 126

\* The lines with which every iteration begins
LabelLines ==
  IF HasSymbol(symbols, (start + offset) % WordCount)
  THEN <<LabelLine(SymbolForAddress(symbols, (start + offset) % WordCount).name)>>
  ELSE <<>>

AtByte(inString) == phase = "print" /\ offset < Len(data) /\ insideOfString = inString

\* The next character, or the zero that ends the string
PrintCharacter ==
  /\ AtByte(TRUE)
  /\ opcode = 0 \/ Printable(opcode)
  /\ insideOfString' = (opcode # 0)
  /\ listing' = listing \o LabelLines
  /\ offset' = (offset + 1) % OffsetCount
  /\ UNCHANGED <<binary, phase, symbols, currentLabel, this, high, low, highestOffset>>

\* Mutant: the string goes on
StaysInString ==
  /\ AtByte(TRUE)
  /\ opcode # 0 /\ ~ Printable(opcode)
  /\ insideOfString' = insideOfString
  /\ listing' = listing
  /\ UNCHANGED <<binary, phase, offset, symbols, currentLabel, this, high, low, highestOffset>>

\* A byte that is no character ends the string and is looked at again
LeaveString ==
  /\ AtByte(TRUE)
  /\ opcode # 0 /\ ~ Printable(opcode)
  /\ insideOfString' = FALSE
  /\ listing' = listing \o LabelLines
  /\ UNCHANGED <<binary, phase, offset, symbols, currentLabel, this, high, low, highestOffset>>

\* Mutant: an instruction that ends the file is not given its operand
FetchesShort ==
  /\ high' = IF offset + 3 < Len(data) THEN data[offset + 2] ELSE high
  /\ IF offset + 1 < Len(data) THEN low' \in BytesAt(offset + 2) ELSE low' = low

\* The bounds of the two operand bytes are each other's: the second keeps its old value
\* where it is the last of the blob, and the third is then read from behind the end
FetchOperands ==
  /\ high' = IF offset + 2 < Len(data) THEN data[offset + 2] ELSE high
  /\ IF offset + 1 < Len(data) THEN low' \in BytesAt(offset + 2) ELSE low' = low

\* Mutant: any byte that is no instruction begins a string
EntersAnyString ==
  /\ AtByte(FALSE)
  /\ StringForOpcode(opcode) = "illegal"
  /\ FetchOperands
  /\ insideOfString' = TRUE
  /\ listing' = listing \o LabelLines \o <<Line(NoName, [kind |-> "string"])>>
  /\ UNCHANGED <<binary, phase, offset, symbols, currentLabel, this, highestOffset>>

EnterString ==
  /\ AtByte(FALSE)
  /\ StringForOpcode(opcode) = "illegal" /\ Printable(opcode)
  /\ FetchOperands
  /\ insideOfString' = TRUE
  /\ listing' = listing \o LabelLines \o <<Line(NoName, [kind |-> "string"])>>
  /\ UNCHANGED <<binary, phase, offset, symbols, currentLabel, this, highestOffset>>

PrintInstruction ==
  /\ AtByte(FALSE)
  /\ ~ (StringForOpcode(opcode) = "illegal" /\ Printable(opcode))
  /\ FetchOperands
  /\ listing' = listing \o LabelLines \o <<Line(NoName, InstructionLine(opcode, high', low'))>>
  /\ Advance
  /\ highestOffset' = IF offset' > highestOffset THEN offset' ELSE highestOffset
  /\ UNCHANGED <<binary, phase, symbols, currentLabel, this, insideOfString>>

EndPrint ==
  /\ phase = "print" /\ offset >= Len(data)
  /\ phase' = "rest"
  /\ UNCHANGED <<binary, offset, symbols, currentLabel, this, high, low, insideOfString,
                 highestOffset, listing>>

-----------------------------------------------------------------------------
(* The labels that were never traversed *)

\* The lines of a label at or behind the end of what was printed. The sum has no base
RestLines(symbol) ==
  IF symbol.address < highestOffset + binary.load THEN <<>>
  ELSE IF symbol.address = highestOffset + binary.load THEN <<LabelLine(symbol.name)>>
  ELSE <<Line(NoName, Org(symbol.address)), LabelLine(symbol.name)>>

\* The loop is over the symbols that have a next one
PrintRest ==
  /\ phase = "rest" /\ this < Len(symbols)
  /\ listing' = listing \o RestLines(symbols[this])
  /\ this' = this + 1
  /\ UNCHANGED <<binary, phase, offset, symbols, currentLabel, high, low, insideOfString,
                 highestOffset>>

EndRest ==
  /\ phase = "rest" /\ this >= Len(symbols)
  /\ phase' = IF symbols = <<>> THEN "undefined" ELSE "done"
  /\ UNCHANGED <<binary, offset, symbols, currentLabel, this, high, low, insideOfString,
                 highestOffset, listing>>

-----------------------------------------------------------------------------

Derive    == DeriveLabel \/ DeriveNone \/ EndDerive
Truncate  == TruncateSymbol \/ EndTruncate
PrintBlob == PrintCharacter \/ LeaveString \/ EnterString \/ PrintInstruction \/ EndPrint
Rest      == PrintRest \/ EndRest

DisassemblerNext == Derive \/ Truncate \/ PrintBlob \/ Rest

DisassemblerSpec == DisassemblerInit /\ [][DisassemblerNext]_disassemblerVars

-----------------------------------------------------------------------------
(* Properties *)

\* Every variable keeps its type: addresses stay words and offsets stay below the
\* number of them, whatever the file holds (dis6502/main.c 51-168).
DisassemblerTypeOK ==
  /\ binary \in Binary
  /\ phase \in {"derive", "truncate", "print", "rest", "done", "undefined"}
  /\ offset \in 0 .. OffsetCount - 1
  /\ symbols \in Seq(Symbol)
  /\ currentLabel \in 1 .. LabelBound + 1
  /\ this \in Nat \ {0}
  /\ high \in Byte /\ low \in Byte
  /\ insideOfString \in BOOLEAN
  /\ highestOffset \in Nat
  /\ listing \in Seq([label : Name \cup {NoName}, body : Listed])

\* No address has two labels and no label two addresses, however often the file leads
\* to one and in whatever order the table holds them: none is refused as a duplicate,
\* and what a look-up finds does not depend on the order (reverse.c 428-431, symbols.c
\* 130-190).
LabelsAreDistinct ==
  \A i, j \in DOMAIN symbols : i # j =>
    /\ symbols[i].name # symbols[j].name
    /\ symbols[i].address # symbols[j].address

LoopOrder ==
  [derive |-> 1, truncate |-> 2, print |-> 3, rest |-> 4, done |-> 5, undefined |-> 5]

\* The loop that prints takes no step forward: it enters the string, or leaves it
LooksAgain ==
  IF insideOfString THEN opcode # 0 /\ ~ Printable(opcode)
  ELSE StringForOpcode(opcode) = "illegal" /\ Printable(opcode)

Further ==
  \/ phase \in {"derive", "print"} /\ offset' > offset
  \/ phase = "print" /\ offset' = offset /\ LooksAgain /\ ~ LooksAgain'
  \/ phase \in {"truncate", "rest"} /\ symbols' = symbols /\ this' \in this + 1 .. Len(symbols) + 1
  \/ phase = "truncate" /\ Len(symbols') < Len(symbols) /\ this' = this

\* On a file that is shorter than the counter of offsets by the length of an instruction,
\* every iteration of the four loops leaves less to do: the offset does not wrap, a byte
\* is looked at again once at most, and a restart of the truncation is paid for with a
\* symbol (dis6502/main.c 92-164, reverse.c 417-434, symbols.c 224-236).
EveryStepAdvances ==
  [][Len(data) <= OffsetCount - 3 =>
       \/ LoopOrder[phase'] > LoopOrder[phase]
       \/ phase' = phase /\ Further]_disassemblerVars

-----------------------------------------------------------------------------
(* The instructions of a file *)

After(o) == IF o < Len(data) THEN o + LengthOf[data[o + 1]] ELSE o

StartOf[n \in Nat] == IF n = 0 THEN 0 ELSE After(StartOf[n - 1])

\* Where instructions start, counting from the first byte, and where the last one ends
Starts == {StartOf[n] : n \in 0 .. Len(data)}

Instructions == {o \in Starts : o < Len(data)}
Limit == start + Len(data)

\* A flat file of whole instructions
Whole == binary.format = "flat" /\ Len(data) \in Starts

Leads(o) == data[o + 1] \in Jumps \cup BranchOpcodes
TargetOf(o) == Target(o, data[o + 2], IF o + 2 < Len(data) THEN data[o + 3] ELSE 0)
Targets == {TargetOf(o) : o \in {p \in Instructions : Leads(p)}}

\* After the truncation the table has the addresses of the file, or right behind it,
\* that some instruction leads to, and no other (reverse.c 412-435, symbols.c
\* 219-238).
LabelsAreTargets ==
  phase \in {"print", "rest", "done"} /\ Whole =>
    {symbols[i].address : i \in DOMAIN symbols} = {n \in Targets : n \in start .. Limit}

=============================================================================
