-------------------------- MODULE DisassemblerProofs --------------------------
(***************************************************************************)
(* Theorems about the disassembler, for every file, whatever may be behind *)
(* its end, and every limit on labels and offsets.                         *)
(***************************************************************************)
EXTENDS RoundTrip, SourceLinesProofs

Row == [label : Name \cup {NoName}, body : Listed]

-----------------------------------------------------------------------------
(* The file *)

\* The bytes of the file, and where it starts.
LEMMA FileType ==
  ASSUME binary \in Binary
  PROVE  data \in Seq(Byte) /\ start \in Word /\ Len(data) \in Nat
<1>1. data \in Seq(Byte) /\ binary.load \in Word /\ binary.format \in {"flat", "ines"}
  BY DEF Binary, data, Base
<1>2. Base[binary.format] + binary.load \in Int
  BY <1>1, WordBounds DEF Base
<1> QED
  BY <1>1, <1>2, WordType, LenProperties DEF start

\* A read gives a byte, within the file or behind it.
LEMMA BytesAtType ==
  ASSUME binary \in Binary, NEW i \in Nat
  PROVE  BytesAt(i) \subseteq Byte
<1>1. data \in Seq(Byte) /\ Len(data) \in Nat /\ StrayByte \subseteq Byte
  BY FileType, DisassemblerAssumption
<1>2. CASE i < Len(data)
  <2>1. i + 1 \in 1 .. Len(data)
    BY <1>1, <1>2
  <2>2. data[i + 1] \in Byte
    BY <1>1, <2>1, ElementOfSeq
  <2> QED
    BY <1>2, <2>2 DEF BytesAt
<1>3. CASE ~ (i < Len(data))
  BY <1>1, <1>3 DEF BytesAt
<1> QED
  BY <1>2, <1>3

\* The opcode at an offset within the file, and the length of its instruction.
LEMMA OpcodeType ==
  ASSUME binary \in Binary, offset \in Nat, offset < Len(data)
  PROVE  data[offset + 1] \in Byte /\ LengthOf[data[offset + 1]] \in 1 .. 3
<1>1. data \in Seq(Byte) /\ offset + 1 \in 1 .. Len(data)
  BY FileType
<1>2. data[offset + 1] \in Byte
  BY <1>1, ElementOfSeq
<1>3. \A b \in Byte : LengthOf[b] \in 1 .. 3
  BY DEF LengthOf
<1> QED
  BY <1>2, <1>3

\* Where an instruction leads is an address.
LEMMA TargetType ==
  ASSUME binary \in Binary, NEW at \in Nat, NEW second \in Byte, NEW third \in Byte
  PROVE  Target(at, second, third) \in Word
<1>1. /\ second \in Int /\ 0 <= second /\ second <= 255
      /\ third \in Int /\ 0 <= third /\ third <= 255
  BY ByteBounds
<1>2. second + 256 * third \in Word
  BY <1>1, WordBounds, Words
<1>3. start \in Int
  BY FileType, WordBounds
<1>4. Signed(second) \in Int
  BY <1>1 DEF Signed
<1>5. start + at + 2 + Signed(second) \in Int
  BY <1>3, <1>4
<1>6. (start + at + 2 + Signed(second)) % WordCount \in Word
  BY <1>5, WordType
<1> QED
  BY <1>2, <1>6 DEF Target

\* An offset that is cut to its width keeps it.
LEMMA OffsetType ==
  ASSUME NEW n \in Int PROVE n % OffsetCount \in 0 .. OffsetCount - 1
BY DisassemblerAssumption

-----------------------------------------------------------------------------
(* The listing *)

\* The operand that is printed is one.
LEMMA PrintedOperandType ==
  ASSUME NEW b \in Byte, NEW second \in Byte, NEW third \in Byte
  PROVE  OperandOf(b, second, third) \in Operand
<1>1. /\ second \in Int /\ 0 <= second /\ second <= 255
      /\ third \in Int /\ 0 <= third /\ third <= 255
  BY ByteBounds
<1>2. second \in Word /\ second + 256 * third \in Word
  BY <1>1, WordBounds, Words
<1>3. ASSUME NEW v \in Token, NEW shape \in Shape \ {"none", "A"}
      PROVE  Operand1(shape, v) \in Operand
  <2>1. <<v>> \in Seq(Token) /\ Len(<<v>>) = 1
    OBVIOUS
  <2> QED
    BY <2>1 DEF Operand1, Operand
<1>4. /\ Value(second, FALSE, "#") \in Token /\ Value(second, FALSE, "*") \in Token
      /\ Value(second, FALSE, "") \in Token /\ Word2(second, third) \in Token
  BY <1>2, ValueType DEF Word2
<1>5. /\ [shape |-> "A", terms |-> <<>>, operator |-> ""] \in Operand
      /\ [shape |-> "none", terms |-> <<>>, operator |-> ""] \in Operand
  <2>1. <<>> \in Seq(Token)
    OBVIOUS
  <2> QED
    BY <2>1, Zenon DEF Operand, Shape
<1>6. {"plain", ",X", ",Y", "()", "(,X)", "(),Y"} = Shape \ {"none", "A"}
  BY DEF Shape
<1> QED
  BY <1>3, <1>4, <1>5, <1>6, Zenon DEF OperandOf

\* A byte has a mnemonic, or none.
LEMMA MnemonicType ==
  ASSUME NEW b \in Byte, StringForOpcode(b) # "illegal"
  PROVE  StringForOpcode(b) \in Mnemonic
<1>1. MnemonicOf[b] = IF Meanings(b) = {} THEN "illegal" ELSE (CHOOSE p \in Meanings(b) : TRUE)[1]
  BY DEF MnemonicOf
<1>2. Meanings(b) # {}
  BY <1>1 DEF StringForOpcode
<1>3. (CHOOSE p \in Meanings(b) : TRUE) \in Mnemonic \X Mode
  BY <1>2 DEF Meanings
<1> QED
  BY <1>1, <1>2, <1>3 DEF StringForOpcode

\* The bodies that a listing has.
LEMMA ListedType ==
  /\ \A op \in Mnemonic, o \in Operand : Code(op, o) \in Listed
  /\ \A n \in Word : Org(n) \in Listed
  /\ Blank \in Listed /\ [kind |-> "illegal"] \in Listed /\ [kind |-> "string"] \in Listed
BY DEF Listed, Body, Code, Org

\* A row of it.
LEMMA RowType ==
  ASSUME NEW label \in Name \cup {NoName}, NEW b \in Listed
  PROVE  Line(label, b) \in Row /\ <<Line(label, b)>> \in Seq(Row)
<1>1. Line(label, b) \in Row
  BY DEF Line, Row
<1> QED
  BY <1>1

-----------------------------------------------------------------------------
(* The table *)

\* The search for an address finds a symbol that is there.
LEMMA AddressFoundAt ==
  ASSUME NEW t \in Seq(Symbol), NEW n, HasSymbol(t, n)
  PROVE  \E i \in DOMAIN t :
           t[i].address = n /\ SymbolForAddress(t, n) = t[i] /\ t[i] \in Symbol
<1> DEFINE Hits == {i \in DOMAIN t : t[i].address = n}
<1>1. Len(t) \in Nat /\ DOMAIN t = 1 .. Len(t) /\ \A i \in 1 .. Len(t) : t[i] \in Symbol
  BY LenProperties, ElementOfSeq
<1>2. Hits \subseteq Nat /\ Hits # {}
  BY <1>1 DEF HasSymbol
<1>3. PICK k \in Hits : \A j \in Hits : k <= j
  <2> HIDE DEF Hits
  <2> QED
    BY <1>2, Least
<1>4. k \in DOMAIN t /\ t[k].address = n /\ \A j \in 1 .. k - 1 : t[j].address # n
  <2>1. ASSUME NEW j \in 1 .. k - 1, t[j].address = n PROVE FALSE
    <3>1. j \in Hits /\ j < k /\ j \in Nat /\ k \in Nat
      BY <1>1, <2>1
    <3> QED
      BY <1>3, <3>1
  <2> QED
    BY <2>1
<1> DEFINE found == CHOOSE i \in DOMAIN t :
                      t[i].address = n /\ \A j \in 1 .. i - 1 : t[j].address # n
<1>5. found \in DOMAIN t /\ t[found].address = n
  BY <1>4
<1>6. SymbolForAddress(t, n) = t[found]
  BY DEF SymbolForAddress
<1> HIDE DEF found
<1> QED
  BY <1>1, <1>5, <1>6

\* An address that is found is that of a symbol
LEMMA AddressFound ==
  ASSUME NEW t \in Seq(Symbol), NEW n, HasSymbol(t, n)
  PROVE  SymbolForAddress(t, n) \in Symbol
BY AddressFoundAt

\* What stands where when a symbol is taken out.
LEMMA RemovedType ==
  ASSUME NEW t \in Seq(Symbol), NEW n \in DOMAIN t
  PROVE  LET u == SubSeq(t, 1, n - 1) \o SubSeq(t, n + 1, Len(t))
         IN  /\ u \in Seq(Symbol)
             /\ DOMAIN u = 1 .. Len(t) - 1
             /\ \A i \in 1 .. Len(t) - 1 : u[i] = IF i < n THEN t[i] ELSE t[i + 1]
<1> DEFINE head == SubSeq(t, 1, n - 1)
           tail == SubSeq(t, n + 1, Len(t))
           u == head \o tail
<1>1. /\ Len(t) \in Nat /\ DOMAIN t = 1 .. Len(t) /\ n \in 1 .. Len(t)
      /\ \A i \in 1 .. Len(t) : t[i] \in Symbol
  BY LenProperties, ElementOfSeq
<1>2. /\ head \in Seq(Symbol) /\ Len(head) = n - 1
      /\ \A i \in 1 .. n - 1 : head[i] = t[i]
  BY <1>1
<1>3. /\ tail \in Seq(Symbol) /\ Len(tail) = Len(t) - n
      /\ \A i \in 1 .. Len(t) - n : tail[i] = t[i + n]
  <2>1. tail = [i \in 1 .. Len(t) - (n + 1) + 1 |-> t[(n + 1) + i - 1]]
    BY <1>1
  <2> HIDE DEF tail
  <2>2. Len(t) - (n + 1) + 1 = Len(t) - n /\ Len(t) - n \in Nat
    BY <1>1
  <2>3. \A i \in 1 .. Len(t) - n : (n + 1) + i - 1 = i + n /\ i + n \in 1 .. Len(t)
    BY <1>1
  <2>4. tail = [i \in 1 .. Len(t) - n |-> t[i + n]]
    BY <2>1, <2>2, <2>3
  <2>5. \A i \in 1 .. Len(t) - n : t[i + n] \in Symbol
    BY <1>1, <2>3
  <2>6. tail \in Seq(Symbol)
    <3> DEFINE m == Len(t) - n
    <3>1. tail \in [1 .. m -> Symbol] /\ m \in Nat
      BY <2>2, <2>4, <2>5
    <3> HIDE DEF m
    <3> QED
      BY <3>1, SeqDef
  <2>7. Len(tail) = Len(t) - n
    BY <2>2, <2>4
  <2>8. \A i \in 1 .. Len(t) - n : tail[i] = t[i + n]
    BY <2>4
  <2> QED
    BY <2>6, <2>7, <2>8
<1> HIDE DEF head, tail
<1>4. u \in Seq(Symbol) /\ Len(u) = Len(t) - 1
  <2>1. u \in Seq(Symbol) /\ Len(u) = Len(head) + Len(tail)
    BY <1>2, <1>3, ConcatProperties
  <2> HIDE DEF u
  <2>2. (n - 1) + (Len(t) - n) = Len(t) - 1
    BY <1>1
  <2> QED
    BY <1>2, <1>3, <2>1, <2>2
<1>5. DOMAIN u = 1 .. Len(t) - 1
  BY <1>4
<1>6. ASSUME NEW i \in 1 .. Len(t) - 1
      PROVE  u[i] = IF i < n THEN t[i] ELSE t[i + 1]
  <2>1. CASE i < n
    <3>1. i \in 1 .. n - 1
      BY <1>1, <2>1
    <3>2. u[i] = head[i]
      BY <1>2, <1>3, <3>1, ConcatProperties
    <3> QED
      BY <1>2, <2>1, <3>1, <3>2
  <2>2. CASE ~ (i < n)
    <3>1. /\ i \in 1 .. Len(head) + Len(tail) /\ i > Len(head)
          /\ i - Len(head) \in 1 .. Len(t) - n /\ (i - Len(head)) + n = i + 1
      BY <1>1, <1>2, <1>3, <2>2
    <3>2. u[i] = tail[i - Len(head)]
      BY <1>2, <1>3, <3>1, ConcatProperties
    <3> QED
      BY <1>3, <2>2, <3>1, <3>2
  <2> QED
    BY <2>1, <2>2
<1> QED
  BY <1>4, <1>5, <1>6 DEF head, tail

-----------------------------------------------------------------------------
(* Lines that name symbols *)

\* An operand of one term.
LEMMA Operand1Type ==
  ASSUME NEW v \in Token PROVE Operand1("plain", v) \in Operand
<1>1. <<v>> \in Seq(Token) /\ Len(<<v>>) = 1
  OBVIOUS
<1> QED
  BY <1>1 DEF Operand1, Operand, Shape

\* The line of an instruction, with a label in the place of a word or not.
LEMMA InstructionType ==
  ASSUME symbols \in Seq(Symbol), NEW b \in Byte, NEW second \in Byte, NEW third \in Byte
  PROVE  InstructionLine(b, second, third) \in Listed
<1> DEFINE op == StringForOpcode(b)
           operand == OperandOf(b, second, third)
<1>1. CASE op = "illegal"
  BY <1>1, ListedType, Zenon DEF InstructionLine
<1>2. CASE op # "illegal"
  <2>1. op \in Mnemonic /\ operand \in Operand
    BY <1>2, MnemonicType, PrintedOperandType
  <2> HIDE DEF op, operand
  <2>2. CASE operand.terms # <<>> /\ HasSymbol(symbols, operand.terms[1].value)
    <3> DEFINE symbol == SymbolForAddress(symbols, operand.terms[1].value)
    <3>1. symbol \in Symbol
      BY <2>2, AddressFound
    <3> HIDE DEF symbol
    <3>2. Named(symbol.name) \in Token
      BY <3>1 DEF Named, Token, Symbol
    <3>3. Code(op, Operand1("plain", Named(symbol.name))) \in Listed
      BY <2>1, <3>2, Operand1Type, ListedType, Zenon
    <3>4. Symbolicate(op, operand) \in Listed
      BY <2>1, <3>3, ListedType, Zenon DEF Symbolicate, symbol
    <3> QED
      BY <1>2, <3>4, Zenon DEF InstructionLine, op, operand
  <2>3. CASE ~ (operand.terms # <<>> /\ HasSymbol(symbols, operand.terms[1].value))
    <3>1. Symbolicate(op, operand) \in Listed
      BY <2>1, <2>3, ListedType, Zenon DEF Symbolicate
    <3> QED
      BY <1>2, <3>1, Zenon DEF InstructionLine, op, operand
  <2> QED
    BY <2>2, <2>3
<1> QED
  BY <1>1, <1>2

\* The line of a label.
LEMMA LabelLineType ==
  ASSUME NEW symbol \in Symbol
  PROVE  LabelLine(symbol.name) \in Row /\ <<LabelLine(symbol.name)>> \in Seq(Row)
<1>1. symbol.name \in Name
  BY DEF Symbol
<1>2. (IF insideOfString THEN [kind |-> "string"] ELSE Blank) \in Listed
  BY ListedType, Zenon
<1> QED
  BY <1>1, <1>2, RowType, Zenon DEF LabelLine

\* The lines before an instruction.
LEMMA LabelLinesType ==
  ASSUME symbols \in Seq(Symbol) PROVE LabelLines \in Seq(Row)
<1>1. <<>> \in Seq(Row)
  OBVIOUS
<1> QED
  BY <1>1, AddressFound, LabelLineType, Zenon DEF LabelLines

\* The lines of a label that was not met.
LEMMA RestLinesType ==
  ASSUME NEW symbol \in Symbol PROVE RestLines(symbol) \in Seq(Row)
<1>1. <<>> \in Seq(Row)
  OBVIOUS
<1>2. symbol.address \in Word
  BY DEF Symbol
<1>3. Line(NoName, Org(symbol.address)) \in Row
  BY <1>2, ListedType, RowType, Zenon
<1>4. <<Line(NoName, Org(symbol.address)), LabelLine(symbol.name)>> \in Seq(Row)
  <2>1. LabelLine(symbol.name) \in Row
    BY LabelLineType
  <2> QED
    BY <1>3, <2>1
<1> QED
  BY <1>1, <1>4, LabelLineType, Zenon DEF RestLines

-----------------------------------------------------------------------------
(* The invariant *)

\* The number of the next label is behind those in use.
NumbersAreUsed == \A i \in DOMAIN symbols : symbols[i].name \in 1 .. currentLabel - 1

Inv == DisassemblerTypeOK /\ NumbersAreUsed /\ LabelsAreDistinct

LEMMA InitInv == ASSUME DisassemblerInit PROVE Inv
<1>1. binary \in Binary
  BY DisassemblerAssumption DEF DisassemblerInit
<1>2. listing \in Seq(Row)
  <2>1. start \in Word
    BY <1>1, FileType
  <2>2. <<Line(NoName, Org(start))>> \in Seq(Row) /\ <<>> \in Seq(Row)
    BY <2>1, ListedType, RowType
  <2> QED
    BY <2>2, Zenon DEF DisassemblerInit
<1>3. 0 \in Byte /\ 0 \in 0 .. OffsetCount - 1 /\ 1 \in 1 .. LabelBound + 1
  BY ByteBounds, DisassemblerAssumption
<1>4. symbols = <<>> /\ symbols \in Seq(Symbol) /\ DOMAIN symbols = {}
  BY DEF DisassemblerInit
<1>5. DisassemblerTypeOK
  <2>1. /\ phase = "derive" /\ offset = 0 /\ currentLabel = 1 /\ this = 1 /\ high = 0
        /\ low = 0 /\ insideOfString = FALSE /\ highestOffset = 0
    BY DEF DisassemblerInit
  <2>2. this \in Nat \ {0} /\ highestOffset \in Nat
    BY <2>1
  <2>3. phase \in {"derive", "truncate", "print", "rest", "done", "undefined"}
    BY <2>1
  <2>4. insideOfString \in BOOLEAN
    BY <2>1
  <2> QED
    BY <1>1, <1>2, <1>3, <1>4, <2>1, <2>2, <2>3, <2>4, Zenon DEF DisassemblerTypeOK, Row
<1>6. NumbersAreUsed /\ LabelsAreDistinct
  BY <1>4 DEF NumbersAreUsed, LabelsAreDistinct
<1> QED
  BY <1>5, <1>6 DEF Inv

\* What an action leaves alone where it touches neither the table nor the number.
LEMMA TableKept ==
  ASSUME Inv, UNCHANGED <<symbols, currentLabel>>
  PROVE  NumbersAreUsed' /\ LabelsAreDistinct'
BY DEF Inv, NumbersAreUsed, LabelsAreDistinct

\* The offset after an instruction.
LEMMA AdvanceType ==
  ASSUME Inv, offset < Len(data), Advance PROVE offset' \in 0 .. OffsetCount - 1
<1>1. binary \in Binary /\ offset \in Nat
  BY DisassemblerAssumption DEF Inv, DisassemblerTypeOK
<1>2. LengthOf[data[offset + 1]] \in 1 .. 3
  BY <1>1, OpcodeType
<1>3. offset + LengthOf[data[offset + 1]] \in Int
  BY <1>1, <1>2
<1> QED
  BY <1>3, OffsetType DEF Advance

\* A new label: its number is not in use, and nothing is at its address.
LEMMA NewLabel ==
  ASSUME Inv, NEW n \in Word, ~ HasSymbol(symbols, n), currentLabel <= LabelBound,
         symbols' = WithLabelAt(n), currentLabel' = currentLabel + 1
  PROVE  symbols' \in Seq(Symbol) /\ NumbersAreUsed' /\ LabelsAreDistinct'
<1> DEFINE s == [name |-> currentLabel, address |-> n, type |-> "label", line |-> 0]
<1>1. /\ symbols \in Seq(Symbol) /\ currentLabel \in Nat /\ currentLabel \in 1 .. LabelBound
      /\ 1 .. LabelBound \subseteq Name
  BY DisassemblerAssumption DEF Inv, DisassemblerTypeOK
<1>2. s \in Symbol
  BY <1>1 DEF Symbol, SymbolType
<1>3. Len(symbols) \in Nat /\ DOMAIN symbols = 1 .. Len(symbols)
  BY <1>1, LenProperties
<1>4. \A i \in DOMAIN symbols : symbols[i].name \in 1 .. currentLabel - 1
  BY DEF Inv, NumbersAreUsed
<1>5. \A i \in DOMAIN symbols : symbols[i].name # currentLabel /\ symbols[i].address # n
  BY <1>1, <1>4 DEF HasSymbol
<1>6. s.name = currentLabel /\ s.address = n
  OBVIOUS
<1> HIDE DEF s
<1>7. ~ Conflicts(symbols, s)
  BY <1>5, <1>6 DEF Conflicts, IsNamed
<1>8. symbols' = Inserted(symbols, s)
  BY <1>7 DEF WithLabelAt, AddSymbol, s
<1>9. /\ symbols' \in Seq(Symbol) /\ DOMAIN symbols' = 1 .. Len(symbols) + 1
      /\ \A i \in 1 .. Len(symbols) + 1 :
           symbols'[i] = IF i <= Before(symbols, s) THEN symbols[i]
                         ELSE IF i = Before(symbols, s) + 1 THEN s ELSE symbols[i - 1]
  <2> DEFINE u == Inserted(symbols, s)
  <2>1. /\ u \in Seq(Symbol) /\ DOMAIN u = 1 .. Len(symbols) + 1
        /\ \A i \in 1 .. Len(symbols) + 1 :
             u[i] = IF i <= Before(symbols, s) THEN symbols[i]
                    ELSE IF i = Before(symbols, s) + 1 THEN s ELSE symbols[i - 1]
    BY <1>1, <1>2, InsertedType
  <2>2. symbols' = u
    BY <1>8
  <2> HIDE DEF u
  <2> QED
    BY <2>1, <2>2
<1>10. Before(symbols, s) \in 0 .. Len(symbols)
  BY <1>1, <1>2, BeforeType
<1> DEFINE k == Before(symbols, s)
           at(i) == IF i <= k THEN i ELSE i - 1
<1> HIDE DEF k
<1>11. \A i \in DOMAIN symbols' :
         \/ i = k + 1 /\ symbols'[i] = s
         \/ i # k + 1 /\ at(i) \in DOMAIN symbols /\ symbols'[i] = symbols[at(i)]
  BY <1>3, <1>9, <1>10 DEF k
<1>12. \A i, j \in DOMAIN symbols' : i # j /\ i # k + 1 /\ j # k + 1 => at(i) # at(j)
  BY <1>3, <1>9, <1>10 DEF k
<1> HIDE DEF at
<1>13. NumbersAreUsed'
  <2>1. ASSUME NEW i \in DOMAIN symbols' PROVE symbols'[i].name \in 1 .. currentLabel' - 1
    <3>1. CASE symbols'[i] = s
      BY <1>1, <1>6, <3>1
    <3>2. CASE at(i) \in DOMAIN symbols /\ symbols'[i] = symbols[at(i)]
      BY <1>1, <1>4, <3>2
    <3> QED
      BY <1>11, <3>1, <3>2
  <2> QED
    BY <2>1 DEF NumbersAreUsed
<1>14. LabelsAreDistinct'
  <2>1. ASSUME NEW i \in DOMAIN symbols', NEW j \in DOMAIN symbols', i # j
        PROVE  /\ symbols'[i].name # symbols'[j].name
               /\ symbols'[i].address # symbols'[j].address
    <3>1. CASE i = k + 1
      BY <1>5, <1>6, <1>11, <2>1, <3>1
    <3>2. CASE j = k + 1
      BY <1>5, <1>6, <1>11, <2>1, <3>2
    <3>3. CASE i # k + 1 /\ j # k + 1
      <4>1. /\ at(i) \in DOMAIN symbols /\ symbols'[i] = symbols[at(i)]
            /\ at(j) \in DOMAIN symbols /\ symbols'[j] = symbols[at(j)]
            /\ at(i) # at(j)
        BY <1>11, <1>12, <2>1, <3>3
      <4> QED
        BY <4>1, Zenon DEF Inv, LabelsAreDistinct
    <3> QED
      BY <3>1, <3>2, <3>3
  <2> QED
    BY <2>1 DEF LabelsAreDistinct
<1> QED
  BY <1>9, <1>13, <1>14

\* A symbol is taken out.
LEMMA LessOne ==
  ASSUME Inv, NEW k \in DOMAIN symbols,
         symbols' = SubSeq(symbols, 1, k - 1) \o SubSeq(symbols, k + 1, Len(symbols)),
         currentLabel' = currentLabel
  PROVE  symbols' \in Seq(Symbol) /\ NumbersAreUsed' /\ LabelsAreDistinct'
<1>1. symbols \in Seq(Symbol)
  BY DEF Inv, DisassemblerTypeOK
<1>2. Len(symbols) \in Nat /\ DOMAIN symbols = 1 .. Len(symbols) /\ k \in Nat
  BY <1>1, LenProperties
<1>3. /\ symbols' \in Seq(Symbol) /\ DOMAIN symbols' = 1 .. Len(symbols) - 1
      /\ \A i \in 1 .. Len(symbols) - 1 :
           symbols'[i] = IF i < k THEN symbols[i] ELSE symbols[i + 1]
  BY <1>1, RemovedType, Zenon
<1> DEFINE at(i) == IF i < k THEN i ELSE i + 1
<1>4. ASSUME NEW i \in DOMAIN symbols'
      PROVE  at(i) \in DOMAIN symbols /\ symbols'[i] = symbols[at(i)]
  <2>1. i \in 1 .. Len(symbols) - 1 /\ at(i) \in DOMAIN symbols
    BY <1>2, <1>3
  <2>2. symbols'[i] = IF i < k THEN symbols[i] ELSE symbols[i + 1]
    BY <1>3, <2>1, Zenon
  <2>3. symbols'[i] = symbols[at(i)]
    BY <2>2, Zenon
  <2> QED
    BY <2>1, <2>3
<1>5. \A i, j \in DOMAIN symbols' : i # j => at(i) # at(j)
  BY <1>2, <1>3
<1> HIDE DEF at
<1>6. NumbersAreUsed'
  BY <1>4 DEF Inv, NumbersAreUsed
<1>7. LabelsAreDistinct'
  <2>1. ASSUME NEW i \in DOMAIN symbols', NEW j \in DOMAIN symbols', i # j
        PROVE  /\ symbols'[i].name # symbols'[j].name
               /\ symbols'[i].address # symbols'[j].address
    <3>1. /\ at(i) \in DOMAIN symbols /\ symbols'[i] = symbols[at(i)]
          /\ at(j) \in DOMAIN symbols /\ symbols'[j] = symbols[at(j)]
          /\ at(i) # at(j)
      BY <1>4, <1>5, <2>1
    <3> QED
      BY <3>1, Zenon DEF Inv, LabelsAreDistinct
  <2> QED
    BY <2>1 DEF LabelsAreDistinct
<1> QED
  BY <1>3, <1>6, <1>7

-----------------------------------------------------------------------------
(* The actions *)

\* The labels are derived.
LEMMA DeriveStep == ASSUME Inv, Derive PROVE Inv'
<1>1. DisassemblerTypeOK /\ binary \in Binary /\ offset \in Nat
  BY DisassemblerAssumption DEF Inv, DisassemblerTypeOK
<1>2. CASE DeriveLabel
  <2>1. offset < Len(data) /\ Advance
    BY <1>2 DEF DeriveLabel
  <2>2. PICK second \in BytesAt(offset + 1), third \in BytesAt(offset + 2) :
          LET n == Target(offset, second, third) IN
          /\ HasSymbol(symbols, n) \/ currentLabel <= LabelBound
          /\ symbols' = WithLabelAt(n)
          /\ currentLabel' = IF HasSymbol(symbols, n) THEN currentLabel ELSE currentLabel + 1
    BY <1>2, Zenon DEF DeriveLabel
  <2> DEFINE n == Target(offset, second, third)
  <2>3. n \in Word
    <3>1. second \in Byte /\ third \in Byte
      BY <1>1, BytesAtType
    <3> QED
      BY <1>1, <3>1, TargetType
  <2>4. /\ HasSymbol(symbols, n) \/ currentLabel <= LabelBound
        /\ symbols' = WithLabelAt(n)
        /\ currentLabel' = IF HasSymbol(symbols, n) THEN currentLabel ELSE currentLabel + 1
    BY <2>2
  <2> HIDE DEF n
  <2>5. offset' \in 0 .. OffsetCount - 1
    BY <2>1, AdvanceType
  <2>6. CASE HasSymbol(symbols, n)
    <3>1. symbols' = symbols /\ currentLabel' = currentLabel
      BY <2>4, <2>6, Zenon DEF WithLabelAt
    <3>2. DisassemblerTypeOK'
      BY <1>1, <1>2, <2>5, <3>1, Zenon DEF DisassemblerTypeOK, DeriveLabel
    <3> QED
      BY <3>1, <3>2, TableKept DEF Inv
  <2>7. CASE ~ HasSymbol(symbols, n)
    <3>1. currentLabel <= LabelBound /\ currentLabel' = currentLabel + 1
      BY <2>4, <2>7
    <3>2. symbols' \in Seq(Symbol) /\ NumbersAreUsed' /\ LabelsAreDistinct'
      BY <2>3, <2>4, <2>7, <3>1, NewLabel
    <3>3. currentLabel' \in 1 .. LabelBound + 1
      BY <1>1, <3>1, DisassemblerAssumption DEF DisassemblerTypeOK
    <3>4. DisassemblerTypeOK'
      BY <1>1, <1>2, <2>5, <3>2, <3>3, Zenon DEF DisassemblerTypeOK, DeriveLabel
    <3> QED
      BY <3>2, <3>4 DEF Inv
  <2> QED
    BY <2>6, <2>7
<1>3. CASE DeriveNone
  <2>1. offset' \in 0 .. OffsetCount - 1
    BY <1>3, AdvanceType DEF DeriveNone
  <2>2. DisassemblerTypeOK'
    BY <1>1, <1>3, <2>1, Zenon DEF DisassemblerTypeOK, DeriveNone
  <2> QED
    BY <1>3, <2>2, TableKept DEF Inv, DeriveNone
<1>4. CASE EndDerive
  <2>1. 0 \in 0 .. OffsetCount - 1
    BY DisassemblerAssumption
  <2>2. phase' \in {"derive", "truncate", "print", "rest", "done", "undefined"}
    BY <1>4 DEF EndDerive
  <2>3. DisassemblerTypeOK'
    BY <1>1, <1>4, <2>1, <2>2, Zenon DEF DisassemblerTypeOK, EndDerive
  <2> QED
    BY <1>4, <2>3, TableKept DEF Inv, EndDerive
<1> QED
  BY <1>2, <1>3, <1>4 DEF Derive

\* What is outside of the blob is removed.
LEMMA TruncateStep == ASSUME Inv, Truncate PROVE Inv'
<1>1. DisassemblerTypeOK /\ this \in Nat \ {0} /\ this + 1 \in Nat \ {0} /\ 1 \in Nat \ {0}
  BY DEF Inv, DisassemblerTypeOK
<1>2. CASE TruncateSymbol
  <2>1. CASE Outside(symbols[this])
    <3>1. /\ this \in DOMAIN symbols /\ currentLabel' = currentLabel /\ this' = this
          /\ symbols' = SubSeq(symbols, 1, this - 1) \o SubSeq(symbols, this + 1, Len(symbols))
      BY <1>2, <2>1 DEF TruncateSymbol
    <3>2. symbols' \in Seq(Symbol) /\ NumbersAreUsed' /\ LabelsAreDistinct'
      BY <3>1, LessOne
    <3>3. DisassemblerTypeOK'
      BY <1>1, <1>2, <3>1, <3>2, Zenon DEF DisassemblerTypeOK, TruncateSymbol
    <3> QED
      BY <3>2, <3>3 DEF Inv
  <2>2. CASE ~ Outside(symbols[this])
    <3>1. symbols' = symbols /\ this' = this + 1 /\ currentLabel' = currentLabel
      BY <1>2, <2>2 DEF TruncateSymbol
    <3>2. DisassemblerTypeOK'
      BY <1>1, <1>2, <3>1, Zenon DEF DisassemblerTypeOK, TruncateSymbol
    <3> QED
      BY <3>1, <3>2, TableKept DEF Inv
  <2> QED
    BY <2>1, <2>2
<1>3. CASE EndTruncate
  <2>1. phase' \in {"derive", "truncate", "print", "rest", "done", "undefined"}
    BY <1>3 DEF EndTruncate
  <2>2. DisassemblerTypeOK'
    BY <1>1, <1>3, <2>1, Zenon DEF DisassemblerTypeOK, EndTruncate
  <2> QED
    BY <1>3, <2>2, TableKept DEF Inv, EndTruncate
<1> QED
  BY <1>2, <1>3 DEF Truncate

\* The operand bytes stay bytes.
LEMMA FetchType == ASSUME Inv, FetchOperands PROVE high' \in Byte /\ low' \in Byte
<1>1. /\ binary \in Binary /\ offset \in Nat /\ high \in Byte /\ low \in Byte
      /\ data \in Seq(Byte) /\ Len(data) \in Nat
  BY FileType, DisassemblerAssumption DEF Inv, DisassemblerTypeOK
<1>2. offset + 2 < Len(data) => data[offset + 2] \in Byte
  BY <1>1, ElementOfSeq
<1>3. BytesAt(offset + 2) \subseteq Byte
  BY <1>1, BytesAtType
<1> QED
  BY <1>1, <1>2, <1>3, Zenon DEF FetchOperands

\* The file is printed.
LEMMA PrintStep == ASSUME Inv, PrintBlob PROVE Inv'
<1>1. /\ DisassemblerTypeOK /\ binary \in Binary /\ offset \in Nat /\ symbols \in Seq(Symbol)
      /\ listing \in Seq(Row) /\ highestOffset \in Nat
  BY DisassemblerAssumption DEF Inv, DisassemblerTypeOK, Row
<1>2. LabelLines \in Seq(Row)
  BY <1>1, LabelLinesType
<1>3. listing \o LabelLines \in Seq(Row)
  BY <1>1, <1>2, ConcatProperties
<1>4. ASSUME NEW b \in Listed PROVE listing \o LabelLines \o <<Line(NoName, b)>> \in Seq(Row)
  BY <1>3, <1>4, RowType, ConcatProperties
<1>5. ASSUME listing' \in Seq(Row), offset' \in 0 .. OffsetCount - 1, high' \in Byte,
             low' \in Byte, insideOfString' \in BOOLEAN, highestOffset' \in Nat, phase' = phase,
             UNCHANGED <<binary, symbols, currentLabel, this>>
      PROVE  Inv'
  <2>1. DisassemblerTypeOK'
    BY <1>1, <1>5, Zenon DEF DisassemblerTypeOK, Row
  <2> QED
    BY <1>5, <2>1, TableKept DEF Inv
<1>6. CASE PrintCharacter
  <2>1. offset' \in 0 .. OffsetCount - 1 /\ insideOfString' \in BOOLEAN
    BY <1>1, <1>6, OffsetType DEF PrintCharacter
  <2>2. listing' \in Seq(Row)
    BY <1>3, <1>6 DEF PrintCharacter
  <2> QED
    BY <1>1, <1>5, <1>6, <2>1, <2>2 DEF PrintCharacter, DisassemblerTypeOK
<1>7. CASE LeaveString
  <2>1. listing' \in Seq(Row)
    BY <1>3, <1>7 DEF LeaveString
  <2> QED
    BY <1>1, <1>5, <1>7, <2>1 DEF LeaveString, DisassemblerTypeOK
<1>8. CASE EnterString
  <2>1. listing' \in Seq(Row)
    BY <1>4, <1>8, ListedType DEF EnterString
  <2>2. high' \in Byte /\ low' \in Byte
    BY <1>8, FetchType DEF EnterString
  <2> QED
    BY <1>1, <1>5, <1>8, <2>1, <2>2 DEF EnterString, DisassemblerTypeOK
<1>9. CASE PrintInstruction
  <2>1. offset < Len(data) /\ Advance /\ FetchOperands
    BY <1>9 DEF PrintInstruction, AtByte
  <2>2. high' \in Byte /\ low' \in Byte /\ opcode \in Byte
    BY <1>1, <2>1, FetchType, OpcodeType DEF opcode
  <2>3. InstructionLine(opcode, high', low') \in Listed
    BY <1>1, <2>2, InstructionType
  <2>4. listing' \in Seq(Row)
    BY <1>4, <1>9, <2>3 DEF PrintInstruction
  <2>5. offset' \in 0 .. OffsetCount - 1 /\ offset' \in Nat
    BY <2>1, AdvanceType, DisassemblerAssumption
  <2>6. highestOffset' \in Nat
    BY <1>1, <1>9, <2>5 DEF PrintInstruction
  <2> QED
    BY <1>1, <1>5, <1>9, <2>2, <2>4, <2>5, <2>6 DEF PrintInstruction, DisassemblerTypeOK
<1>10. CASE EndPrint
  <2>1. phase' \in {"derive", "truncate", "print", "rest", "done", "undefined"}
    BY <1>10 DEF EndPrint
  <2>2. DisassemblerTypeOK'
    BY <1>1, <1>10, <2>1, Zenon DEF DisassemblerTypeOK, EndPrint
  <2> QED
    BY <1>10, <2>2, TableKept DEF Inv, EndPrint
<1> QED
  BY <1>6, <1>7, <1>8, <1>9, <1>10 DEF PrintBlob

\* The labels that were not met are printed.
LEMMA RestStep == ASSUME Inv, Rest PROVE Inv'
<1>1. /\ DisassemblerTypeOK /\ symbols \in Seq(Symbol) /\ listing \in Seq(Row)
      /\ this \in Nat \ {0} /\ this + 1 \in Nat \ {0}
  BY DEF Inv, DisassemblerTypeOK, Row
<1>2. CASE PrintRest
  <2>1. this \in 1 .. Len(symbols)
    BY <1>1, <1>2, LenProperties DEF PrintRest
  <2>2. symbols[this] \in Symbol
    BY <1>1, <2>1, ElementOfSeq
  <2>3. listing \o RestLines(symbols[this]) \in Seq(Row)
    BY <1>1, <2>2, RestLinesType, ConcatProperties
  <2>4. DisassemblerTypeOK'
    BY <1>1, <1>2, <2>3, Zenon DEF DisassemblerTypeOK, PrintRest, Row
  <2> QED
    BY <1>2, <2>4, TableKept DEF Inv, PrintRest
<1>3. CASE EndRest
  <2>1. phase' \in {"derive", "truncate", "print", "rest", "done", "undefined"}
    BY <1>3 DEF EndRest
  <2>2. DisassemblerTypeOK'
    BY <1>1, <1>3, <2>1, Zenon DEF DisassemblerTypeOK, EndRest
  <2> QED
    BY <1>3, <2>2, TableKept DEF Inv, EndRest
<1> QED
  BY <1>2, <1>3 DEF Rest

-----------------------------------------------------------------------------
(* Types and labels *)

LEMMA Invariance == DisassemblerSpec => []Inv
<1>1. DisassemblerInit => Inv
  BY InitInv
<1>2. Inv /\ [DisassemblerNext]_disassemblerVars => Inv'
  <2> SUFFICES ASSUME Inv, [DisassemblerNext]_disassemblerVars PROVE Inv'
    OBVIOUS
  <2>1. CASE DisassemblerNext
    BY <2>1, DeriveStep, TruncateStep, PrintStep, RestStep DEF DisassemblerNext
  <2>2. CASE UNCHANGED disassemblerVars
    <3>1. DisassemblerTypeOK'
      BY <2>2, Zenon DEF Inv, DisassemblerTypeOK, disassemblerVars
    <3> QED
      BY <2>2, <3>1, TableKept DEF Inv, disassemblerVars
  <2> QED
    BY <2>1, <2>2
<1> QED
  BY <1>1, <1>2, PTL DEF DisassemblerSpec

\* The variables of the disassembler keep their types whatever file it is given: the
\* addresses it makes labels of are words, what it lists has the form of a source line,
\* and what it reads behind the end of the blob disturbs neither (dis6502/main.c 51-168).
THEOREM TypeCorrect == DisassemblerSpec => []DisassemblerTypeOK
<1>1. Inv => DisassemblerTypeOK
  BY DEF Inv
<1> QED
  BY <1>1, Invariance, PTL

\* Labels and the addresses they stand for stay one to one, from the first branch to the
\* end of the listing, through every insertion by the length of a name and every removal
\* (reverse.c 428-431, symbols.c 130-235).
THEOREM LabelsStayDistinct == DisassemblerSpec => []LabelsAreDistinct
<1>1. Inv => LabelsAreDistinct
  BY DEF Inv
<1> QED
  BY <1>1, Invariance, PTL

-----------------------------------------------------------------------------
(* The instructions of a file *)

\* The recursion that StartOf is defined by has a solution.
LEMMA StartsFollow ==
  ASSUME binary \in Binary
  PROVE  /\ StartOf[0] = 0
         /\ \A n \in Nat : StartOf[n] \in Nat /\ StartOf[n + 1] = After(StartOf[n])
<1> DEFINE next == [o \in Nat |-> After(o)]
<1>1. data \in Seq(Byte) /\ Len(data) \in Nat
  <2>1. data \in Seq(Byte)
    BY DEF Binary, data
  <2> QED BY <2>1, LenProperties
<1>2. ASSUME NEW o \in Nat PROVE After(o) \in Nat
  <2>1. CASE o < Len(data)
    <3>1. o + 1 \in 1 .. Len(data)
      BY <1>1, <2>1
    <3>2. data[o + 1] \in Byte
      BY <1>1, <3>1, ElementOfSeq
    <3>3. LengthOf[data[o + 1]] \in 1 .. 3
      <4>1. \A b \in Byte : LengthOf[b] \in 1 .. 3
        BY DEF LengthOf
      <4> QED BY <3>2, <4>1
    <3> QED BY <2>1, <3>3 DEF After
  <2>2. CASE ~ (o < Len(data))
    BY <2>2 DEF After
  <2> QED BY <2>1, <2>2
<1>3. next \in [Nat -> Nat]
  BY <1>2
<1>4. PICK g \in [Nat -> Nat] : g[0] = 0 /\ \A n \in Nat \ {0} : g[n] = next[g[n - 1]]
  BY <1>3, Iterates, Zenon
<1>5. ASSUME NEW n \in Nat PROVE g[n] = IF n = 0 THEN 0 ELSE After(g[n - 1])
  <2>1. n # 0 => n - 1 \in Nat
    OBVIOUS
  <2> QED BY <1>4, <2>1
<1>6. g = [n \in Nat |-> IF n = 0 THEN 0 ELSE After(g[n - 1])]
  BY <1>5
<1>7. StartOf = [n \in Nat |-> IF n = 0 THEN 0 ELSE After(StartOf[n - 1])]
  BY <1>6, Zenon DEF StartOf
<1>8. StartOf[0] = 0 /\ \A n \in Nat \ {0} : StartOf[n] = After(StartOf[n - 1])
  <2>1. \A n \in Nat : StartOf[n] = IF n = 0 THEN 0 ELSE After(StartOf[n - 1])
    BY <1>7, Zenon
  <2> QED BY <2>1
<1>9. ASSUME NEW n \in Nat PROVE StartOf[n] \in Nat
  <2> DEFINE Bad == {i \in Nat : StartOf[i] \notin Nat}
  <2>1. CASE Bad = {}
    BY <2>1
  <2>2. CASE Bad # {}
    <3>1. PICK k \in Bad : \A j \in Bad : k <= j
      <4>1. Bad \subseteq Nat
        OBVIOUS
      <4> HIDE DEF Bad
      <4> QED BY <2>2, <4>1, Least
    <3>2. k \in Nat /\ k # 0
      BY <1>8, <3>1
    <3>3. k - 1 \in Nat /\ ~ (k <= k - 1)
      BY <3>2
    <3>4. StartOf[k - 1] \in Nat
      BY <3>1, <3>3
    <3> QED BY <1>2, <1>8, <3>1, <3>2, <3>4
  <2> QED BY <2>1, <2>2
<1>10. ASSUME NEW n \in Nat PROVE StartOf[n + 1] = After(StartOf[n])
  <2>1. n + 1 \in Nat \ {0} /\ (n + 1) - 1 = n
    OBVIOUS
  <2> QED BY <1>8, <2>1
<1> QED
  BY <1>8, <1>9, <1>10

\* The start behind another lies no lower, and above it within the file.
LEMMA AfterGrows ==
  ASSUME binary \in Binary, NEW o \in Nat
  PROVE  After(o) \in Nat /\ o <= After(o) /\ (o < Len(data) => o + 1 <= After(o))
<1>1. CASE o < Len(data)
  <2>1. data \in Seq(Byte) /\ Len(data) \in Nat
    BY FileType
  <2>2. o + 1 \in 1 .. Len(data)
    BY <1>1, <2>1
  <2>3. data[o + 1] \in Byte
    BY <2>1, <2>2, ElementOfSeq
  <2>4. LengthOf[data[o + 1]] \in 1 .. 3
    <3>1. \A b \in Byte : LengthOf[b] \in 1 .. 3
      BY DEF LengthOf
    <3> QED BY <2>3, <3>1
  <2> QED BY <1>1, <2>4 DEF After
<1>2. CASE ~ (o < Len(data))
  BY <1>2 DEF After
<1> QED
  BY <1>1, <1>2

\* The starts keep the order of their numbers.
LEMMA StartsAscend ==
  ASSUME binary \in Binary
  PROVE  \A m, n \in Nat : m <= n => StartOf[m] <= StartOf[n]
<1> SUFFICES ASSUME NEW m \in Nat, NEW n \in Nat, m <= n, ~ (StartOf[m] <= StartOf[n])
             PROVE  FALSE
  OBVIOUS
<1> DEFINE Bad == {i \in Nat : m <= i /\ ~ (StartOf[m] <= StartOf[i])}
<1>1. PICK k \in Bad : \A j \in Bad : k <= j
  <2>1. Bad \subseteq Nat /\ Bad # {}
    OBVIOUS
  <2> HIDE DEF Bad
  <2> QED BY <2>1, Least
<1>2. k \in Nat /\ m <= k /\ ~ (StartOf[m] <= StartOf[k]) /\ StartOf[m] \in Nat
  BY <1>1, StartsFollow
<1>3. k # m
  BY <1>2
<1>4. k - 1 \in Nat /\ m <= k - 1 /\ ~ (k <= k - 1) /\ (k - 1) + 1 = k
  BY <1>2, <1>3
<1>5. StartOf[m] <= StartOf[k - 1]
  BY <1>1, <1>4
<1>6. StartOf[k - 1] \in Nat /\ StartOf[k] = After(StartOf[k - 1])
  BY <1>4, StartsFollow
<1>7. StartOf[k - 1] <= StartOf[k] /\ StartOf[k] \in Nat
  BY <1>6, AfterGrows
<1> QED
  BY <1>2, <1>5, <1>6, <1>7

\* Each instruction has a byte at least: a start within the file is no lower than its number.
LEMMA StartsAdvance ==
  ASSUME binary \in Binary
  PROVE  \A n \in Nat : n <= StartOf[n] \/ Len(data) <= StartOf[n]
<1> SUFFICES ASSUME NEW n \in Nat, ~ (n <= StartOf[n]), ~ (Len(data) <= StartOf[n])
             PROVE  FALSE
  OBVIOUS
<1> DEFINE Bad == {i \in Nat : ~ (i <= StartOf[i]) /\ ~ (Len(data) <= StartOf[i])}
<1>1. PICK k \in Bad : \A j \in Bad : k <= j
  <2>1. Bad \subseteq Nat /\ Bad # {}
    OBVIOUS
  <2> HIDE DEF Bad
  <2> QED BY <2>1, Least
<1>2. k \in Nat /\ ~ (k <= StartOf[k]) /\ ~ (Len(data) <= StartOf[k]) /\ Len(data) \in Nat
  BY <1>1, FileType
<1>3. StartOf[k] \in Nat /\ k # 0
  BY <1>2, StartsFollow
<1>4. k - 1 \in Nat /\ ~ (k <= k - 1) /\ (k - 1) + 1 = k
  BY <1>2, <1>3
<1>5. k - 1 <= StartOf[k - 1] \/ Len(data) <= StartOf[k - 1]
  BY <1>1, <1>4
<1>6. StartOf[k - 1] \in Nat /\ StartOf[k] = After(StartOf[k - 1])
  BY <1>4, StartsFollow
<1>7. /\ StartOf[k - 1] <= StartOf[k]
      /\ StartOf[k - 1] < Len(data) => StartOf[k - 1] + 1 <= StartOf[k]
  BY <1>6, AfterGrows
<1> QED
  BY <1>2, <1>3, <1>5, <1>6, <1>7

\* From one start the loop goes to the next, and there is none between.
LEMMA NextStart ==
  ASSUME binary \in Binary, NEW o \in Starts, o < Len(data)
  PROVE  After(o) \in Starts /\ \A p \in Starts : p <= o \/ After(o) <= p
<1>1. Len(data) \in Nat
  BY FileType
<1>2. PICK j \in 0 .. Len(data) : o = StartOf[j]
  BY DEF Starts
<1>3. j \in Nat /\ o \in Nat /\ StartOf[j + 1] = After(o)
  BY <1>1, <1>2, StartsFollow
<1>4. j <= o
  BY <1>1, <1>2, <1>3, StartsAdvance
<1>5. j + 1 \in 0 .. Len(data) /\ j + 1 \in Nat
  BY <1>1, <1>3, <1>4
<1>6. After(o) \in Starts
  BY <1>3, <1>5 DEF Starts
<1>7. ASSUME NEW p \in Starts PROVE p <= o \/ After(o) <= p
  <2>1. PICK k \in 0 .. Len(data) : p = StartOf[k]
    BY DEF Starts
  <2>2. k \in Nat
    BY <1>1
  <2>3. CASE k <= j
    BY <1>2, <1>3, <2>1, <2>2, <2>3, StartsAscend
  <2>4. CASE ~ (k <= j)
    <3>1. j + 1 <= k
      BY <1>3, <2>2, <2>4
    <3> QED BY <1>3, <1>5, <2>1, <2>2, <3>1, StartsAscend
  <2> QED BY <2>3, <2>4
<1> QED
  BY <1>6, <1>7

\* The first byte starts an instruction, and the starts are counts of bytes.
LEMMA StartsType == ASSUME binary \in Binary PROVE 0 \in Starts /\ Starts \subseteq Nat
<1>1. Len(data) \in Nat /\ StartOf[0] = 0 /\ \A n \in Nat : StartOf[n] \in Nat
  BY FileType, StartsFollow
<1>2. 0 \in 0 .. Len(data) /\ 0 .. Len(data) \subseteq Nat
  BY <1>1
<1> QED
  BY <1>1, <1>2 DEF Starts

\* The lengths of the instructions that lead somewhere.
LEMMA LengthsOfLeads ==
  /\ \A b \in Jumps : b \in Byte /\ LengthOf[b] = 3
  /\ \A b \in BranchOpcodes : b \in Byte /\ LengthOf[b] = 2
<1>1. Encoding.jmp.abs = 76 /\ Encoding.jmp.ind = 108 /\ Encoding.jsr.abs = 32
  BY DEF Encoding
<1>2. Jumps = {76, 108, 32}
  BY <1>1 DEF Jumps
<1>3. /\ Encoding.bcc.rel = 144 /\ Encoding.bcs.rel = 176 /\ Encoding.beq.rel = 240
      /\ Encoding.bne.rel = 208 /\ Encoding.bmi.rel = 48 /\ Encoding.bpl.rel = 16
      /\ Encoding.bvc.rel = 80 /\ Encoding.bvs.rel = 112
  BY DEF Encoding
<1>4. ASSUME NEW b \in BranchOpcodes PROVE b \in {16, 48, 80, 112, 144, 176, 208, 240}
  <2>1. PICK op \in Branches : b = Encoding[op].rel
    BY DEF BranchOpcodes
  <2>2. op \in {"bcc", "bcs", "beq", "bne", "bmi", "bpl", "bvc", "bvs"}
    BY DEF Branches
  <2> QED BY <1>3, <2>1, <2>2
<1>5. \A b \in {76, 108, 32} : b \in Byte /\ LengthOf[b] = 3
  BY <1>1 DEF LengthOf, Byte, Low, High, Odd
<1>6. \A b \in {16, 48, 80, 112, 144, 176, 208, 240} : b \in Byte /\ LengthOf[b] = 2
  BY <1>1 DEF LengthOf, Byte, Low, High, Odd
<1> QED
  BY <1>2, <1>4, <1>5, <1>6

\* In a file of whole instructions their operands are in the file: nothing that may be
\* behind its end has a part in where one leads.
LEMMA TargetIs ==
  ASSUME binary \in Binary, Whole, NEW o \in Starts, o < Len(data), Leads(o),
         NEW second \in BytesAt(o + 1), NEW third \in BytesAt(o + 2)
  PROVE  Target(o, second, third) = TargetOf(o)
<1>1. Len(data) \in Nat /\ o \in Nat
  BY FileType, StartsType
<1>2. After(o) <= Len(data) /\ After(o) = o + LengthOf[data[o + 1]]
  <2>1. Len(data) \in Starts
    BY DEF Whole
  <2>2. After(o) <= Len(data)
    BY <1>1, <2>1, NextStart
  <2> QED BY <2>2 DEF After
<1>3. data[o + 1] \in Jumps \cup BranchOpcodes
  BY DEF Leads
<1>4. LengthOf[data[o + 1]] >= 2
  BY <1>3, LengthsOfLeads
<1>5. LengthOf[data[o + 1]] \in Int
  BY <1>3, LengthsOfLeads
<1>6. o + 1 < Len(data)
  BY <1>1, <1>2, <1>4, <1>5
<1>7. second = data[o + 2]
  <2>1. (o + 1) + 1 = o + 2
    BY <1>1
  <2> QED BY <1>6, <2>1 DEF BytesAt
<1>8. CASE data[o + 1] \in Jumps
  <2>1. o + 2 < Len(data)
    BY <1>1, <1>2, <1>8, LengthsOfLeads
  <2>2. (o + 2) + 1 = o + 3
    BY <1>1
  <2>3. third = data[o + 3]
    BY <2>1, <2>2 DEF BytesAt
  <2> QED BY <1>7, <2>1, <2>3 DEF TargetOf
<1>9. CASE data[o + 1] \notin Jumps
  BY <1>7, <1>9, Zenon DEF Target, TargetOf
<1> QED
  BY <1>8, <1>9

-----------------------------------------------------------------------------
(* The table and the targets *)

\* The addresses of a table, those within the file, and where what stands before an
\* offset leads
Addresses(t) == {t[i].address : i \in DOMAIN t}
Within(S) == {n \in S : n \in start .. Limit}
TargetsBefore(n) == {TargetOf(o) : o \in {p \in Instructions : Leads(p) /\ p < n}}

\* What the loop over the bytes has met before an instruction, and at its end.
LEMMA TargetsMet ==
  ASSUME binary \in Binary
  PROVE  /\ TargetsBefore(0) = {}
         /\ \A o \in Starts : o < Len(data) =>
              TargetsBefore(After(o)) = TargetsBefore(o) \cup (IF Leads(o) THEN {TargetOf(o)} ELSE {})
         /\ \A o \in Nat : Len(data) <= o => TargetsBefore(o) = Targets
<1> DEFINE Met(n) == {p \in Instructions : Leads(p) /\ p < n}
<1>1. Instructions \subseteq Nat /\ Starts \subseteq Nat /\ Len(data) \in Nat
  BY FileType, StartsType DEF Instructions
<1>2. Met(0) = {}
  <2>1. \A p \in Instructions : ~ (p < 0)
    BY <1>1
  <2> QED BY <2>1
<1>3. ASSUME NEW o \in Starts, o < Len(data)
      PROVE  Met(After(o)) = Met(o) \cup (IF Leads(o) THEN {o} ELSE {})
  <2>1. o \in Nat /\ o \in Instructions
    BY <1>1, <1>3 DEF Instructions
  <2>2. After(o) \in Nat /\ o < After(o)
    BY <1>3, <2>1, AfterGrows
  <2>3. ASSUME NEW p \in Instructions PROVE p < After(o) <=> p < o \/ p = o
    <3>1. p \in Nat /\ p \in Starts
      BY <1>1 DEF Instructions
    <3>2. p <= o \/ After(o) <= p
      BY <1>3, <3>1, NextStart
    <3> QED BY <2>1, <2>2, <3>1, <3>2
  <2> QED BY <2>1, <2>3
<1>4. ASSUME NEW o \in Nat, Len(data) <= o PROVE Met(o) = {p \in Instructions : Leads(p)}
  <2>1. \A p \in Instructions : p < o
    BY <1>1, <1>4 DEF Instructions
  <2> QED BY <2>1
<1>5. \A n : TargetsBefore(n) = {TargetOf(p) : p \in Met(n)}
  BY DEF TargetsBefore
<1>6. Targets = {TargetOf(p) : p \in {q \in Instructions : Leads(q)}}
  BY DEF Targets
<1> HIDE DEF Met
<1>7. TargetsBefore(0) = {}
  BY <1>2, <1>5
<1>8. ASSUME NEW o \in Starts, o < Len(data)
      PROVE  TargetsBefore(After(o))
               = TargetsBefore(o) \cup (IF Leads(o) THEN {TargetOf(o)} ELSE {})
  <2>1. Met(After(o)) = Met(o) \cup (IF Leads(o) THEN {o} ELSE {})
    BY <1>3, <1>8
  <2>2. CASE Leads(o)
    BY <1>5, <2>1, <2>2
  <2>3. CASE ~ Leads(o)
    BY <1>5, <2>1, <2>3
  <2> QED BY <2>2, <2>3
<1>9. \A o \in Nat : Len(data) <= o => TargetsBefore(o) = Targets
  BY <1>4, <1>5, <1>6
<1> QED
  BY <1>7, <1>8, <1>9

\* An insertion adds one address, and looking for one that is there finds it.
LEMMA LabelAdds ==
  ASSUME Inv, NEW n \in Word, HasSymbol(symbols, n) \/ currentLabel <= LabelBound
  PROVE  Addresses(WithLabelAt(n)) = Addresses(symbols) \cup {n}
<1>1. CASE HasSymbol(symbols, n)
  <2>1. WithLabelAt(n) = symbols
    BY <1>1, Zenon DEF WithLabelAt
  <2>2. n \in Addresses(symbols)
    BY <1>1 DEF HasSymbol, Addresses
  <2> QED BY <2>1, <2>2
<1>2. CASE ~ HasSymbol(symbols, n)
  <2> DEFINE s == [name |-> currentLabel, address |-> n, type |-> "label", line |-> 0]
             u == Inserted(symbols, s)
             k == Before(symbols, s)
  <2>1. /\ symbols \in Seq(Symbol) /\ currentLabel \in Nat /\ currentLabel \in 1 .. LabelBound
        /\ 1 .. LabelBound \subseteq Name
    BY <1>2, DisassemblerAssumption DEF Inv, DisassemblerTypeOK
  <2>2. s \in Symbol
    BY <2>1 DEF Symbol, SymbolType
  <2>3. Len(symbols) \in Nat /\ DOMAIN symbols = 1 .. Len(symbols)
    BY <2>1, LenProperties
  <2>4. \A i \in DOMAIN symbols : symbols[i].name # currentLabel
    BY <2>1 DEF Inv, NumbersAreUsed
  <2>5. s.name = currentLabel /\ s.address = n
    OBVIOUS
  <2> HIDE DEF s
  <2>6. ~ Conflicts(symbols, s)
    BY <2>4, <2>5 DEF Conflicts, IsNamed
  <2>7. WithLabelAt(n) = u
    BY <1>2, <2>6 DEF WithLabelAt, AddSymbol, s
  <2>8. /\ DOMAIN u = 1 .. Len(symbols) + 1
        /\ \A i \in 1 .. Len(symbols) + 1 :
             u[i] = IF i <= k THEN symbols[i] ELSE IF i = k + 1 THEN s ELSE symbols[i - 1]
    BY <2>1, <2>2, InsertedType
  <2>9. k \in 0 .. Len(symbols)
    BY <2>1, <2>2, BeforeType
  <2> HIDE DEF u, k
  <2>10. ASSUME NEW i \in DOMAIN u PROVE u[i] = s \/ \E j \in DOMAIN symbols : u[i] = symbols[j]
    <3>1. i \in 1 .. Len(symbols) + 1
      BY <2>8
    <3>2. CASE i <= k
      BY <2>3, <2>8, <2>9, <3>1, <3>2
    <3>3. CASE i = k + 1
      BY <2>3, <2>8, <2>9, <3>1, <3>3
    <3>4. CASE ~ (i <= k) /\ i # k + 1
      <4>1. i - 1 \in DOMAIN symbols
        BY <2>3, <2>9, <3>1, <3>4
      <4> QED BY <2>8, <3>1, <3>4, <4>1
    <3> QED BY <3>2, <3>3, <3>4
  <2>11. k + 1 \in DOMAIN u /\ u[k + 1] = s
    BY <2>3, <2>8, <2>9
  <2>12. ASSUME NEW j \in DOMAIN symbols PROVE \E i \in DOMAIN u : u[i] = symbols[j]
    <3>1. CASE j <= k
      BY <2>3, <2>8, <2>9, <3>1
    <3>2. CASE ~ (j <= k)
      <4>1. j + 1 \in 1 .. Len(symbols) + 1 /\ ~ (j + 1 <= k) /\ j + 1 # k + 1 /\ (j + 1) - 1 = j
        BY <2>3, <2>9, <3>2
      <4>2. u[j + 1] = symbols[j]
        BY <2>8, <4>1
      <4> QED BY <2>8, <4>1, <4>2
    <3> QED BY <3>1, <3>2
  <2> QED BY <2>5, <2>7, <2>10, <2>11, <2>12 DEF Addresses
<1> QED
  BY <1>1, <1>2

\* Symbols with one outside of the file taken out: what is inside stays, and what the loop
\* has been at.
LEMMA LessOutside ==
  ASSUME Inv, NEW k \in DOMAIN symbols, Outside(symbols[k]),
         NEW u, u = SubSeq(symbols, 1, k - 1) \o SubSeq(symbols, k + 1, Len(symbols))
  PROVE  /\ Within(Addresses(u)) = Within(Addresses(symbols))
         /\ \A i \in DOMAIN u : i < k => i \in DOMAIN symbols /\ u[i] = symbols[i]
<1>1. symbols \in Seq(Symbol)
  BY DEF Inv, DisassemblerTypeOK
<1>2. Len(symbols) \in Nat /\ DOMAIN symbols = 1 .. Len(symbols) /\ k \in Nat
  BY <1>1, LenProperties
<1>3. /\ DOMAIN u = 1 .. Len(symbols) - 1
      /\ \A i \in 1 .. Len(symbols) - 1 : u[i] = IF i < k THEN symbols[i] ELSE symbols[i + 1]
  BY <1>1, RemovedType, Zenon
<1>4. ASSUME NEW i \in DOMAIN u PROVE \E j \in DOMAIN symbols : u[i] = symbols[j]
  <2>1. i \in DOMAIN symbols /\ i + 1 \in DOMAIN symbols
    BY <1>2, <1>3
  <2>2. u[i] = IF i < k THEN symbols[i] ELSE symbols[i + 1]
    BY <1>3
  <2> QED BY <2>1, <2>2
<1>5. ASSUME NEW j \in DOMAIN symbols, j # k PROVE \E i \in DOMAIN u : u[i] = symbols[j]
  <2>1. CASE j < k
    <3>1. j \in 1 .. Len(symbols) - 1
      BY <1>2, <2>1
    <3> QED BY <1>3, <2>1, <3>1
  <2>2. CASE ~ (j < k)
    <3>1. j - 1 \in 1 .. Len(symbols) - 1 /\ ~ (j - 1 < k) /\ (j - 1) + 1 = j
      BY <1>2, <1>5, <2>2
    <3> QED BY <1>3, <3>1
  <2> QED BY <2>1, <2>2
<1>6. symbols[k].address \notin start .. Limit
  <2>1. binary \in Binary
    BY DEF Inv, DisassemblerTypeOK
  <2>2. start \in Int /\ Limit \in Int /\ Limit = start + Len(data)
    BY <2>1, FileType, WordBounds DEF Limit
  <2> QED BY <2>2 DEF Outside
<1>7. Within(Addresses(u)) = Within(Addresses(symbols))
  <2>1. ASSUME NEW n \in Within(Addresses(u)) PROVE n \in Within(Addresses(symbols))
    <3>1. PICK i \in DOMAIN u : n = u[i].address
      BY DEF Within, Addresses
    <3>2. PICK j \in DOMAIN symbols : u[i] = symbols[j]
      BY <1>4
    <3> QED BY <3>1, <3>2, Zenon DEF Within, Addresses
  <2>2. ASSUME NEW n \in Within(Addresses(symbols)) PROVE n \in Within(Addresses(u))
    <3>1. PICK j \in DOMAIN symbols : n = symbols[j].address
      BY DEF Within, Addresses
    <3>2. j # k
      BY <1>6, <3>1 DEF Within
    <3>3. PICK i \in DOMAIN u : u[i] = symbols[j]
      BY <1>5, <3>2
    <3> QED BY <3>1, <3>3, Zenon DEF Within, Addresses
  <2> QED BY <2>1, <2>2
<1>8. ASSUME NEW i \in DOMAIN u, i < k PROVE i \in DOMAIN symbols /\ u[i] = symbols[i]
  BY <1>2, <1>3, <1>8
<1> QED
  BY <1>7, <1>8

-----------------------------------------------------------------------------
(* What the loops leave in the table *)

\* What the table holds in each phase. A file as long as the counter of offsets is never
\* left by the first loop.
Derived ==
  phase = "derive" =>
    /\ this = 1
    /\ Len(data) < OffsetCount =>
         offset \in Starts /\ Addresses(symbols) = TargetsBefore(offset)

Truncated ==
  /\ phase # "derive" => Within(Addresses(symbols)) = Within(Targets)
  /\ phase = "truncate" => \A i \in DOMAIN symbols : i < this => ~ Outside(symbols[i])
  /\ phase \in {"print", "rest", "done"} => \A i \in DOMAIN symbols : ~ Outside(symbols[i])

Collected == Whole => Derived /\ Truncated

\* The file stays, and with it all that is said of it alone.
LEMMA FileStays ==
  ASSUME binary' = binary
  PROVE  /\ Whole' <=> Whole
         /\ Starts' = Starts /\ Targets' = Targets /\ data' = data
         /\ \A n : TargetsBefore(n)' = TargetsBefore(n)
<1>1. data' = data /\ start' = start
  BY DEF data, start
<1>2. Starts' = Starts
  BY <1>1 DEF Starts, StartOf, After
<1>3. Instructions' = Instructions /\ Limit' = Limit
  BY <1>1, <1>2 DEF Instructions, Limit
<1>4. \A o : (Leads(o)' <=> Leads(o)) /\ TargetOf(o)' = TargetOf(o)
  BY <1>1 DEF Leads, TargetOf, Target
<1>5. Targets' = Targets
  BY <1>3, <1>4 DEF Targets
<1>6. \A n : TargetsBefore(n)' = TargetsBefore(n)
  BY <1>3, <1>4 DEF TargetsBefore
<1>7. Whole' <=> Whole
  BY <1>1, <1>2 DEF Whole
<1> QED
  BY <1>1, <1>2, <1>5, <1>6, <1>7

\* The first loop collects the targets.
LEMMA DeriveCollects ==
  ASSUME Inv, Collected, Derive PROVE Collected'
<1>1. /\ binary' = binary /\ binary \in Binary /\ phase = "derive" /\ offset \in Nat
      /\ Len(data) \in Nat /\ OffsetCount \in Nat /\ offset < OffsetCount
  BY FileType, DisassemblerAssumption
  DEF Inv, DisassemblerTypeOK, Derive, DeriveLabel, DeriveNone, EndDerive
<1> SUFFICES ASSUME Whole PROVE Derived' /\ Truncated'
  BY <1>1, FileStays DEF Collected
<1>2. /\ this = 1
      /\ Len(data) < OffsetCount =>
           offset \in Starts /\ Addresses(symbols) = TargetsBefore(offset)
  BY <1>1 DEF Collected, Derived
<1> DEFINE n == offset'
           t == symbols'
<1>3. ASSUME DeriveLabel \/ DeriveNone,
             Len(data) < OffsetCount =>
               Addresses(t) = Addresses(symbols) \cup (IF Leads(offset) THEN {TargetOf(offset)} ELSE {})
      PROVE  Derived' /\ Truncated'
  <2>1. phase' = "derive" /\ this' = 1 /\ offset < Len(data) /\ Advance
    BY <1>1, <1>2, <1>3 DEF DeriveLabel, DeriveNone
  <2>2. Truncated'
    BY <2>1 DEF Truncated
  <2>3. ASSUME Len(data) < OffsetCount
        PROVE  n \in Starts /\ Addresses(t) = TargetsBefore(n)
    <3>1. offset \in Starts /\ Addresses(symbols) = TargetsBefore(offset)
      BY <1>2, <2>3
    <3>2. n = After(offset)
      <4>1. After(offset) \in Starts /\ After(offset) <= Len(data)
        <5>1. Len(data) \in Starts
          BY DEF Whole
        <5> QED BY <1>1, <2>1, <3>1, <5>1, NextStart
      <4>2. After(offset) \in Nat
        BY <1>1, <4>1, StartsType
      <4>3. n = After(offset) % OffsetCount
        BY <2>1 DEF Advance, After
      <4>4. After(offset) < OffsetCount
        BY <1>1, <2>3, <4>1, <4>2
      <4> QED BY <1>1, <4>2, <4>3, <4>4
    <3> HIDE DEF n, t
    <3>3. TargetsBefore(n)
            = TargetsBefore(offset) \cup (IF Leads(offset) THEN {TargetOf(offset)} ELSE {})
      BY <1>1, <2>1, <3>1, <3>2, TargetsMet
    <3>4. n \in Starts
      BY <1>1, <2>1, <3>1, <3>2, NextStart
    <3> QED BY <1>3, <2>3, <3>1, <3>3, <3>4
  <2>4. /\ TargetsBefore(offset)' = TargetsBefore(n) /\ Addresses(symbols)' = Addresses(t)
        /\ Starts' = Starts /\ Len(data)' = Len(data)
    <3>1. TargetsBefore(offset)' = TargetsBefore(n)
      <4>1. PICK m : m = offset'
        OBVIOUS
      <4>2. TargetsBefore(offset)' = TargetsBefore(m)'
        BY <4>1 DEF TargetsBefore
      <4>3. TargetsBefore(m)' = TargetsBefore(m)
        BY <1>1, FileStays
      <4> QED BY <4>1, <4>2, <4>3
    <3>2. Addresses(symbols)' = Addresses(t)
      BY DEF Addresses
    <3> QED BY <1>1, <3>1, <3>2, FileStays
  <2>5. Derived'
    <3> SUFFICES ASSUME Len(data)' < OffsetCount
                 PROVE  offset' \in Starts' /\ Addresses(symbols)' = TargetsBefore(offset)'
      BY <2>1 DEF Derived
    <3> QED BY <2>3, <2>4
  <2> QED BY <2>2, <2>5
<1>4. CASE DeriveLabel
  <2>1. offset < Len(data) /\ Leads(offset)
    BY <1>4 DEF DeriveLabel, Leads
  <2>2. PICK second \in BytesAt(offset + 1), third \in BytesAt(offset + 2) :
          LET m == Target(offset, second, third) IN
          /\ HasSymbol(symbols, m) \/ currentLabel <= LabelBound
          /\ symbols' = WithLabelAt(m)
    BY <1>4, Zenon DEF DeriveLabel
  <2> DEFINE m == Target(offset, second, third)
  <2>3. m \in Word
    <3>1. second \in Byte /\ third \in Byte
      BY <1>1, BytesAtType
    <3> QED BY <1>1, <3>1, TargetType
  <2>4. Addresses(t) = Addresses(symbols) \cup {m}
    <3>1. HasSymbol(symbols, m) \/ currentLabel <= LabelBound
      BY <2>2
    <3>2. symbols' = WithLabelAt(m)
      BY <2>2
    <3> HIDE DEF m
    <3>3. Addresses(WithLabelAt(m)) = Addresses(symbols) \cup {m}
      BY <2>3, <3>1, LabelAdds
    <3> QED BY <3>2, <3>3
  <2>5. Len(data) < OffsetCount => m = TargetOf(offset)
    BY <1>1, <1>2, <2>1, TargetIs
  <2> HIDE DEF m, t
  <2> QED BY <1>3, <1>4, <2>1, <2>4, <2>5
<1>5. CASE DeriveNone
  <2>1. ~ Leads(offset) /\ symbols' = symbols
    BY <1>5 DEF DeriveNone, Leads
  <2> QED BY <1>3, <1>5, <2>1
<1>6. CASE EndDerive
  <2>1. phase' = "truncate" /\ symbols' = symbols /\ this' = this /\ Len(data) <= offset
    BY <1>1, <1>6 DEF EndDerive
  <2>2. Addresses(symbols) = Targets
    <3>1. Len(data) < OffsetCount
      BY <1>1, <2>1
    <3> QED BY <1>1, <1>2, <2>1, <3>1, TargetsMet
  <2>3. Within(Addresses(symbols))' = Within(Targets)'
    <3>1. Addresses(symbols)' = Targets'
      BY <1>1, <2>1, <2>2, FileStays DEF Addresses
    <3> QED BY <3>1 DEF Within
  <2>4. Derived'
    BY <2>1 DEF Derived
  <2>5. \A i \in DOMAIN symbols' : ~ (i < this')
    <3>1. symbols' \in Seq(Symbol)
      BY <2>1 DEF Inv, DisassemblerTypeOK
    <3>2. \A i \in DOMAIN symbols' : i \in Nat \ {0}
      BY <3>1, LenProperties
    <3> QED BY <1>2, <2>1, <3>2
  <2> QED BY <2>1, <2>3, <2>4, <2>5 DEF Truncated
<1> QED
  BY <1>4, <1>5, <1>6 DEF Derive

\* Where neither the file nor the table changes, only the phase may.
LEMMA TableStays ==
  ASSUME Inv, UNCHANGED <<binary, symbols>>, phase # "derive", phase' # "derive",
         Collected, Whole,
         phase' = "truncate" => phase = "truncate" /\ this' = this,
         phase' \in {"print", "rest", "done"} => \A i \in DOMAIN symbols : ~ Outside(symbols[i])
  PROVE  Collected'
<1>1. Within(Addresses(symbols)) = Within(Targets)
  BY DEF Collected, Truncated
<1>2. Within(Addresses(symbols))' = Within(Addresses(symbols)) /\ Within(Targets)' = Within(Targets)
  <2>1. Addresses(symbols)' = Addresses(symbols)
    BY DEF Addresses
  <2>2. start' = start /\ Limit' = Limit /\ Targets' = Targets
    BY FileStays DEF start, Limit, data
  <2> QED BY <2>1, <2>2 DEF Within
<1>3. \A i \in DOMAIN symbols' : ~ Outside(symbols[i])' <=> ~ Outside(symbols[i])
  BY DEF Outside, start, data
<1> QED
  BY <1>1, <1>2, <1>3 DEF Collected, Derived, Truncated

\* The second removes what lies outside, and the loop misses none.
LEMMA TruncateCollects ==
  ASSUME Inv, Collected, Truncate PROVE Collected'
<1>1. /\ binary' = binary /\ binary \in Binary /\ phase = "truncate" /\ this \in Nat \ {0}
      /\ symbols \in Seq(Symbol)
  BY DEF Inv, DisassemblerTypeOK, Truncate, TruncateSymbol, EndTruncate
<1>2. DOMAIN symbols = 1 .. Len(symbols) /\ Len(symbols) \in Nat
  BY <1>1, LenProperties
<1> SUFFICES ASSUME Whole PROVE Collected'
  BY <1>1, FileStays DEF Collected
<1>3. /\ Within(Addresses(symbols)) = Within(Targets)
      /\ \A i \in DOMAIN symbols : i < this => ~ Outside(symbols[i])
  BY <1>1 DEF Collected, Truncated
<1>4. CASE TruncateSymbol /\ Outside(symbols[this])
  <2> DEFINE u == SubSeq(symbols, 1, this - 1) \o SubSeq(symbols, this + 1, Len(symbols))
  <2>1. this \in DOMAIN symbols /\ symbols' = u /\ this' = this /\ phase' = "truncate"
    BY <1>1, <1>4 DEF TruncateSymbol
  <2>2. /\ Within(Addresses(u)) = Within(Addresses(symbols))
        /\ \A i \in DOMAIN u : i < this => i \in DOMAIN symbols /\ u[i] = symbols[i]
    BY <1>4, <2>1, LessOutside
  <2> HIDE DEF u
  <2>3. Within(Addresses(symbols))' = Within(Targets)'
    <3>1. start' = start /\ Limit' = Limit /\ Targets' = Targets
      BY <1>1, FileStays DEF start, Limit, data
    <3>2. Addresses(symbols)' = Addresses(u)
      BY <2>1 DEF Addresses
    <3>3. Within(Addresses(symbols))' = Within(Addresses(u)) /\ Within(Targets)' = Within(Targets)
      BY <3>1, <3>2 DEF Within
    <3> QED BY <1>3, <2>2, <3>3
  <2>4. ASSUME NEW i \in DOMAIN symbols', i < this' PROVE ~ Outside(symbols[i])'
    <3>1. ~ Outside(symbols[i]) /\ symbols'[i] = symbols[i]
      BY <1>3, <2>1, <2>2, <2>4
    <3> QED BY <1>1, <3>1 DEF Outside, start, data
  <2> QED BY <2>1, <2>3, <2>4 DEF Collected, Derived, Truncated
<1>5. CASE TruncateSymbol /\ ~ Outside(symbols[this])
  <2>1. this \in DOMAIN symbols /\ symbols' = symbols /\ this' = this + 1 /\ phase' = "truncate"
    BY <1>1, <1>5 DEF TruncateSymbol
  <2>2. Within(Addresses(symbols))' = Within(Targets)'
    <3>1. start' = start /\ Limit' = Limit /\ Targets' = Targets
      BY <1>1, FileStays DEF start, Limit, data
    <3>2. Within(Addresses(symbols))' = Within(Addresses(symbols)) /\ Within(Targets)' = Within(Targets)
      BY <2>1, <3>1 DEF Within, Addresses
    <3> QED BY <1>3, <3>2
  <2>3. ASSUME NEW i \in DOMAIN symbols', i < this' PROVE ~ Outside(symbols[i])'
    <3>1. i \in DOMAIN symbols /\ (i < this \/ i = this)
      BY <1>1, <1>2, <2>1, <2>3
    <3>2. ~ Outside(symbols[i])
      BY <1>3, <1>5, <3>1
    <3> QED BY <1>1, <2>1, <3>2 DEF Outside, start, data
  <2> QED BY <2>1, <2>2, <2>3 DEF Collected, Derived, Truncated
<1>6. CASE EndTruncate
  <2>1. this \notin DOMAIN symbols /\ symbols' = symbols /\ phase' = "print"
    BY <1>6 DEF EndTruncate
  <2>2. \A i \in DOMAIN symbols : ~ Outside(symbols[i])
    <3>1. \A i \in DOMAIN symbols : i < this
      BY <1>1, <1>2, <2>1
    <3> QED BY <1>3, <3>1
  <2> QED BY <1>1, <2>1, <2>2, TableStays
<1> QED
  BY <1>4, <1>5, <1>6 DEF Truncate, TruncateSymbol

\* The loops that print leave the table alone.
LEMMA PrintCollects ==
  ASSUME Inv, Collected, PrintBlob \/ Rest PROVE Collected'
<1>1. /\ UNCHANGED <<binary, symbols>> /\ phase \in {"print", "rest"}
      /\ phase' \in {"print", "rest", "done", "undefined"}
  BY DEF PrintBlob, Rest, PrintCharacter, LeaveString, EnterString, PrintInstruction, EndPrint,
         PrintRest, EndRest, AtByte
<1> SUFFICES ASSUME Whole PROVE Collected'
  BY <1>1, FileStays DEF Collected
<1>2. \A i \in DOMAIN symbols : ~ Outside(symbols[i])
  BY <1>1 DEF Collected, Truncated
<1> QED
  BY <1>1, <1>2, TableStays

\* So does a step of none of them.
LEMMA StutterCollects ==
  ASSUME Inv, Collected, UNCHANGED disassemblerVars PROVE Collected'
<1>1. UNCHANGED <<binary, phase, offset, symbols, this>>
  BY DEF disassemblerVars
<1>2. UNCHANGED <<data, start>>
  BY <1>1 DEF data, start
<1>3. UNCHANGED <<Starts, Instructions, Limit>>
  BY <1>2 DEF Starts, StartOf, After, Instructions, Limit
<1>4. \A o : (Leads(o)' <=> Leads(o)) /\ TargetOf(o)' = TargetOf(o)
  BY <1>2 DEF Leads, TargetOf, Target
<1>5. UNCHANGED <<Targets, TargetsBefore(offset), Addresses(symbols)>> /\ (Whole' <=> Whole)
  BY <1>1, <1>2, <1>3, <1>4 DEF Targets, TargetsBefore, Addresses, Whole
<1>6. UNCHANGED <<Within(Targets), Within(Addresses(symbols))>>
  BY <1>2, <1>3, <1>5 DEF Within
<1>7. \A i \in DOMAIN symbols : Outside(symbols[i])' <=> Outside(symbols[i])
  BY <1>1, <1>2 DEF Outside
<1>8. Derived' <=> Derived
  BY <1>1, <1>2, <1>3, <1>5 DEF Derived
<1>9. Truncated' <=> Truncated
  BY <1>1, <1>6, <1>7 DEF Truncated
<1> QED
  BY <1>5, <1>8, <1>9 DEF Collected

\* At the start the table is empty, and nothing has been met.
LEMMA InitCollects == ASSUME DisassemblerInit PROVE Collected
<1>1. binary \in Binary
  BY DisassemblerAssumption DEF DisassemblerInit
<1>2. phase = "derive" /\ this = 1 /\ offset = 0 /\ symbols = <<>>
  BY DEF DisassemblerInit
<1>3. Addresses(symbols) = {}
  BY <1>2 DEF Addresses
<1>4. TargetsBefore(0) = {} /\ 0 \in Starts
  BY <1>1, TargetsMet, StartsType
<1> QED
  BY <1>2, <1>3, <1>4 DEF Collected, Derived, Truncated

\* The labels that are left are those of the targets
LEMMA LabelsLeft == Inv /\ Collected => LabelsAreTargets
<1> SUFFICES ASSUME Inv, Collected, Whole, phase \in {"print", "rest", "done"}
             PROVE  Addresses(symbols) = Within(Targets)
  BY DEF LabelsAreTargets, Addresses, Within
<1>1. /\ Within(Addresses(symbols)) = Within(Targets)
      /\ \A i \in DOMAIN symbols : ~ Outside(symbols[i])
  BY DEF Collected, Truncated
<1>2. ASSUME NEW i \in DOMAIN symbols PROVE symbols[i].address \in start .. Limit
  <2>1. symbols[i] \in Symbol
    BY LenProperties, ElementOfSeq DEF Inv, DisassemblerTypeOK
  <2>2. symbols[i].address \in Int
    BY <2>1, WordBounds DEF Symbol
  <2>3. start \in Int /\ Len(data) \in Int
    BY FileType, WordBounds DEF Inv, DisassemblerTypeOK
  <2>4. ~ Outside(symbols[i])
    BY <1>1
  <2> QED BY <2>2, <2>3, <2>4 DEF Outside, Limit
<1>3. Addresses(symbols) = Within(Addresses(symbols))
  BY <1>2 DEF Addresses, Within
<1> QED BY <1>1, <1>3

\* In every file of whole instructions, however long and wherever it is loaded, the table
\* that the listing is printed with has exactly the targets that lie in the file or right
\* behind it: the first loop follows the instructions and reads nothing from behind the
\* end, and the second removes all that is outside and nothing else (reverse.c 412-435,
\* symbols.c 219-238).
THEOREM LabelsAreSought == DisassemblerSpec => []LabelsAreTargets
<1>1. DisassemblerInit => Inv /\ Collected
  BY InitInv, InitCollects
<1>2. Inv /\ Inv' /\ Collected /\ [DisassemblerNext]_disassemblerVars => Collected'
  BY DeriveCollects, TruncateCollects, PrintCollects, StutterCollects DEF DisassemblerNext
<1>3. Inv /\ Collected => LabelsAreTargets
  BY LabelsLeft
<1> QED
  BY <1>1, <1>2, <1>3, Invariance, PTL DEF DisassemblerSpec

-----------------------------------------------------------------------------
(* The ends of the loops *)

\* Numbers of the loops
LEMMA OrderOfLoops ==
  /\ LoopOrder["derive"] = 1 /\ LoopOrder["truncate"] = 2 /\ LoopOrder["print"] = 3
  /\ LoopOrder["rest"] = 4 /\ LoopOrder["done"] = 5 /\ LoopOrder["undefined"] = 5
BY DEF LoopOrder

\* On a short file the offset does not wrap
LEMMA AdvanceGoesOn ==
  ASSUME DisassemblerTypeOK, Len(data) <= OffsetCount - 3, offset < Len(data), Advance
  PROVE  offset' > offset
<1> DEFINE k == LengthOf[data[offset + 1]]
<1>1. Len(data) \in Nat /\ offset \in Nat /\ OffsetCount \in Nat /\ binary \in Binary
  BY FileType, DisassemblerAssumption DEF DisassemblerTypeOK
<1>2. k \in Int /\ 1 <= k /\ k <= 3
  BY <1>1, OpcodeType
<1>3. offset' = (offset + k) % OffsetCount
  BY DEF Advance
<1> HIDE DEF k
<1>4. offset + k \in Int /\ 0 <= offset + k /\ offset + k < OffsetCount
  BY <1>1, <1>2
<1>5. (offset + k) % OffsetCount = offset + k
  BY <1>1, <1>4
<1> QED
  BY <1>1, <1>2, <1>3, <1>5

\* A removal takes one symbol away
LEMMA RemovalShortens ==
  ASSUME DisassemblerTypeOK, TruncateSymbol, Outside(symbols[this])
  PROVE  Len(symbols') < Len(symbols) /\ this' = this
<1> DEFINE u == SubSeq(symbols, 1, this - 1) \o SubSeq(symbols, this + 1, Len(symbols))
<1>1. symbols \in Seq(Symbol) /\ this \in DOMAIN symbols /\ symbols' = u /\ this' = this
  BY DEF DisassemblerTypeOK, TruncateSymbol
<1>2. u \in Seq(Symbol) /\ DOMAIN u = 1 .. Len(symbols) - 1
  BY <1>1, RemovedType
<1> HIDE DEF u
<1>3. Len(u) \in Nat /\ DOMAIN u = 1 .. Len(u) /\ Len(symbols) \in Nat /\ Len(symbols) >= 1
  BY <1>1, <1>2, LenProperties
<1> QED
  BY <1>1, <1>2, <1>3

\* A byte of the loop that prints
LEMMA ByteAdvances ==
  ASSUME DisassemblerTypeOK, Len(data) <= OffsetCount - 3, PrintBlob, ~ EndPrint
  PROVE  phase' = phase /\ Further
<1>1. offset \in Int /\ 0 <= offset /\ OffsetCount \in Nat /\ Len(data) \in Nat
  BY FileType, DisassemblerAssumption DEF DisassemblerTypeOK
<1>2. CASE PrintCharacter
  <2>1. phase = "print" /\ phase' = phase /\ offset < Len(data)
        /\ offset' = (offset + 1) % OffsetCount
    BY <1>2 DEF PrintCharacter, AtByte
  <2>2. (offset + 1) % OffsetCount = offset + 1
    BY <1>1, <2>1
  <2> QED BY <1>1, <2>1, <2>2 DEF Further
<1>3. CASE PrintInstruction
  <2>1. phase = "print" /\ phase' = phase /\ offset < Len(data) /\ Advance
    BY <1>3 DEF PrintInstruction, AtByte
  <2> QED BY <2>1, AdvanceGoesOn DEF Further
<1>4. CASE LeaveString
  <2>1. /\ phase = "print" /\ UNCHANGED <<phase, offset, binary>>
        /\ insideOfString /\ ~ insideOfString' /\ opcode # 0 /\ ~ Printable(opcode)
    BY <1>4 DEF LeaveString, AtByte
  <2>2. opcode' = opcode /\ (Printable(opcode)' <=> Printable(opcode))
    BY <2>1 DEF opcode, data, Printable
  <2> QED BY <2>1, <2>2 DEF Further, LooksAgain
<1>5. CASE EnterString
  <2>1. /\ phase = "print" /\ UNCHANGED <<phase, offset, binary>>
        /\ ~ insideOfString /\ insideOfString'
        /\ StringForOpcode(opcode) = "illegal" /\ Printable(opcode)
    BY <1>5 DEF EnterString, AtByte
  <2>2. opcode' = opcode /\ (Printable(opcode)' <=> Printable(opcode))
    BY <2>1 DEF opcode, data, Printable
  <2> QED BY <2>1, <2>2 DEF Further, LooksAgain
<1> QED
  BY <1>2, <1>3, <1>4, <1>5 DEF PrintBlob

\* Whatever the file holds, each iteration leaves less to do, if it is shorter than the
\* counter of offsets by the length of an instruction: what is left of the proof that the
\* disassembler ends is that it runs.
THEOREM DisassemblyGoesAhead == DisassemblerSpec => EveryStepAdvances
<1>1. DisassemblerTypeOK /\ [DisassemblerNext]_disassemblerVars =>
        [Len(data) <= OffsetCount - 3 =>
           \/ LoopOrder[phase'] > LoopOrder[phase]
           \/ phase' = phase /\ Further]_disassemblerVars
  <2> SUFFICES ASSUME DisassemblerTypeOK, DisassemblerNext, Len(data) <= OffsetCount - 3
               PROVE  \/ LoopOrder[phase'] > LoopOrder[phase]
                      \/ phase' = phase /\ Further
    OBVIOUS
  <2>1. CASE DeriveLabel \/ DeriveNone
    <3>1. phase = "derive" /\ phase' = phase /\ offset < Len(data) /\ Advance
      BY <2>1 DEF DeriveLabel, DeriveNone
    <3> QED BY <3>1, AdvanceGoesOn DEF Further
  <2>2. CASE TruncateSymbol
    <3>1. /\ phase = "truncate" /\ phase' = phase /\ this \in DOMAIN symbols
          /\ ~ Outside(symbols[this]) => symbols' = symbols /\ this' = this + 1
      BY <2>2 DEF TruncateSymbol
    <3>2. CASE Outside(symbols[this])
      BY <2>2, <3>1, <3>2, RemovalShortens DEF Further
    <3>3. CASE ~ Outside(symbols[this])
      <4>1. this \in 1 .. Len(symbols) /\ Len(symbols) \in Nat
        BY <3>1, LenProperties DEF DisassemblerTypeOK
      <4>2. this' \in this + 1 .. Len(symbols) + 1
        BY <3>1, <3>3, <4>1
      <4> QED BY <3>1, <3>3, <4>2 DEF Further
    <3> QED BY <3>2, <3>3
  <2>3. CASE PrintBlob /\ ~ EndPrint
    BY <2>3, ByteAdvances
  <2>4. CASE PrintRest
    <3>1. /\ phase = "rest" /\ phase' = phase /\ this < Len(symbols)
          /\ this' = this + 1 /\ symbols' = symbols
      BY <2>4 DEF PrintRest
    <3>2. this \in Int /\ Len(symbols) \in Int
      BY LenProperties DEF DisassemblerTypeOK
    <3> QED BY <3>1, <3>2 DEF Further
  <2>5. CASE EndDerive \/ EndTruncate \/ EndPrint \/ EndRest
    BY <2>5, OrderOfLoops DEF EndDerive, EndTruncate, EndPrint, EndRest
  <2> QED
    BY <2>1, <2>2, <2>3, <2>4, <2>5 DEF DisassemblerNext, Derive, Truncate, Rest
<1> QED
  BY <1>1, TypeCorrect, PTL DEF DisassemblerSpec, EveryStepAdvances

-----------------------------------------------------------------------------
(* The text of an instruction, read back *)

Hash(n) == Value(n, FALSE, "#")

\* A hashed number is a number
LEMMA HashIs == \A n : IsValue(Hash(n)) /\ Hashed(Hash(n)) /\ Hash(n).value = n
<1>1. \A n, wide, mark : Value(n, wide, mark).value = n
  BY DEF Value
<1>2. \A n : IsValue(Hash(n)) /\ Hashed(Hash(n))
  BY Zenon DEF Hash, Hashed, Marked, IsValue, Value
<1> QED
  BY <1>1, <1>2, Zenon DEF Hash

\* An operand of one term
LEMMA Operand1Is ==
  \A shape, x : LET o == Operand1(shape, x)
                IN  o.shape = shape /\ o.terms = <<x>> /\ Alone(o)
<1>1. \A shape, x : Operand1(shape, x).shape = shape /\ Operand1(shape, x).terms = <<x>>
  BY DEF Operand1
<1>2. \A shape, x : Alone(Operand1(shape, x))
  BY Zenon DEF Operand1, Alone
<1> QED
  BY <1>1, <1>2, Zenon

\* What an operand of each mode is printed as: around its term, and the term
ModeShape(mode) ==
  CASE mode \in {"imm", "zpg", "rel", "abs"} -> "plain"
    [] mode \in {"zpgx", "absx"} -> ",X"
    [] mode \in {"zpgy", "absy"} -> ",Y"
    [] mode = "ind"  -> "()"
    [] mode = "indx" -> "(,X)"
    [] OTHER -> "(),Y"

ModeTerm(mode, second, third) ==
  CASE mode = "imm" -> Hash(second)
    [] mode \in {"zpg", "zpgx", "zpgy"} -> Short(second)
    [] mode \in {"rel", "indx", "indy"} -> Plain(second)
    [] OTHER -> Long(second + 256 * third)

\* Shape and terms of the operand that is printed in a mode
LEMMA PrintedIs ==
  ASSUME NEW b \in Byte, ModeOf[b] \in Mode, NEW second, NEW third
  PROVE  LET mode == ModeOf[b]
             o    == OperandOf(b, second, third)
         IN  /\ mode = "imp" => o.shape = "none" /\ Alone(o)
             /\ mode = "acc" => o.shape = "A" /\ Alone(o)
             /\ mode \notin {"imp", "acc"} =>
                  /\ o.shape = ModeShape(mode) /\ o.terms = <<ModeTerm(mode, second, third)>>
                  /\ Alone(o)
<1> DEFINE mode == ModeOf[b]
           o    == OperandOf(b, second, third)
<1>1. mode = "imp" => o.shape = "none" /\ Alone(o)
  BY Zenon DEF OperandOf, Alone
<1>2. mode = "acc" => o.shape = "A" /\ Alone(o)
  BY Zenon DEF OperandOf, Alone
<1>3. mode \notin {"imp", "acc"} => o = Operand1(ModeShape(mode), ModeTerm(mode, second, third))
  <2>1. CASE mode = "imm"
    BY <2>1, Zenon DEF OperandOf, ModeShape, ModeTerm, Hash
  <2>2. CASE mode = "zpg"
    BY <2>2, Zenon DEF OperandOf, ModeShape, ModeTerm, Short
  <2>3. CASE mode = "zpgx"
    BY <2>3, Zenon DEF OperandOf, ModeShape, ModeTerm, Short
  <2>4. CASE mode = "zpgy"
    BY <2>4, Zenon DEF OperandOf, ModeShape, ModeTerm, Short
  <2>5. CASE mode = "rel"
    BY <2>5, Zenon DEF OperandOf, ModeShape, ModeTerm, Plain
  <2>6. CASE mode = "abs"
    BY <2>6, Zenon DEF OperandOf, ModeShape, ModeTerm, Long, Word2
  <2>7. CASE mode = "absx"
    BY <2>7, Zenon DEF OperandOf, ModeShape, ModeTerm, Long, Word2
  <2>8. CASE mode = "absy"
    BY <2>8, Zenon DEF OperandOf, ModeShape, ModeTerm, Long, Word2
  <2>9. CASE mode = "ind"
    BY <2>9, Zenon DEF OperandOf, ModeShape, ModeTerm, Long, Word2
  <2>10. CASE mode = "indx"
    BY <2>10, Zenon DEF OperandOf, ModeShape, ModeTerm, Plain
  <2>11. CASE mode = "indy"
    BY <2>11, Zenon DEF OperandOf, ModeShape, ModeTerm, Plain
  <2> QED
    BY <2>1, <2>2, <2>3, <2>4, <2>5, <2>6, <2>7, <2>8, <2>9, <2>10, <2>11 DEF Mode
<1> HIDE DEF o, mode
<1>4. mode \notin {"imp", "acc"} =>
        /\ o.shape = ModeShape(mode) /\ o.terms = <<ModeTerm(mode, second, third)>> /\ Alone(o)
  BY <1>3, Operand1Is, Zenon
<1> QED
  BY <1>1, <1>2, <1>4, Zenon DEF o, mode

\* The mode that is read off it, names looked up or not
LooksLike(op, e, b, o) ==
  /\ ModeOf[b] = "rel" => op \in Branches
  /\ e.shape = o.shape
  /\ ModeOf[b] \notin {"imp", "acc"} => e.terms = o.terms

\* The mode of an operand that is printed, and how its value is read
LEMMA PrintedMode ==
  ASSUME NEW b \in Byte, ModeOf[b] \in Mode, NEW second, NEW third,
         NEW op, NEW e, LooksLike(op, e, b, OperandOf(b, second, third))
  PROVE  AddressMode(op, e) = ModeOf[b]
<1> DEFINE mode == ModeOf[b]
           o == OperandOf(b, second, third)
           x == ModeTerm(mode, second, third)
<1>1. /\ mode = "imp" => o.shape = "none"
      /\ mode = "acc" => o.shape = "A"
      /\ mode \notin {"imp", "acc"} => o.shape = ModeShape(mode) /\ o.terms = <<x>>
  BY PrintedIs, Zenon
<1> HIDE DEF o
<1>2. CASE mode \in {"imp", "acc"}
  BY <1>1, <1>2, Zenon DEF AddressMode, o, LooksLike
<1>3. CASE mode \in {"ind", "indx", "indy"}
  <2>1. e.shape = ModeShape(mode)
    BY <1>1, <1>3 DEF o, LooksLike
  <2>2. CASE mode = "ind"
    BY <2>1, <2>2, Zenon DEF AddressMode, ModeShape
  <2>3. CASE mode = "indx"
    BY <2>1, <2>3, Zenon DEF AddressMode, ModeShape
  <2>4. CASE mode = "indy"
    BY <2>1, <2>4, Zenon DEF AddressMode, ModeShape
  <2> QED BY <1>3, <2>2, <2>3, <2>4
<1>4. CASE mode \notin {"imp", "acc", "ind", "indx", "indy"}
  <2>1. e.shape = ModeShape(mode) /\ e.terms = <<x>>
    BY <1>1, <1>4 DEF o, LooksLike
  <2>2. mode \in {"imm", "abs", "absx", "absy", "rel", "zpg", "zpgx", "zpgy"}
    BY <1>4 DEF Mode
  <2>3. Open(e)
    BY <2>1, <2>2, Zenon DEF Open, ModeShape
  <2>4. AddressMode(op, e) = ModeOfTerm(op, e.shape, x)
    <3> HIDE DEF x
    <3> QED BY <2>1, <2>3, ModeOfSingle
  <2>5. CASE mode = "imm"
    <3>1. Hashed(x)
      BY <2>5, HashIs, Zenon DEF ModeTerm
    <3> QED BY <2>1, <2>4, <2>5, <3>1, Zenon DEF ModeOfTerm, ModeShape, Hashed
  <2>6. CASE mode \in {"zpg", "zpgx", "zpgy"}
    <3>1. Starred(x) /\ ~ Hashed(x)
      BY <2>6, ValuesAre, Zenon DEF ModeTerm
    <3> QED BY <2>1, <2>4, <2>6, <3>1, Zenon DEF ModeOfTerm, ModeShape, Hashed, Starred
  <2>7. CASE mode = "rel"
    <3>1. ~ Starred(x) /\ ~ Hashed(x) /\ ~ IsWide(x)
      BY <2>7, ValuesAre, Zenon DEF ModeTerm
    <3>2. op \in Branches
      BY <2>7 DEF LooksLike
    <3> QED BY <2>1, <2>4, <2>7, <3>1, <3>2, Zenon DEF ModeOfTerm, ModeShape, Hashed, Starred
  <2>8. CASE mode \in {"abs", "absx", "absy"}
    <3>1. x = Long(second + 256 * third)
      BY <2>8, Zenon DEF ModeTerm
    <3>2. ~ Starred(x) /\ ~ Hashed(x) /\ IsWide(x)
      BY <3>1, ValuesAre, Zenon
    <3> QED BY <2>1, <2>4, <2>8, <3>2, Zenon DEF ModeOfTerm, ModeShape, Hashed, Starred
  <2> QED BY <2>2, <2>5, <2>6, <2>7, <2>8
<1> QED
  BY <1>2, <1>3, <1>4, Zenon

\* The assembler knows what the disassembler prints, but for tya and wai
LEMMA OpcodeBack ==
  ASSUME NEW b \in Byte, MnemonicOf[b] \notin {"illegal", "tya", "wai"}
  PROVE  /\ MnemonicOf[b] \in Mnemonic /\ ModeOf[b] \in Mode
         /\ ModeOf[b] \in DOMAIN Encoding[MnemonicOf[b]]
         /\ Encoding[MnemonicOf[b]][ModeOf[b]] = b
         /\ LengthOf[b] = LengthOfMode[ModeOf[b]]
         /\ Opcodes(MnemonicOf[b], ModeOf[b]) = {b}
<1> DEFINE op == MnemonicOf[b]
           mode == ModeInName[b]
<1>1. /\ op \in Mnemonic /\ mode \in DOMAIN Encoding[op] /\ Encoding[op][mode] = b
      /\ mode \in Mode /\ Fits(b, mode)
  BY MeaningFits
<1>2. ModeOf[b] = mode /\ LengthOf[b] = LengthOfMode[mode]
  BY <1>1 DEF Fits
<1>3. \A p \in (SingleByte \cup Stack) \ {"tya", "jsr"} : DOMAIN Encoding[p] = {"imp"}
  BY DEF SingleByte, Stack, Encoding
<1>4. DOMAIN Encoding.jsr = {"abs"}
  BY DEF Encoding
<1> HIDE DEF op, mode
<1>5. op # "tya" /\ op # "wai"
  BY DEF op
<1>6. Opcodes(op, mode) = {b}
  <2>1. CASE op = "jsr"
    <3>1. b = Encoding.jsr.abs
      BY <1>1, <1>4, <2>1
    <3>2. op \notin Moded
      BY <2>1 DEF Moded, Stack
    <3>3. Opcodes(op, mode) = {Encoding.jsr.abs}
      BY <1>5, <2>1, <3>2, Zenon DEF Opcodes
    <3> QED BY <3>1, <3>3
  <2>2. CASE op \in (SingleByte \cup Stack) \ {"tya", "jsr"}
    <3>1. b = Encoding[op].imp
      BY <1>1, <1>3, <2>2
    <3>2. op # "jsr" /\ op \notin Moded
      BY <2>2 DEF Moded
    <3>3. Opcodes(op, mode) = {Encoding[op].imp}
      BY <1>5, <2>2, <3>2, Zenon DEF Opcodes
    <3> QED BY <3>1, <3>3
  <2>3. CASE op # "jsr" /\ op \notin (SingleByte \cup Stack) \ {"tya", "jsr"}
    <3>1. op \in Moded
      BY <1>1, <1>5, <2>3 DEF Moded
    <3> QED BY <1>1, <1>5, <2>3, <3>1, Zenon DEF Opcodes
  <2> QED BY <2>1, <2>2, <2>3
<1> QED
  BY <1>1, <1>2, <1>6 DEF op, mode

\* Branches are relative, and no other instruction is
LEMMA BranchesRelative == \A p \in Branches : DOMAIN Encoding[p] = {"rel"}
BY DEF Branches, Encoding

\* No other instruction has a relative operand
LEMMA OnlyBranches ==
  ASSUME NEW op \in Mnemonic, "rel" \in DOMAIN Encoding[op] PROVE op \in Branches
<1> DEFINE Absolute(p) == "rel" \notin DOMAIN Encoding[p]
<1>1. /\ Absolute("brk") /\ Absolute("nop") /\ Absolute("clc") /\ Absolute("cld")
      /\ Absolute("cli") /\ Absolute("clv") /\ Absolute("sec")
  BY DEF Encoding
<1>2. /\ Absolute("sed") /\ Absolute("sei") /\ Absolute("dex") /\ Absolute("dey")
      /\ Absolute("tax") /\ Absolute("tay") /\ Absolute("tsx")
  BY DEF Encoding
<1>3. /\ Absolute("txa") /\ Absolute("txs") /\ Absolute("tya") /\ Absolute("inx")
      /\ Absolute("iny") /\ Absolute("rti") /\ Absolute("rts")
  BY DEF Encoding
<1>4. /\ Absolute("pha") /\ Absolute("php") /\ Absolute("pla") /\ Absolute("plp")
      /\ Absolute("wai") /\ Absolute("jsr") /\ Absolute("adc")
  BY DEF Encoding
<1>5. /\ Absolute("and") /\ Absolute("asl") /\ Absolute("bit") /\ Absolute("cmp")
      /\ Absolute("cpx") /\ Absolute("cpy") /\ Absolute("dec")
  BY DEF Encoding
<1>6. /\ Absolute("eor") /\ Absolute("inc") /\ Absolute("jmp") /\ Absolute("ora")
      /\ Absolute("lda") /\ Absolute("ldx") /\ Absolute("ldy")
  BY DEF Encoding
<1>7. /\ Absolute("lsr") /\ Absolute("rol") /\ Absolute("ror") /\ Absolute("sbc")
      /\ Absolute("sta") /\ Absolute("stx") /\ Absolute("sty")
  BY DEF Encoding
<1>8. op \in Branches \cup {"brk", "nop", "clc", "cld", "cli", "clv", "sec", "sed", "sei", "dex", "dey", "tax", "tay", "tsx", "txa", "txs", "tya", "inx", "iny", "rti", "rts", "pha", "php", "pla", "plp", "wai", "jsr", "adc", "and", "asl", "bit", "cmp", "cpx", "cpy", "dec", "eor", "inc", "jmp", "ora", "lda", "ldx", "ldy", "lsr", "rol", "ror", "sbc", "sta", "stx", "sty"}
  BY DEF Mnemonic, Encoding, Branches
<1>9. ~ Absolute(op)
  OBVIOUS
<1> HIDE DEF Absolute
<1> QED
  BY <1>1, <1>2, <1>3, <1>4, <1>5, <1>6, <1>7, <1>8, <1>9

\* The bytes that a line is assembled to, one after the other
LEMMA Shortened ==
  ASSUME NEW x, NEW y, NEW z, NEW k \in 1 .. 3
  PROVE  LET s == SubSeq(<<x, y, z>>, 1, k)
         IN  Len(s) = k /\ s[1] = x /\ (k >= 2 => s[2] = y) /\ (k = 3 => s[3] = z)
OBVIOUS

\* A line that is read as an opcode and a value, if it is longer than the opcode
ReadAs(t, op, o, f, b, x) ==
  /\ LineLength(t, op, o, f) \in 1 .. 3
  /\ Opcodes(op, AddressMode(op, Encoded(t, op, o, f))) = {b}
  /\ LineLength(t, op, o, f) # 1 => Encoded(t, op, o, f).terms = <<x>> /\ IsValue(x)

\* What an instruction is assembled to, by the mode of its operand
LEMMA BytesOfLine ==
  ASSUME NEW t, NEW op, NEW o, NEW f, NEW b, NEW x, ReadAs(t, op, o, f, b, x)
  PROVE  LET bytes == LineBytes(t, op, o, f)
             k     == LineLength(t, op, o, f)
         IN  /\ ~ IsError(t, op, o, f)
             /\ Len(bytes) = k /\ bytes[1] = b
             /\ k >= 2 => bytes[2] = x.value % 256
             /\ k = 3 => bytes[3] = x.value \div 256
<1> DEFINE k == LineLength(t, op, o, f)
           e == Encoded(t, op, o, f)
           m == AddressMode(op, e)
           opcodes == Opcodes(op, m)
           opcode_ == IF opcodes = {} THEN Encoding.nop.imp ELSE CHOOSE c \in opcodes : TRUE
           w == IF FirstValue(e) = <<>> THEN 0 ELSE FirstValue(e)[1].value
           bytes == LineBytes(t, op, o, f)
           low_  == w % 256
           high_ == w \div 256
<1>1. ~ IsError(t, op, o, f)
  BY DEF IsError, ReadAs
<1>2. opcode_ = b
  BY DEF ReadAs
<1>3. bytes = SubSeq(<<opcode_, low_, high_>>, 1, LengthOfMode[m]) /\ LengthOfMode[m] = k
  BY Zenon DEF LineBytes, LineLength
<1>4. k # 1 => w = x.value
  <2> SUFFICES ASSUME e.terms = <<x>>, IsValue(x) PROVE w = x.value
    BY DEF ReadAs
  <2>1. FirstValue(e) = <<x>>
    <3> HIDE DEF e
    <3> QED BY FirstOfOne
  <2>2. <<x>> # <<>> /\ <<x>>[1] = x
    OBVIOUS
  <2> QED BY <2>1, <2>2, Zenon
<1>5. k \in 1 .. 3
  BY DEF ReadAs
<1> HIDE DEF opcode_, low_, high_, bytes, e, k
<1>6. /\ Len(bytes) = k /\ bytes[1] = opcode_
      /\ k >= 2 => bytes[2] = low_
      /\ k = 3 => bytes[3] = high_
  BY <1>3, <1>5, Shortened
<1>7. k # 1 => low_ = x.value % 256 /\ high_ = x.value \div 256
  <2> HIDE DEF w
  <2> QED BY <1>4 DEF low_, high_
<1> QED
  BY <1>1, <1>2, <1>5, <1>6, <1>7 DEF bytes, k

\* What is assembled from the text of an instruction is the instruction: the length that
\* the first pass counts and the bytes that the second emits
LEMMA PrintedBack ==
  ASSUME NEW b \in Byte, MnemonicOf[b] \notin {"illegal", "tya", "wai"},
         NEW second \in Byte, NEW third \in Byte, NEW t, NEW f
  PROVE  LET op    == MnemonicOf[b]
             o     == OperandOf(b, second, third)
             bytes == LineBytes(t, op, o, f)
         IN  /\ LineLength(t, op, o, f) = LengthOf[b] /\ ~ IsError(t, op, o, f)
             /\ Len(bytes) = LengthOf[b] /\ bytes[1] = b
             /\ LengthOf[b] >= 2 => bytes[2] = second
             /\ LengthOf[b] = 3 => bytes[3] = third
<1> DEFINE op   == MnemonicOf[b]
           mode == ModeOf[b]
           o    == OperandOf(b, second, third)
           e    == Encoded(t, op, o, f)
           x    == ModeTerm(mode, second, third)
           k    == LengthOfMode[mode]
<1>1. /\ op \in Mnemonic /\ mode \in Mode /\ mode \in DOMAIN Encoding[op]
      /\ LengthOf[b] = k /\ Opcodes(op, mode) = {b} /\ k \in 1 .. 3
  BY OpcodeBack, LengthOfModeType
<1>2. o \in Operand
  BY PrintedOperandType
<1>3. /\ mode = "imp" => o.shape = "none" /\ Alone(o)
      /\ mode = "acc" => o.shape = "A" /\ Alone(o)
      /\ mode \notin {"imp", "acc"} =>
            o.shape = ModeShape(mode) /\ o.terms = <<x>> /\ Alone(o)
  BY <1>1, PrintedIs, Zenon
<1>4. mode \notin {"imp", "acc"} => IsValue(x)
  <2>1. \A n : IsValue(Hash(n)) /\ IsValue(Short(n)) /\ IsValue(Plain(n)) /\ IsValue(Long(n))
    BY HashIs, ValuesAre, Zenon
  <2> QED BY <2>1, Zenon DEF ModeTerm
<1>5. e.shape = o.shape
  BY <1>2, EncodedShape
<1>6. mode \notin {"imp", "acc"} => e.terms = <<x>>
  <2> SUFFICES ASSUME mode \notin {"imp", "acc"} PROVE e.terms = <<x>>
    OBVIOUS
  <2>1. o.shape = ModeShape(mode) /\ o.terms = <<x>> /\ Alone(o)
    BY <1>3
  <2>2. HasTerms(o)
    BY <2>1, Zenon DEF HasTerms, ModeShape
  <2>3. e.terms = <<Replacement(t, op, o, o.terms[1], f)>>
    BY <1>2, <2>1, <2>2, EncodedTerm, Zenon
  <2>4. o.terms[1] = x
    <3> HIDE DEF o, x
    <3> QED BY <2>1, OneTuple
  <2>5. Replacement(t, op, o, o.terms[1], f) = x
    BY <1>4, <2>4, Zenon DEF Replacement
  <2> QED BY <2>3, <2>5
<1>7. mode = "rel" => op \in Branches
  <2> HIDE DEF op
  <2> QED BY <1>1, OnlyBranches
<1>8. AddressMode(op, e) = mode
  <2>1. mode \notin {"imp", "acc"} => e.terms = o.terms
    BY <1>3, <1>6
  <2>2. LooksLike(op, e, b, o)
    BY <1>5, <1>7, <2>1 DEF LooksLike
  <2> HIDE DEF e, op
  <2> QED BY <1>1, <2>2, PrintedMode
<1>9. k # 1 => mode \notin {"imp", "acc"}
  BY DEF LengthOfMode, Mode
<1>10. k = 2 => x.value = second
  <2>1. k = 2 => mode \in {"imm", "zpg", "zpgx", "zpgy", "rel", "indx", "indy"}
    BY <1>1 DEF LengthOfMode, Mode
  <2> QED BY <2>1, HashIs, ValuesAre, Zenon DEF ModeTerm
<1>11. k = 3 => x.value = second + 256 * third
  <2>1. k = 3 => mode \in {"abs", "absx", "absy", "ind"}
    BY <1>1 DEF LengthOfMode, Mode
  <2> DEFINE n == second + 256 * third
  <2>2. k = 3 => x = Long(n)
    BY <2>1, Zenon DEF ModeTerm
  <2> HIDE DEF n
  <2> QED BY <2>2, ValuesAre DEF n
<1> DEFINE bytes == LineBytes(t, op, o, f)
<1>12. /\ LineLength(t, op, o, f) = k /\ ~ IsError(t, op, o, f)
       /\ Len(bytes) = k /\ bytes[1] = b
       /\ k >= 2 => bytes[2] = x.value % 256
       /\ k = 3 => bytes[3] = x.value \div 256
  <2>1. LineLength(t, op, o, f) = k /\ Opcodes(op, AddressMode(op, e)) = {b}
    BY <1>1, <1>8, Zenon DEF LineLength
  <2>2. ReadAs(t, op, o, f, b, x)
    BY <1>1, <1>4, <1>6, <1>9, <2>1 DEF ReadAs
  <2> HIDE DEF o, x, op, mode, k
  <2> QED BY <2>1, <2>2, BytesOfLine
<1>13. second \in Int /\ 0 <= second /\ second <= 255 /\ third \in Int /\ 0 <= third /\ third <= 255
  BY ByteBounds
<1>14. k >= 2 => bytes[2] = second
  <2>1. k = 2 => bytes[2] = second
    BY <1>10, <1>12, <1>13
  <2>2. k = 3 => bytes[2] = second
    <3> HIDE DEF bytes, x, k
    <3>1. (second + 256 * third) % 256 = second
      BY <1>13
    <3> QED BY <1>11, <1>12, <3>1
  <2> QED BY <1>1, <2>1, <2>2
<1>15. k = 3 => bytes[3] = third
  <2> HIDE DEF bytes, x, k
  <2>1. (second + 256 * third) \div 256 = third
    BY <1>13
  <2> QED BY <1>11, <1>12, <2>1
<1> QED
  BY <1>1, <1>12, <1>14, <1>15 DEF k

\* The opcodes of jumps whose operand is looked up
LEMMA JumpsFit ==
  /\ Encoding.jmp.abs = 76 /\ Encoding.jmp.ind = 108 /\ Encoding.jsr.abs = 32
  /\ \A b \in {Encoding.jmp.abs, Encoding.jsr.abs} : Fits(b, "abs")
<1>1. Encoding.jmp.abs = 76 /\ Encoding.jmp.ind = 108 /\ Encoding.jsr.abs = 32
  BY DEF Encoding
<1> QED
  BY <1>1, ModesFit

\* A name that is unknown yet, or the address of which takes two bytes
Far(t, name) == IsNamed(t, name) => 256 <= AddressOf(t, name)

\* A jump to a label has the length of a jump before the label is known and after, and is
\* assembled to the jump to where the label stands
LEMMA NamedBack ==
  ASSUME NEW b \in {Encoding.jmp.abs, Encoding.jsr.abs},
         MnemonicOf[b] \notin {"illegal", "tya", "wai"},
         NEW name \in Name, NEW t \in Seq(Symbol), NEW f, Far(t, name)
  PROVE  LET op    == MnemonicOf[b]
             o     == Operand1("plain", Named(name))
             bytes == LineBytes(t, op, o, f)
             a     == AddressOf(t, name)
         IN  /\ LineLength(t, op, o, f) = 3
             /\ IsNamed(t, name) =>
                  /\ ~ IsError(t, op, o, f)
                  /\ Len(bytes) = 3 /\ bytes[1] = b
                  /\ bytes[2] = a % 256 /\ bytes[3] = a \div 256
<1> DEFINE op == MnemonicOf[b]
           y  == Named(name)
           o  == Operand1("plain", y)
           e  == Encoded(t, op, o, f)
           a  == AddressOf(t, name)
           x  == Replacement(t, op, o, y, f)
<1>1. b \in Byte /\ ModeOf[b] = "abs" /\ LengthOf[b] = 3
  BY JumpsFit, Lengths DEF Fits, WideModes
<1>2. "abs" \in DOMAIN Encoding[op] /\ Opcodes(op, "abs") = {b}
  BY <1>1, OpcodeBack
<1>3. op \notin Branches
  <2> HIDE DEF op
  <2> QED BY <1>2, BranchesRelative
<1> HIDE DEF op
<1>4. ~ IsValue(y) /\ y.name = name /\ y \in Token
  BY DEF Named, IsValue, Token
<1>5. o.shape = "plain" /\ o.terms = <<y>> /\ Alone(o) /\ HasTerms(o) /\ o \in Operand /\ Open(o)
  <2> HIDE DEF y
  <2>1. o.shape = "plain" /\ o.terms = <<y>> /\ Alone(o) /\ o \in Operand
    BY <1>4, Operand1Is, Operand1Type
  <2> QED BY <2>1, Zenon DEF HasTerms, Open
<1> HIDE DEF o, y
<1>6. ASSUME NEW z, NEW p, p.terms = <<z>>, p.shape = "plain", ~ Hashed(z), ~ Starred(z)
      PROVE  AddressMode(op, p) = "abs"
  <2>1. Open(p)
    BY <1>6, Zenon DEF Open
  <2>2. AddressMode(op, p) = ModeOfTerm(op, p.shape, z)
    BY <1>6, <2>1, ModeOfSingle
  <2> QED BY <1>3, <1>6, <2>2, Zenon DEF ModeOfTerm, Hashed, Starred
<1>7. AddressMode(op, o) = "abs"
  <2>1. ~ Hashed(y) /\ ~ Starred(y)
    BY <1>4, Zenon DEF Hashed, Starred, Marked
  <2> QED BY <1>5, <1>6, <2>1
<1>8. e.terms = <<x>> /\ e.shape = "plain"
  <2>1. e.terms = <<Replacement(t, op, o, o.terms[1], f)>>
    BY <1>5, EncodedTerm, Zenon
  <2>2. o.terms[1] = y
    BY <1>5, OneTuple
  <2>3. e.shape = o.shape
    BY <1>5, EncodedShape
  <2> QED BY <1>5, <2>1, <2>2, <2>3
<1>9. CASE ~ IsNamed(t, name)
  <2>1. x = y
    BY <1>4, <1>9, Zenon DEF Replacement
  <2>2. ~ Hashed(x) /\ ~ Starred(x)
    BY <1>4, <2>1, Zenon DEF Hashed, Starred, Marked
  <2>3. AddressMode(op, e) = "abs"
    <3> HIDE DEF e, x
    <3> QED BY <1>6, <1>8, <2>2
  <2>4. LineLength(t, op, o, f) = 3
    BY <2>3, Lengths DEF LineLength, WideModes
  <2> QED BY <1>9, <2>4 DEF o, y, op
<1>10. CASE IsNamed(t, name)
  <2>1. a \in Int /\ 256 <= a
    BY <1>10, SymbolFound, WordBounds DEF Far
  <2>2. x = AddressToken("abs", a, f)
    BY <1>4, <1>7, <1>10, Zenon DEF Replacement
  <2>3. LengthOfMode["abs"] = 3
    BY Lengths DEF WideModes
  <2>4. x = Long(a)
    <3> HIDE DEF a
    <3>1. ~ (a <= 255)
      BY <2>1
    <3>2. LengthOfMode["abs"] # 2
      BY <2>3
    <3> QED BY <2>2, <3>1, <3>2, Zenon DEF AddressToken, Long
  <2> HIDE DEF a, x
  <2>5. ~ Hashed(x) /\ ~ Starred(x) /\ IsValue(x) /\ x.value = a
    BY <2>4, ValuesAre
  <2>6. AddressMode(op, e) = "abs"
    <3> HIDE DEF e
    <3> QED BY <1>6, <1>8, <2>5
  <2>7. LineLength(t, op, o, f) = 3
    BY <2>3, <2>6 DEF LineLength
  <2>8. ReadAs(t, op, o, f, b, x)
    BY <1>2, <1>8, <2>5, <2>6, <2>7 DEF ReadAs
  <2> DEFINE bytes == LineBytes(t, op, o, f)
             k == LineLength(t, op, o, f)
             low_ == x.value % 256
             high_ == x.value \div 256
  <2>9. /\ ~ IsError(t, op, o, f) /\ Len(bytes) = k /\ bytes[1] = b
        /\ (k >= 2 => bytes[2] = low_) /\ (k = 3 => bytes[3] = high_)
    BY <2>8, BytesOfLine
  <2>10. k = 3
    BY <2>7
  <2> HIDE DEF k, low_, high_, bytes
  <2>11. /\ ~ IsError(t, op, o, f) /\ Len(bytes) = 3 /\ bytes[1] = b
        /\ bytes[2] = low_ /\ bytes[3] = high_
    BY <2>9, <2>10
  <2> USE DEF low_, high_, bytes
  <2> QED BY <2>5, <2>7, <2>11 DEF o, y, op, a
<1> QED
  BY <1>9, <1>10

-----------------------------------------------------------------------------
(* What the lines of a listing stand for *)

\* An operand that is printed as the bytes have it
Fetched(o, second, third) ==
  /\ LengthOf[data[o + 1]] >= 2 => second = data[o + 2]
  /\ LengthOf[data[o + 1]] = 3 => third = data[o + 3]

Printed(op, operand, o) ==
  \E second, third \in Byte :
    /\ Fetched(o, second, third)
    /\ op = MnemonicOf[data[o + 1]]
    /\ operand = OperandOf(data[o + 1], second, third)

\* One that is printed as the label of where the instruction leads
Symbolic(op, operand, o) ==
  /\ data[o + 1] \in {Encoding.jmp.abs, Encoding.jsr.abs}
  /\ op = MnemonicOf[data[o + 1]]
  /\ TargetOf(o) - start \in Starts
  /\ \E i \in DOMAIN symbols :
       symbols[i].address = TargetOf(o) /\ operand = Operand1("plain", Named(symbols[i].name))

\* The lines of a label and of an instruction
LabelRow(row, a) ==
  \E i \in DOMAIN symbols :
    row = Line(symbols[i].name, Blank) /\ symbols[i].address = start + a

CodeRow(row, a) ==
  \E op \in Mnemonic, operand \in Operand :
    /\ row = Line(NoName, Code(op, operand))
    /\ Printed(op, operand, a) \/ Symbolic(op, operand, a)

\* A line that stands for the bytes from a to b
Stands(row, a, b) ==
  \/ LabelRow(row, a) /\ b = a
  \/ a \in Instructions /\ CodeRow(row, a) /\ b = After(a)

\* Where the lines behind the first stand: m[k] bytes are before the k-th
Layout(rows, m, end) ==
  /\ Len(rows) >= 1 /\ rows[1] = Line(NoName, Org(start))
  /\ m[1] = 0 /\ m[2] = 0 /\ m[Len(rows) + 1] = end
  /\ \A k \in 2 .. Len(rows) : Stands(rows[k], m[k], m[k + 1])

Places(rows) == [1 .. Len(rows) + 1 -> Nat]

HasLayout(rows, end) == \E m \in Places(rows) : Layout(rows, m, end)

\* A label that has its line
Declared(rows, name) == \E k \in DOMAIN rows : rows[k].label = name

\* All that is said of the file and its labels alone stays with them
LEMMA LabelsStay ==
  ASSUME binary' = binary, symbols' = symbols
  PROVE  /\ UNCHANGED <<data, start, Limit, Starts, Instructions>>
         /\ Recoverable' <=> Recoverable
         /\ \A rows, m, end : Layout(rows, m, end)' <=> Layout(rows, m, end)
         /\ \A row, a, b : Stands(row, a, b)' <=> Stands(row, a, b)
<1>1. data' = data /\ start' = start /\ Starts' = Starts /\ (Whole' <=> Whole)
  BY FileStays DEF start
<1>2. Instructions' = Instructions /\ Limit' = Limit
  BY <1>1 DEF Instructions, Limit
<1>3. \A o : TargetOf(o)' = TargetOf(o) /\ After(o)' = After(o)
  BY <1>1 DEF TargetOf, Target, After
<1>4. \A op, operand, o : Printed(op, operand, o)' <=> Printed(op, operand, o)
  BY <1>1 DEF Printed, Fetched
<1>5. \A op, operand, o : Symbolic(op, operand, o)' <=> Symbolic(op, operand, o)
  BY <1>1, <1>3 DEF Symbolic
<1>6. \A row, a : CodeRow(row, a)' <=> CodeRow(row, a)
  BY <1>4, <1>5 DEF CodeRow
<1>7. \A row, a : LabelRow(row, a)' <=> LabelRow(row, a)
  BY <1>1 DEF LabelRow
<1>8. \A row, a, b : Stands(row, a, b)' <=> Stands(row, a, b)
  BY <1>2, <1>3, <1>6, <1>7 DEF Stands
<1>9. \A rows, m, end : Layout(rows, m, end)' <=> Layout(rows, m, end)
  BY <1>1, <1>8 DEF Layout
<1>10. Recoverable' <=> Recoverable
  BY <1>1, <1>2, <1>3 DEF Recoverable
<1> QED
  BY <1>1, <1>2, <1>8, <1>9, <1>10

\* One more line
LEMMA LayoutGrows ==
  ASSUME NEW rows \in Seq(Row), NEW end \in Nat, HasLayout(rows, end),
         NEW row \in Row, NEW next \in Nat, Stands(row, end, next)
  PROVE  HasLayout(Append(rows, row), next)
<1> DEFINE n == Len(rows)
           more == Append(rows, row)
<1>1. PICK m \in Places(rows) : Layout(rows, m, end)
  BY DEF HasLayout
<1> DEFINE p == [k \in 1 .. n + 2 |-> IF k <= n + 1 THEN m[k] ELSE next]
<1>2. n \in Nat /\ Len(more) = n + 1 /\ more[n + 1] = row /\ \A k \in 1 .. n : more[k] = rows[k]
  BY LenProperties, AppendProperties
<1>3. n >= 1 /\ rows[1] = Line(NoName, Org(start)) /\ m[1] = 0 /\ m[2] = 0 /\ m[n + 1] = end
  BY <1>1 DEF Layout
<1>4. \A k \in 2 .. n : Stands(rows[k], m[k], m[k + 1])
  BY <1>1 DEF Layout
<1>5. m \in [1 .. n + 1 -> Nat]
  BY <1>1 DEF Places
<1> HIDE DEF n, more
<1>6. p \in [1 .. n + 2 -> Nat]
  BY <1>2, <1>5
<1>7. p[n + 2] = next /\ \A k \in 1 .. n + 1 : p[k] = m[k]
  BY <1>2
<1> HIDE DEF p
<1>8. p \in Places(more)
  BY <1>2, <1>6 DEF Places
<1>9. p[1] = 0 /\ p[2] = 0 /\ p[Len(more) + 1] = next /\ Len(more) >= 1 /\ more[1] = rows[1]
  BY <1>2, <1>3, <1>7
<1>10. ASSUME NEW k \in 2 .. Len(more) PROVE Stands(more[k], p[k], p[k + 1])
  <2>1. CASE k <= n
    <3>1. k \in 2 .. n /\ k \in 1 .. n /\ k \in 1 .. n + 1 /\ k + 1 \in 1 .. n + 1
      BY <1>2, <2>1
    <3> QED BY <1>2, <1>4, <1>7, <3>1
  <2>2. CASE ~ (k <= n)
    <3>1. k = n + 1 /\ k + 1 = n + 2 /\ n + 1 \in 1 .. n + 1
      BY <1>2, <2>2
    <3> QED BY <1>2, <1>3, <1>7, <3>1
  <2> QED BY <2>1, <2>2
<1>11. Layout(more, p, next)
  BY <1>3, <1>9, <1>10 DEF Layout
<1> QED
  BY <1>8, <1>11 DEF HasLayout, more

\* What is declared stays declared
LEMMA DeclaredGrows ==
  ASSUME NEW rows \in Seq(Row), NEW row \in Row
  PROVE  /\ \A name : Declared(rows, name) => Declared(Append(rows, row), name)
         /\ Declared(Append(rows, row), row.label)
<1>1. /\ Len(Append(rows, row)) = Len(rows) + 1 /\ Append(rows, row)[Len(rows) + 1] = row
      /\ \A k \in 1 .. Len(rows) : Append(rows, row)[k] = rows[k]
      /\ Append(rows, row) \in Seq(Row) /\ Len(rows) \in Nat
  BY LenProperties, AppendProperties
<1>2. DOMAIN Append(rows, row) = 1 .. Len(rows) + 1 /\ DOMAIN rows = 1 .. Len(rows)
  BY <1>1, LenProperties
<1> QED
  BY <1>1, <1>2 DEF Declared

-----------------------------------------------------------------------------
(* The listing of a recoverable file *)

\* An instruction of a file of whole ones ends in the file
LEMMA InstructionAt ==
  ASSUME binary \in Binary, Whole, NEW o \in Starts, o < Len(data)
  PROVE  /\ o \in Nat /\ o \in Instructions /\ Len(data) \in Nat /\ data[o + 1] \in Byte
         /\ LengthOf[data[o + 1]] \in 1 .. 3 /\ After(o) = o + LengthOf[data[o + 1]]
         /\ After(o) \in Nat /\ After(o) \in Starts /\ After(o) <= Len(data)
<1>1. o \in Nat /\ o \in Instructions /\ data \in Seq(Byte) /\ Len(data) \in Nat
  BY FileType, StartsType DEF Instructions
<1>2. o + 1 \in 1 .. Len(data)
  BY <1>1
<1>3. data[o + 1] \in Byte
  BY <1>1, <1>2, ElementOfSeq
<1>4. \A b \in Byte : LengthOf[b] \in 1 .. 3
  BY DEF LengthOf
<1>5. After(o) = o + LengthOf[data[o + 1]]
  BY DEF After
<1>6. After(o) \in Starts /\ After(o) <= Len(data)
  <2>1. Len(data) \in Starts
    BY DEF Whole
  <2> QED BY <1>1, <2>1, NextStart
<1> QED
  BY <1>1, <1>3, <1>4, <1>5, <1>6

\* The labels of the table lie in the file, or right behind it
LEMMA SymbolsLie ==
  ASSUME Inv, Collected, Whole, phase \in {"print", "rest", "done"}, NEW i \in DOMAIN symbols
  PROVE  /\ symbols[i] \in Symbol /\ symbols[i].address \in Word
         /\ start <= symbols[i].address /\ symbols[i].address <= start + Len(data)
<1>1. symbols[i] \in Symbol
  BY LenProperties, ElementOfSeq DEF Inv, DisassemblerTypeOK
<1>2. symbols[i].address \in Int /\ symbols[i].address \in Word
  BY <1>1, WordBounds DEF Symbol
<1>3. start \in Int /\ Len(data) \in Int
  BY FileType, WordBounds DEF Inv, DisassemblerTypeOK
<1>4. ~ Outside(symbols[i])
  BY DEF Collected, Truncated
<1> QED
  BY <1>1, <1>2, <1>3, <1>4 DEF Outside

\* The modes of the instructions that are looked up
LEMMA LookedUp ==
  ASSUME NEW b \in Byte, MnemonicOf[b] \notin {"illegal", "tya", "wai"},
         MnemonicOf[b] \in Symbolicated, ModeOf[b] \in WideModes
  PROVE  b \in Jumps
<1> DEFINE op == MnemonicOf[b]
           mode == ModeOf[b]
<1>1. mode \in DOMAIN Encoding[op] /\ Encoding[op][mode] = b
  BY OpcodeBack
<1>2. op \in Branches => DOMAIN Encoding[op] = {"rel"}
  BY BranchesRelative
<1>3. /\ DOMAIN Encoding.brk = {"imp"} /\ DOMAIN Encoding.jmp = {"abs", "ind"}
      /\ DOMAIN Encoding.jsr = {"abs"}
  BY DEF Encoding
<1>4. mode # "rel" /\ mode # "imp"
  BY DEF WideModes
<1>5. op \in Branches \cup {"brk", "jmp", "jsr"}
  BY DEF Symbolicated
<1> HIDE DEF op, mode
<1> QED
  BY <1>1, <1>2, <1>3, <1>4, <1>5 DEF Jumps

\* A word of the zero page is no label's, so no byte is taken for one
LEMMA NoneOnZeroPage ==
  ASSUME Inv, Collected, Recoverable, phase \in {"print", "rest", "done"}, NEW n \in 0 .. 255
  PROVE  ~ HasSymbol(symbols, n)
<1> SUFFICES ASSUME NEW i \in DOMAIN symbols, symbols[i].address = n PROVE FALSE
  BY DEF HasSymbol
<1>1. Whole /\ 256 <= start
  <2>1. start \in Int
    BY FileType, WordBounds DEF Inv, DisassemblerTypeOK
  <2> QED BY <2>1 DEF Recoverable
<1>2. start \in Int /\ start <= symbols[i].address
  BY <1>1, SymbolsLie, FileType, WordBounds DEF Inv, DisassemblerTypeOK
<1> QED
  BY <1>1, <1>2

\* What is printed for an instruction of a recoverable file stands for it, whether or not
\* a label has taken the place of its operand
LEMMA TextStands ==
  ASSUME Inv, Collected, Recoverable, phase = "print", NEW o \in Starts, o < Len(data),
         NEW second \in Byte, NEW third \in Byte, Fetched(o, second, third)
  PROVE  CodeRow(Line(NoName, InstructionLine(data[o + 1], second, third)), o)
<1> DEFINE b       == data[o + 1]
           op      == MnemonicOf[b]
           mode    == ModeOf[b]
           operand == OperandOf(b, second, third)
           x       == ModeTerm(mode, second, third)
           word    == second + 256 * third
<1>1. /\ o \in Nat /\ o \in Instructions /\ Len(data) \in Nat /\ b \in Byte
      /\ LengthOf[b] \in 1 .. 3 /\ After(o) = o + LengthOf[b] /\ After(o) <= Len(data)
  BY InstructionAt DEF Recoverable, Inv, DisassemblerTypeOK
<1>2. op \notin {"illegal", "tya", "wai"}
  BY <1>1 DEF Recoverable
<1>3. op \in Mnemonic /\ operand \in Operand /\ mode \in Mode /\ LengthOf[b] = LengthOfMode[mode]
  BY <1>1, <1>2, OpcodeBack, PrintedOperandType
<1>4. symbols \in Seq(Symbol)
  BY DEF Inv, DisassemblerTypeOK
<1>5. ~ HasSymbol(symbols, 0) /\ ~ HasSymbol(symbols, second)
  <2>1. second \in Int /\ 0 <= second /\ second <= 255
    BY ByteBounds
  <2>2. 0 \in 0 .. 255 /\ second \in 0 .. 255
    BY <2>1
  <2> QED BY <2>2, NoneOnZeroPage
<1>6. InstructionLine(b, second, third) = Symbolicate(op, operand)
  BY <1>2, Zenon DEF InstructionLine, StringForOpcode
<1>7. ASSUME Symbolicate(op, operand) = Code(op, operand) PROVE CodeRow(Line(NoName, Symbolicate(op, operand)), o)
  <2>1. Printed(op, operand, o)
    BY DEF Printed
  <2> HIDE DEF op, operand
  <2> QED BY <1>3, <1>7, <2>1 DEF CodeRow
<1>8. CASE op \notin Symbolicated
  <2>1. Symbolicate(op, operand) = Code(op, operand)
    BY <1>8, Zenon DEF Symbolicate
  <2> QED BY <1>6, <1>7, <2>1
<1>9. CASE op \in Symbolicated /\ ~ (operand.terms # <<>> /\ HasSymbol(symbols, operand.terms[1].value))
  <2>1. Symbolicate(op, operand) = Code(op, operand)
    BY <1>5, <1>9, Zenon DEF Symbolicate
  <2> QED BY <1>6, <1>7, <2>1
<1>10. CASE op \in Symbolicated /\ operand.terms # <<>> /\ HasSymbol(symbols, operand.terms[1].value)
  <2>1. /\ mode \notin {"imp", "acc"}
        /\ operand.terms = <<x>>
    <3>1. /\ mode = "imp" => operand.shape = "none"
          /\ mode = "acc" => operand.shape = "A"
          /\ mode \notin {"imp", "acc"} => operand.terms = <<x>>
      <4>1. ModeOf[b] \in Mode /\ b \in Byte
        BY <1>1, <1>3
      <4> HIDE DEF b
      <4> QED BY <4>1, PrintedIs, Zenon
    <3>2. operand.shape \in {"none", "A"} => operand.terms = <<>>
      BY <1>3, OperandType
    <3> HIDE DEF operand, x, mode
    <3> QED BY <1>10, <3>1, <3>2
  <2>2. HasSymbol(symbols, x.value) /\ operand.terms[1] = x
    <3>1. operand.terms[1] = x
      <4> HIDE DEF operand, x
      <4> QED BY <2>1, OneTuple
    <3> QED BY <1>10, <3>1
  <2>3. mode \in WideModes /\ x.value = word
    <3>1. CASE mode \in {"abs", "absx", "absy", "ind"}
      <4>1. x = Long(word)
        BY <3>1, Zenon DEF ModeTerm
      <4> HIDE DEF word, x, mode
      <4> QED BY <3>1, <4>1, ValuesAre DEF WideModes
    <3>2. CASE mode \in {"imm", "zpg", "zpgx", "zpgy", "rel", "indx", "indy"}
      <4>1. x.value = second
        BY <3>2, HashIs, ValuesAre, Zenon DEF ModeTerm
      <4> QED BY <1>5, <2>2, <4>1
    <3> QED BY <1>3, <2>1, <3>1, <3>2 DEF Mode
  <2>4. b \in Jumps /\ LengthOf[b] = 3
    BY <1>1, <1>2, <1>10, <2>3, LookedUp, LengthsOfLeads
  <2>5. TargetOf(o) = word
    <3>1. o + 2 < Len(data) /\ second = data[o + 2] /\ third = data[o + 3]
      BY <1>1, <2>4 DEF Fetched
    <3> QED BY <2>4, <3>1 DEF TargetOf, Target
  <2> DEFINE symbol == SymbolForAddress(symbols, operand.terms[1].value)
  <2>6. operand.terms[1].value = word
    BY <2>2, <2>3
  <2>7. PICK i \in DOMAIN symbols :
          symbols[i].address = word /\ symbol = symbols[i] /\ symbols[i] \in Symbol
    <3>1. HasSymbol(symbols, word)
      BY <2>2, <2>3
    <3> HIDE DEF word, operand
    <3> QED BY <1>4, <2>6, <3>1, AddressFoundAt
  <2>8. TargetOf(o) \in start .. Limit
    <3>1. /\ start <= symbols[i].address /\ symbols[i].address <= start + Len(data)
          /\ symbols[i].address \in Int /\ start \in Int
      BY SymbolsLie, FileType, WordBounds DEF Recoverable, Inv, DisassemblerTypeOK
    <3> HIDE DEF word
    <3> QED BY <1>1, <2>5, <2>7, <3>1 DEF Limit
  <2>9. b # Encoding.jmp.ind /\ TargetOf(o) - start \in Starts
    BY <1>1, <2>4, <2>8 DEF Recoverable
  <2>10. b \in {Encoding.jmp.abs, Encoding.jsr.abs}
    BY <2>4, <2>9 DEF Jumps
  <2> DEFINE jump == Operand1("plain", Named(symbol.name))
  <2>11. jump \in Operand
    <3>1. Named(symbol.name) \in Token
      BY <2>7 DEF Named, Token, Symbol
    <3> QED BY <3>1, Operand1Type
  <2>12. Symbolic(op, jump, o)
    BY <2>5, <2>7, <2>9, <2>10 DEF Symbolic
  <2>13. Symbolicate(op, operand) = Code(op, jump)
    BY <1>5, <1>10, Zenon DEF Symbolicate
  <2> HIDE DEF op, operand, jump
  <2>14. CodeRow(Line(NoName, Code(op, jump)), o)
    BY <1>3, <2>11, <2>12 DEF CodeRow
  <2> QED BY <1>6, <2>13, <2>14
<1> QED
  BY <1>8, <1>9, <1>10

\* The file up to an offset is in the listing, with the labels that lead before it
ListedTo(rows, end) ==
  /\ Len(data) < OffsetCount
  /\ end \in Starts /\ end <= Len(data)
  /\ HasLayout(rows, end)
  /\ \A i \in DOMAIN symbols :
       symbols[i].address - start \in Starts /\ symbols[i].address < start + end =>
         Declared(rows, symbols[i].name)

\* And so are the first labels of the table that lead right behind the file
RestListed(rows, n) ==
  \A i \in DOMAIN symbols :
    i < n /\ symbols[i].address = Limit => Declared(rows, symbols[i].name)

Unprinted ==
  phase \in {"derive", "truncate"} =>
    /\ listing = IF start = 0 THEN <<>> ELSE <<Line(NoName, Org(start))>>
    /\ ~ insideOfString /\ highestOffset = 0
    /\ phase = "truncate" => offset = 0 /\ Len(data) < OffsetCount

ListingStands ==
  Recoverable =>
    /\ phase = "print" =>
         ~ insideOfString /\ this = 1 /\ highestOffset = offset /\ ListedTo(listing, offset)
    /\ phase = "rest" =>
         /\ ~ insideOfString /\ highestOffset = Len(data)
         /\ ListedTo(listing, Len(data)) /\ RestListed(listing, this)
    /\ phase = "done" => ListedTo(listing, Len(data)) /\ RestListed(listing, Len(symbols) + 1)

NoLabels == phase = "undefined" => symbols = <<>>

Lists == Unprinted /\ ListingStands /\ NoLabels

\* What has been listed stays so
LEMMA ListedStays ==
  ASSUME binary' = binary, symbols' = symbols
  PROVE  /\ \A rows, end : ListedTo(rows, end)' <=> ListedTo(rows, end)
         /\ \A rows, n : RestListed(rows, n)' <=> RestListed(rows, n)
         /\ Recoverable' <=> Recoverable
<1>1. \A rows, end : HasLayout(rows, end)' <=> HasLayout(rows, end)
  BY LabelsStay DEF HasLayout, Places
<1>2. \A rows, end : ListedTo(rows, end)' <=> ListedTo(rows, end)
  BY <1>1, LabelsStay DEF ListedTo, Declared
<1>3. \A rows, n : RestListed(rows, n)' <=> RestListed(rows, n)
  BY LabelsStay DEF RestListed, Declared
<1> QED
  BY <1>2, <1>3, LabelsStay

\* A row behind the others
LEMMA OneMore ==
  ASSUME NEW rows \in Seq(Row), NEW row \in Row
  PROVE  rows \o <<row>> = Append(rows, row) /\ Append(rows, row) \in Seq(Row)
OBVIOUS

\* The start of a recoverable file
LEMMA StartIs ==
  ASSUME Inv, Recoverable
  PROVE  /\ start \in Word /\ start \in Int /\ 256 <= start /\ start < WordCount
         /\ start = binary.load /\ Len(data) \in Nat /\ Limit = start + Len(data)
         /\ binary \in Binary /\ Whole /\ symbols \in Seq(Symbol)
         /\ DOMAIN symbols = 1 .. Len(symbols) /\ Len(symbols) \in Nat /\ Len(symbols) # 0
<1>1. binary \in Binary /\ Whole /\ symbols \in Seq(Symbol)
  BY DEF Inv, DisassemblerTypeOK, Recoverable
<1>2. start \in Word /\ start \in Int /\ start < WordCount /\ Len(data) \in Nat
  BY <1>1, FileType, WordBounds
<1>3. start = binary.load
  <2>1. binary.load \in Int /\ 0 <= binary.load /\ binary.load < WordCount
    BY <1>1, WordBounds DEF Binary
  <2>2. Base[binary.format] = 0
    BY DEF Recoverable, Whole, Base
  <2> DEFINE load == binary.load
  <2> HIDE DEF load
  <2>3. load \in Int /\ 0 <= load /\ load < WordCount
    BY <2>1 DEF load
  <2>4. (0 + load) % WordCount = load
    BY <2>3, Words
  <2> QED BY <2>2, <2>4 DEF start, load
<1>4. DOMAIN symbols = 1 .. Len(symbols) /\ Len(symbols) \in Nat
  BY <1>1, LenProperties
<1>5. Len(symbols) # 0
  BY <1>1, EmptySeq DEF Recoverable
<1> QED
  BY <1>1, <1>2, <1>3, <1>4, <1>5 DEF Recoverable, Limit

\* A label that leads to the end of what is listed gets its line
LEMMA LabelListed ==
  ASSUME symbols \in Seq(Symbol), start \in Int,
         NEW rows \in Seq(Row), NEW o \in Nat, ListedTo(rows, o),
         NEW i \in DOMAIN symbols, symbols[i].address = start + o
  PROVE  LET more == Append(rows, Line(symbols[i].name, Blank))
         IN  ListedTo(more, o) /\ more \in Seq(Row) /\ Declared(more, symbols[i].name)
             /\ \A name : Declared(rows, name) => Declared(more, name)
<1> DEFINE row == Line(symbols[i].name, Blank)
           more == Append(rows, row)
<1>1. symbols[i] \in Symbol
  BY LenProperties, ElementOfSeq
<1>2. row \in Row /\ row.label = symbols[i].name
  BY <1>1, ListedType, RowType DEF Symbol, Line
<1>3. Stands(row, o, o)
  BY DEF Stands, LabelRow
<1> HIDE DEF row
<1>4. HasLayout(more, o)
  BY <1>2, <1>3, LayoutGrows DEF ListedTo
<1>5. /\ \A name : Declared(rows, name) => Declared(more, name)
      /\ Declared(more, row.label)
  BY <1>2, DeclaredGrows
<1>6. more \in Seq(Row)
  BY <1>2
<1> HIDE DEF more
<1>7. ListedTo(more, o)
  BY <1>4, <1>5 DEF ListedTo
<1> QED
  BY <1>2, <1>5, <1>6, <1>7 DEF more, row

\* The lines before an instruction are those of the one label that leads there, if any
LEMMA LabelLinesAre ==
  ASSUME Inv, Collected, Recoverable, phase = "print", ~ insideOfString,
         offset < Len(data), Len(data) < OffsetCount
  PROVE  \/ LabelLines = <<>> /\ \A i \in DOMAIN symbols : symbols[i].address # start + offset
         \/ \E i \in DOMAIN symbols :
              /\ symbols[i].address = start + offset
              /\ LabelLines = <<Line(symbols[i].name, Blank)>>
<1> DEFINE n == (start + offset) % WordCount
<1>1. /\ start \in Int /\ 256 <= start /\ start < WordCount /\ Len(data) \in Nat
      /\ Whole /\ symbols \in Seq(Symbol)
  BY StartIs
<1>2. offset \in Int /\ 0 <= offset /\ offset < WordCount
  BY <1>1, DisassemblerAssumption, RoundTripAssumption, Words DEF Inv, DisassemblerTypeOK
<1>3. \A i \in DOMAIN symbols :
        symbols[i].address \in Int /\ start <= symbols[i].address /\ symbols[i].address < WordCount
  BY <1>1, SymbolsLie, WordBounds
<1>4. CASE start + offset < WordCount
  <2>1. n = start + offset
    BY <1>1, <1>2, <1>4, Words
  <2> HIDE DEF n
  <2>2. CASE HasSymbol(symbols, n)
    <3>1. PICK i \in DOMAIN symbols :
            symbols[i].address = n /\ SymbolForAddress(symbols, n) = symbols[i]
      BY <1>1, <2>2, AddressFoundAt
    <3>2. LabelLines = <<LabelLine(symbols[i].name)>>
      BY <2>2, <3>1 DEF LabelLines, n
    <3>3. LabelLine(symbols[i].name) = Line(symbols[i].name, Blank)
      BY DEF LabelLine
    <3> QED BY <2>1, <3>1, <3>2, <3>3
  <2>3. CASE ~ HasSymbol(symbols, n)
    BY <2>1, <2>3 DEF LabelLines, HasSymbol, n
  <2> QED BY <2>2, <2>3
<1>5. CASE ~ (start + offset < WordCount)
  <2>1. n = start + offset - WordCount /\ n < start
    BY <1>1, <1>2, <1>5, Words
  <2>2. n \in Int
    BY <1>1, <1>2, Words
  <2> HIDE DEF n
  <2>3. ~ HasSymbol(symbols, n)
    BY <1>1, <1>3, <2>1, <2>2 DEF HasSymbol
  <2>4. \A i \in DOMAIN symbols : symbols[i].address # start + offset
    BY <1>1, <1>2, <1>3, <1>5
  <2> QED BY <2>3, <2>4 DEF LabelLines, n
<1> QED
  BY <1>4, <1>5

\* They are listed
LEMMA LabelsListed ==
  ASSUME Inv, Collected, Recoverable, phase = "print", ~ insideOfString,
         offset < Len(data), ListedTo(listing, offset)
  PROVE  LET more == listing \o LabelLines
         IN  /\ ListedTo(more, offset) /\ more \in Seq(Row)
             /\ \A i \in DOMAIN symbols :
                  symbols[i].address = start + offset => Declared(more, symbols[i].name)
<1> DEFINE more == listing \o LabelLines
<1>1. start \in Int /\ symbols \in Seq(Symbol) /\ listing \in Seq(Row) /\ offset \in Nat
  BY StartIs, DisassemblerAssumption DEF Inv, DisassemblerTypeOK, Row
<1>2. Len(data) < OffsetCount
  BY DEF ListedTo
<1>3. CASE LabelLines = <<>> /\ \A i \in DOMAIN symbols : symbols[i].address # start + offset
  <2>1. more = listing
    BY <1>1, <1>3, ConcatEmptySeq
  <2> HIDE DEF more
  <2> QED BY <1>1, <1>3, <2>1 DEF more
<1>4. ASSUME NEW i \in DOMAIN symbols, symbols[i].address = start + offset,
             LabelLines = <<Line(symbols[i].name, Blank)>>
      PROVE  /\ ListedTo(more, offset) /\ more \in Seq(Row)
             /\ \A j \in DOMAIN symbols :
                  symbols[j].address = start + offset => Declared(more, symbols[j].name)
  <2> DEFINE row == Line(symbols[i].name, Blank)
  <2>1. symbols[i] \in Symbol
    BY <1>1, LenProperties, ElementOfSeq
  <2>2. row \in Row
    BY <2>1, ListedType, RowType DEF Symbol
  <2>3. ListedTo(Append(listing, row), offset) /\ Declared(Append(listing, row), symbols[i].name)
        /\ Append(listing, row) \in Seq(Row)
    BY <1>1, <1>4, LabelListed
  <2>4. more = Append(listing, row)
    <3> HIDE DEF row
    <3> QED BY <1>1, <1>4, <2>2, OneMore DEF row
  <2>5. \A j \in DOMAIN symbols : symbols[j].address = start + offset => j = i
    BY <1>4 DEF Inv, LabelsAreDistinct
  <2> HIDE DEF more, row
  <2> QED BY <2>3, <2>4, <2>5
<1> HIDE DEF more
<1>5. /\ ListedTo(more, offset) /\ more \in Seq(Row)
      /\ \A j \in DOMAIN symbols :
           symbols[j].address = start + offset => Declared(more, symbols[j].name)
  <2>1. \/ LabelLines = <<>> /\ \A i \in DOMAIN symbols : symbols[i].address # start + offset
        \/ \E i \in DOMAIN symbols :
             /\ symbols[i].address = start + offset
             /\ LabelLines = <<Line(symbols[i].name, Blank)>>
    BY <1>2, LabelLinesAre
  <2>2. CASE \E i \in DOMAIN symbols :
             /\ symbols[i].address = start + offset
             /\ LabelLines = <<Line(symbols[i].name, Blank)>>
    <3>1. PICK i \in DOMAIN symbols :
             symbols[i].address = start + offset /\ LabelLines = <<Line(symbols[i].name, Blank)>>
      BY <2>2
    <3> QED BY <3>1, <1>4
  <2> QED BY <1>3, <2>1, <2>2 DEF more
<1> QED
  BY <1>5 DEF more

\* The line of an instruction is
LEMMA CodeListed ==
  ASSUME Inv, Recoverable, NEW rows \in Seq(Row), NEW o \in Starts, o < Len(data),
         ListedTo(rows, o), NEW row \in Row, CodeRow(row, o),
         \A i \in DOMAIN symbols :
           symbols[i].address = start + o => Declared(rows, symbols[i].name)
  PROVE  ListedTo(Append(rows, row), After(o))
<1> DEFINE more == Append(rows, row)
<1>1. /\ start \in Int /\ Len(data) \in Nat /\ binary \in Binary /\ Whole
      /\ symbols \in Seq(Symbol)
  BY StartIs
<1>2. /\ o \in Nat /\ o \in Instructions /\ After(o) \in Nat
      /\ After(o) \in Starts /\ After(o) <= Len(data)
  BY <1>1, InstructionAt
<1>3. Stands(row, o, After(o))
  BY <1>2 DEF Stands
<1>4. HasLayout(more, After(o))
  BY <1>2, <1>3, LayoutGrows DEF ListedTo
<1>5. \A name : Declared(rows, name) => Declared(more, name)
  BY DeclaredGrows
<1> HIDE DEF more
<1>6. ASSUME NEW i \in DOMAIN symbols, symbols[i].address - start \in Starts,
             symbols[i].address < start + After(o)
      PROVE  Declared(more, symbols[i].name)
  <2> DEFINE p == symbols[i].address - start
  <2>1. symbols[i].address \in Int
    <3>1. symbols[i] \in Symbol
      BY <1>1, LenProperties, ElementOfSeq
    <3>2. symbols[i].address \in Word
      BY <3>1 DEF Symbol
    <3> QED BY <3>2, WordBounds
  <2>2. p <= o
    <3>1. p <= o \/ After(o) <= p
      BY <1>1, <1>6, NextStart
    <3> QED BY <1>1, <1>2, <1>6, <2>1, <3>1
  <2>3. symbols[i].address < start + o \/ symbols[i].address = start + o
    BY <1>1, <1>2, <2>1, <2>2
  <2>4. Declared(rows, symbols[i].name)
    BY <1>6, <2>3 DEF ListedTo
  <2> QED BY <1>5, <2>4
<1>7. ListedTo(more, After(o))
  BY <1>2, <1>4, <1>6 DEF ListedTo
<1> QED
  BY <1>7 DEF more

\* The operand bytes that are read are those behind the opcode
LEMMA FetchIs ==
  ASSUME Inv, Recoverable, offset \in Starts, offset < Len(data), FetchOperands
  PROVE  Fetched(offset, high', low') /\ high' \in Byte /\ low' \in Byte
<1> DEFINE k == LengthOf[data[offset + 1]]
<1>1. binary \in Binary /\ Whole
  BY StartIs
<1>2. /\ offset \in Nat /\ offset \in Instructions /\ Len(data) \in Nat /\ k \in 1 .. 3
      /\ After(offset) = offset + k /\ After(offset) <= Len(data)
  BY <1>1, InstructionAt
<1>3. ~ (offset + 2 = Len(data) /\ k = 2)
  BY <1>2 DEF Recoverable
<1> HIDE DEF k
<1>4. k >= 2 => offset + 2 < Len(data)
  BY <1>2, <1>3
<1>5. k >= 2 => high' = data[offset + 2]
  BY <1>4 DEF FetchOperands
<1>6. k = 3 => low' = data[offset + 3]
  <2> SUFFICES ASSUME k = 3 PROVE low' = data[offset + 3]
    OBVIOUS
  <2>1. offset + 2 < Len(data) /\ offset + 1 < Len(data) /\ (offset + 2) + 1 = offset + 3
    BY <1>2, <1>4
  <2>2. BytesAt(offset + 2) = {data[offset + 3]}
    BY <2>1 DEF BytesAt
  <2> QED BY <2>1, <2>2 DEF FetchOperands
<1> QED
  BY <1>5, <1>6, FetchType DEF Fetched, k

\* Nothing is listed at first
LEMMA InitLists == ASSUME DisassemblerInit PROVE Lists
BY DEF DisassemblerInit, Lists, Unprinted, ListingStands, NoLabels

\* Before anything is printed
LEMMA DeriveLists == ASSUME Inv, Lists, Derive PROVE Lists'
<1>1. /\ phase = "derive" /\ phase' \in {"derive", "truncate"} /\ binary' = binary
      /\ listing' = listing /\ insideOfString' = insideOfString
      /\ highestOffset' = highestOffset
  BY DEF Derive, DeriveLabel, DeriveNone, EndDerive
<1>2. start' = start /\ data' = data
  BY <1>1 DEF start, data
<1>3. ASSUME phase' = "truncate" PROVE offset' = 0 /\ Len(data) < OffsetCount
  <2>1. EndDerive
    BY <1>1, <1>3 DEF Derive, DeriveLabel, DeriveNone
  <2>2. Len(data) \in Nat /\ OffsetCount \in Nat \ {0} /\ offset \in 0 .. OffsetCount - 1
    BY FileType, DisassemblerAssumption DEF Inv, DisassemblerTypeOK
  <2> QED BY <2>1, <2>2 DEF EndDerive
<1>4. Unprinted'
  BY <1>1, <1>2, <1>3 DEF Lists, Unprinted
<1> QED
  BY <1>1, <1>4 DEF Lists, ListingStands, NoLabels

\* While labels are removed nothing is printed, and then the line of the origin
LEMMA TruncateLists == ASSUME Inv, Lists, Truncate PROVE Lists'
<1>1. CASE TruncateSymbol
  <2>1. /\ phase = "truncate" /\ phase' = "truncate" /\ binary' = binary /\ offset' = offset
        /\ listing' = listing /\ insideOfString' = insideOfString
        /\ highestOffset' = highestOffset
    BY <1>1 DEF TruncateSymbol
  <2>2. start' = start /\ data' = data
    BY <2>1 DEF start, data
  <2> QED BY <2>1, <2>2 DEF Lists, Unprinted, ListingStands, NoLabels
<1>2. CASE EndTruncate
  <2>1. /\ phase = "truncate" /\ phase' = "print" /\ this' = 1
        /\ UNCHANGED <<binary, offset, symbols, insideOfString, highestOffset, listing>>
    BY <1>2 DEF EndTruncate
  <2>2. /\ listing = IF start = 0 THEN <<>> ELSE <<Line(NoName, Org(start))>>
        /\ ~ insideOfString /\ highestOffset = 0 /\ offset = 0 /\ Len(data) < OffsetCount
    BY <2>1 DEF Lists, Unprinted
  <2>3. ASSUME Recoverable PROVE ListedTo(listing, 0)
    <3>1. /\ start \in Int /\ 256 <= start /\ Len(data) \in Nat /\ binary \in Binary
      BY <2>3, StartIs
    <3>2. 0 \in Starts /\ Starts \subseteq Nat
      BY <3>1, StartsType
    <3> DEFINE row == Line(NoName, Org(start))
    <3>3. listing = <<row>>
      BY <2>2, <3>1
    <3> HIDE DEF row
    <3>4. Len(listing) = 1 /\ listing[1] = row
      BY <3>3
    <3> DEFINE m == [k \in 1 .. 2 |-> 0]
    <3>5. m \in Places(listing) /\ m[1] = 0 /\ m[2] = 0
      BY <3>4 DEF Places
    <3> HIDE DEF m
    <3>6. Layout(listing, m, 0)
      BY <3>4, <3>5 DEF Layout, row
    <3>7. HasLayout(listing, 0)
      BY <3>5, <3>6 DEF HasLayout
    <3>8. ASSUME NEW i \in DOMAIN symbols, symbols[i].address - start \in Starts,
                 symbols[i].address < start + 0
          PROVE  FALSE
      <4>1. symbols[i] \in Symbol
        BY LenProperties, ElementOfSeq DEF Inv, DisassemblerTypeOK
      <4>2. symbols[i].address \in Int
        BY <4>1, WordBounds DEF Symbol
      <4>3. symbols[i].address - start >= 0
        <5> DEFINE p == symbols[i].address - start
        <5> HIDE DEF p
        <5>1. p \in Nat
          BY <3>2, <3>8 DEF p
        <5>2. p >= 0
          BY <5>1
        <5> QED BY <5>2 DEF p
      <4> QED BY <3>1, <3>8, <4>2, <4>3
    <3> QED BY <2>2, <3>1, <3>2, <3>7, <3>8 DEF ListedTo
  <2>4. ListingStands'
    <3>1. Recoverable' => Recoverable /\ ListedTo(listing', offset')
      BY <2>1, <2>2, <2>3, ListedStays
    <3> QED BY <2>1, <2>2, <3>1, ListedStays DEF ListingStands
  <2> QED BY <2>1, <2>4 DEF Lists, Unprinted, NoLabels
<1> QED
  BY <1>1, <1>2 DEF Truncate

\* The loop that prints
LEMMA PrintLists ==
  ASSUME Inv, Inv', Collected, Lists, PrintBlob PROVE Lists'
<1>1. phase = "print" /\ UNCHANGED <<binary, symbols, this>> /\ phase' \in {"print", "rest"}
  BY DEF PrintBlob, PrintCharacter, LeaveString, EnterString, PrintInstruction, EndPrint, AtByte
<1>2. Recoverable' => Recoverable
  BY <1>1, ListedStays
<1> SUFFICES ASSUME Recoverable PROVE ListingStands'
  BY <1>1, <1>2 DEF Lists, Unprinted, NoLabels, ListingStands
<1>3. ~ insideOfString /\ this = 1 /\ highestOffset = offset /\ ListedTo(listing, offset)
  BY <1>1 DEF Lists, ListingStands
<1>4. /\ offset \in Starts /\ offset <= Len(data) /\ offset \in Nat /\ Len(data) \in Nat
      /\ binary \in Binary /\ Whole /\ Len(data) < OffsetCount
  BY <1>3, StartIs, StartsType DEF ListedTo
<1>5. ASSUME offset < Len(data) PROVE data[offset + 1] \in Byte /\ MnemonicOf[data[offset + 1]] # "illegal"
  BY <1>4, <1>5, InstructionAt DEF Recoverable
<1>6. CASE PrintInstruction
  <2> DEFINE b == data[offset + 1]
             more == listing \o LabelLines
             row == Line(NoName, InstructionLine(b, high', low'))
  <2>1. offset < Len(data) /\ FetchOperands /\ Advance /\ phase' = "print"
        /\ listing' = more \o <<row>> /\ insideOfString' = insideOfString
        /\ highestOffset' = IF offset' > highestOffset THEN offset' ELSE highestOffset
    BY <1>6 DEF PrintInstruction, AtByte, opcode
  <2>2. Fetched(offset, high', low') /\ high' \in Byte /\ low' \in Byte
    BY <1>4, <2>1, FetchIs
  <2>3. CodeRow(row, offset)
    BY <1>1, <1>4, <2>1, <2>2, TextStands
  <2>4. ListedTo(more, offset) /\ more \in Seq(Row)
        /\ \A i \in DOMAIN symbols :
             symbols[i].address = start + offset => Declared(more, symbols[i].name)
    BY <1>1, <1>3, <2>1, LabelsListed
  <2>5. row \in Row
    <3>1. symbols \in Seq(Symbol)
      BY StartIs
    <3>2. InstructionLine(b, high', low') \in Listed
      BY <1>5, <2>1, <2>2, <3>1, InstructionType
    <3> QED BY <3>2, RowType
  <2> HIDE DEF row, more, b
  <2>6. ListedTo(Append(more, row), After(offset))
    BY <1>4, <2>1, <2>3, <2>4, <2>5, CodeListed
  <2>7. listing' = Append(more, row)
    BY <2>1, <2>4, <2>5, OneMore
  <2>8. offset' = After(offset) /\ After(offset) \in Nat /\ offset < After(offset)
    <3> DEFINE k == LengthOf[data[offset + 1]]
    <3>1. k \in 1 .. 3 /\ After(offset) = offset + k /\ offset + k <= Len(data)
      BY <1>4, <2>1, InstructionAt
    <3>2. offset' = (offset + k) % OffsetCount
      BY <2>1 DEF Advance
    <3> HIDE DEF k
    <3>3. offset + k \in 0 .. OffsetCount - 1
      BY <1>4, <3>1, DisassemblerAssumption
    <3>4. (offset + k) % OffsetCount = offset + k
      BY <3>3, DisassemblerAssumption
    <3> QED BY <1>4, <3>1, <3>2, <3>4
  <2>9. highestOffset' = offset'
    BY <1>3, <1>4, <2>1, <2>8
  <2>10. ListedTo(listing', offset')
    BY <2>6, <2>7, <2>8
  <2> QED BY <1>1, <1>3, <2>1, <2>9, <2>10, ListedStays DEF ListingStands
<1>7. CASE EndPrint
  <2>1. offset = Len(data) /\ phase' = "rest"
        /\ UNCHANGED <<insideOfString, highestOffset, listing>>
    BY <1>4, <1>7 DEF EndPrint
  <2>2. RestListed(listing, this)
    <3>1. \A i \in DOMAIN symbols : i \in Nat \ {0}
      BY StartIs
    <3> QED BY <1>3, <3>1 DEF RestListed
  <2>3. data' = data
    BY <1>1 DEF data
  <2>4. ListedTo(listing', Len(data)') /\ RestListed(listing', this')
    BY <1>1, <1>3, <2>1, <2>2, <2>3
  <2> QED BY <1>1, <1>3, <2>1, <2>3, <2>4, ListedStays DEF ListingStands
<1>8. CASE PrintCharacter \/ LeaveString
  BY <1>3, <1>8 DEF PrintCharacter, LeaveString, AtByte
<1>9. CASE EnterString
  BY <1>5, <1>9 DEF EnterString, AtByte, StringForOpcode, opcode
<1> QED
  BY <1>6, <1>7, <1>8, <1>9 DEF PrintBlob

\* The labels that were not met
LEMMA RestLists ==
  ASSUME Inv, Collected, Lists, Rest PROVE Lists'
<1>1. phase = "rest" /\ UNCHANGED <<binary, symbols>> /\ phase' \in {"rest", "done", "undefined"}
  BY DEF Rest, PrintRest, EndRest
<1>2. Unprinted' /\ NoLabels'
  <2>1. phase' = "undefined" => symbols = <<>>
    BY DEF Rest, PrintRest, EndRest
  <2> QED BY <1>1, <2>1 DEF Unprinted, NoLabels
<1>3. Recoverable' => Recoverable
  BY <1>1, ListedStays
<1> SUFFICES ASSUME Recoverable PROVE ListingStands'
  BY <1>2, <1>3 DEF Lists, ListingStands
<1>4. /\ ~ insideOfString /\ highestOffset = Len(data)
      /\ ListedTo(listing, Len(data)) /\ RestListed(listing, this)
  BY <1>1 DEF Lists, ListingStands
<1>5. /\ start \in Int /\ start = binary.load /\ Len(data) \in Nat /\ Limit = start + Len(data)
      /\ Whole /\ symbols \in Seq(Symbol)
      /\ DOMAIN symbols = 1 .. Len(symbols) /\ Len(symbols) \in Nat /\ Len(symbols) # 0
      /\ this \in Nat \ {0} /\ listing \in Seq(Row)
  BY StartIs DEF Inv, DisassemblerTypeOK, Row
<1>6. data' = data
  BY <1>1 DEF data
<1>7. CASE PrintRest
  <2>1. /\ phase' = "rest" /\ this < Len(symbols) /\ this' = this + 1
        /\ listing' = listing \o RestLines(symbols[this])
        /\ UNCHANGED <<insideOfString, highestOffset>>
    BY <1>7 DEF PrintRest
  <2>2. this \in DOMAIN symbols
    BY <1>5, <2>1
  <2> DEFINE s == symbols[this]
  <2>3. s.address \in Int /\ s.address <= Limit
    BY <1>1, <1>5, <2>2, SymbolsLie, WordBounds
  <2>4. CASE s.address < Limit
    <3>1. RestLines(s) = <<>>
      BY <1>4, <1>5, <2>4 DEF RestLines
    <3>2. listing' = listing
      BY <1>5, <2>1, <3>1, ConcatEmptySeq
    <3>3. RestListed(listing, this + 1)
      <4>1. \A i \in DOMAIN symbols : i < this + 1 /\ symbols[i].address = Limit => i < this
        BY <1>5, <2>2, <2>3, <2>4
      <4> QED BY <1>4, <4>1 DEF RestListed
    <3>4. ListedTo(listing', Len(data)') /\ RestListed(listing', this')
      BY <1>4, <1>6, <2>1, <3>2, <3>3
    <3> QED BY <1>1, <1>4, <1>6, <2>1, <3>4, ListedStays DEF ListingStands
  <2>5. CASE s.address = Limit
    <3> DEFINE row == Line(s.name, Blank)
    <3>1. RestLines(s) = <<row>>
      <4>1. RestLines(s) = <<LabelLine(s.name)>>
        BY <1>4, <1>5, <2>3, <2>5 DEF RestLines
      <4>2. LabelLine(s.name) = row
        BY <1>4 DEF LabelLine
      <4> QED BY <4>1, <4>2
    <3>2. row \in Row
      <4>1. s \in Symbol
        BY <1>5, <2>2, LenProperties, ElementOfSeq
      <4> QED BY <4>1, ListedType, RowType DEF Symbol
    <3> DEFINE more == Append(listing, row)
    <3>3. ListedTo(more, Len(data)) /\ more \in Seq(Row) /\ Declared(more, s.name)
          /\ \A name : Declared(listing, name) => Declared(more, name)
      BY <1>4, <1>5, <2>2, <2>5, LabelListed
    <3> HIDE DEF row
    <3>4. listing' = more
      BY <1>5, <2>1, <3>1, <3>2, OneMore
    <3> HIDE DEF more
    <3>5. RestListed(more, this + 1)
      <4>1. \A i \in DOMAIN symbols : i < this + 1 => i < this \/ i = this
        BY <1>5
      <4> QED BY <1>4, <3>3, <4>1 DEF RestListed
    <3>6. ListedTo(listing', Len(data)') /\ RestListed(listing', this')
      BY <1>6, <2>1, <3>3, <3>4, <3>5
    <3> QED BY <1>1, <1>4, <1>6, <2>1, <3>6, ListedStays DEF ListingStands
  <2> QED BY <1>5, <2>3, <2>4, <2>5
<1>8. CASE EndRest
  <2>1. phase' = "done" /\ this >= Len(symbols) /\ listing' = listing
    BY <1>8 DEF EndRest, Recoverable
  <2>2. RestListed(listing, Len(symbols) + 1)
    <3>1. \A i \in DOMAIN symbols :
            i < Len(symbols) + 1 /\ symbols[i].address = Limit => i < this
      <4>1. symbols[Len(symbols)].address # Limit
        BY DEF Recoverable
      <4> QED BY <1>5, <2>1, <4>1
    <3> QED BY <1>4, <3>1 DEF RestListed
  <2>3. ListedTo(listing', Len(data)') /\ RestListed(listing', Len(symbols)' + 1)
    BY <1>1, <1>4, <1>6, <2>1, <2>2
  <2> QED BY <1>1, <2>1, <2>3, ListedStays DEF ListingStands
<1> QED
  BY <1>7, <1>8 DEF Rest

\* The invariant is about the disassembler's variables
LEMMA StutterLists ==
  ASSUME Lists, UNCHANGED disassemblerVars PROVE Lists'
<1>1. UNCHANGED <<binary, phase, offset, symbols, this, insideOfString, highestOffset, listing>>
  BY DEF disassemblerVars
<1>2. start' = start /\ data' = data
  BY <1>1 DEF start, data
<1>3. Unprinted' /\ NoLabels'
  BY <1>1, <1>2 DEF Lists, Unprinted, NoLabels
<1>4. ListingStands'
  BY <1>1, <1>2, ListedStays DEF Lists, ListingStands
<1> QED
  BY <1>3, <1>4 DEF Lists

\* Every step keeps the listing such that it stands for the file
LEMMA ListsStep ==
  ASSUME Inv, Inv', Collected, Lists, DisassemblerNext PROVE Lists'
BY DeriveLists, TruncateLists, PrintLists, RestLists DEF DisassemblerNext

-----------------------------------------------------------------------------
(* What is assembled from the listing *)

\* Every name that is known is that of a label, and stands where the label does
Known(t) ==
  \A i \in DOMAIN t : \E j \in DOMAIN symbols :
    t[i].name = symbols[j].name /\ t[i].address = symbols[j].address

FirstBlob == [start |-> 0, data |-> <<>>]
TwoBlobs(bytes) == <<FirstBlob, [start |-> start, data |-> bytes]>>

\* The labels of the first n lines are known
NamedTo(n) == \A k \in 1 .. n : source[k].label # NoName => IsNamed(table, source[k].label)

\* The bytes before a line have been counted, or assembled
Assembling(m) ==
  /\ pass \in {"measure", "emit", "done"}
  /\ line \in 1 .. Len(source) + 1 /\ address \in Word /\ errors = 0
  /\ table \in Seq(Symbol) /\ Known(table)
  /\ pass = "measure" => NamedTo(line - 1)
  /\ pass = "measure" /\ line = 1 => blobs = <<FirstBlob>> /\ currentBlob = 1
  /\ pass = "measure" /\ line # 1 =>
       blobs = TwoBlobs(<<>>) /\ currentBlob = 2 /\ address = m[line]
  /\ pass # "measure" => NamedTo(Len(source))
  /\ pass = "emit" => blobs = TwoBlobs(SubSeq(data, 1, m[line])) /\ currentBlob = 2
  /\ pass = "done" => output = data

Waits ==
  pass = "waiting" =>
    /\ line = 1 /\ address = 0 /\ errors = 0 /\ table = <<>>
    /\ blobs = <<FirstBlob>> /\ currentBlob = 1

Assembled ==
  pass # "waiting" =>
    /\ phase = "done" /\ source = listing
    /\ Recoverable => \E m \in Places(source) : Layout(source, m, Len(data)) /\ Assembling(m)

\* A symbol is one of a name and an address
LEMMA SymbolAt ==
  ASSUME symbols \in Seq(Symbol), NEW i \in DOMAIN symbols
  PROVE  /\ symbols[i].name \in Name /\ symbols[i].name # NoName
         /\ symbols[i].address \in Word /\ symbols[i].address \in Int
<1>1. symbols[i] \in Symbol
  BY LenProperties, ElementOfSeq
<1>2. symbols[i].name \in Name /\ symbols[i].address \in Word
  BY <1>1 DEF Symbol
<1> QED
  BY <1>2, WordBounds, AssemblerAssumption

\* The rows of a listing, by their kinds
LEMMA RowIs ==
  ASSUME symbols \in Seq(Symbol), NEW rows \in Seq(Row), NEW m, NEW end, Layout(rows, m, end),
         NEW k \in 1 .. Len(rows)
  PROVE  \/ /\ k = 1 /\ rows[k].label = NoName /\ rows[k].body.kind = "org"
            /\ rows[k].body.start = start /\ m[k + 1] = m[k]
         \/ /\ k # 1 /\ rows[k].body.kind = "blank" /\ m[k + 1] = m[k]
            /\ \E i \in DOMAIN symbols :
                 rows[k].label = symbols[i].name /\ symbols[i].address = start + m[k]
         \/ /\ k # 1 /\ rows[k].label = NoName /\ rows[k].body.kind = "code"
            /\ rows[k].body.op \in Mnemonic /\ rows[k].body.operand \in Operand
            /\ m[k] \in Instructions /\ m[k + 1] = After(m[k])
            /\ \/ Printed(rows[k].body.op, rows[k].body.operand, m[k])
               \/ Symbolic(rows[k].body.op, rows[k].body.operand, m[k])
<1>1. CASE k = 1
  <2>1. rows[k] = Line(NoName, Org(start)) /\ m[k] = 0 /\ m[k + 1] = 0
    BY <1>1 DEF Layout
  <2> QED BY <1>1, <2>1 DEF Line, Org
<1>2. CASE k # 1
  <2>1. k \in 2 .. Len(rows)
    BY <1>2, LenProperties
  <2>2. Stands(rows[k], m[k], m[k + 1])
    BY <2>1 DEF Layout
  <2>3. CASE LabelRow(rows[k], m[k]) /\ m[k + 1] = m[k]
    BY <1>2, <2>3 DEF LabelRow, Line, Blank
  <2>4. CASE m[k] \in Instructions /\ CodeRow(rows[k], m[k]) /\ m[k + 1] = After(m[k])
    <3>1. PICK op \in Mnemonic, operand \in Operand :
            /\ rows[k] = Line(NoName, Code(op, operand))
            /\ Printed(op, operand, m[k]) \/ Symbolic(op, operand, m[k])
      BY <2>4 DEF CodeRow
    <3>2. rows[k].label = NoName /\ rows[k].body.kind = "code" /\ rows[k].body.op = op
          /\ rows[k].body.operand = operand
      BY <3>1 DEF Line, Code
    <3> QED BY <1>2, <2>4, <3>1, <3>2
  <2> QED BY <2>2, <2>3, <2>4 DEF Stands
<1> QED
  BY <1>1, <1>2

\* Bytes before a line are bytes of the file
LEMMA PlaceIs ==
  ASSUME Inv, Collected, Recoverable, phase = "done",
         NEW rows \in Seq(Row), NEW m \in Places(rows), Layout(rows, m, Len(data)),
         NEW k \in 1 .. Len(rows) + 1
  PROVE  m[k] \in Nat /\ m[k] <= Len(data)
<1>1. /\ Len(data) \in Nat /\ start \in Int /\ Whole /\ symbols \in Seq(Symbol)
      /\ binary \in Binary
  BY StartIs
<1>2. Len(rows) \in Nat /\ m[k] \in Nat
  BY LenProperties DEF Places
<1>3. CASE k <= 2
  BY <1>1, <1>2, <1>3 DEF Layout
<1>4. CASE k > 2
  <2> DEFINE j == k - 1
  <2>1. j \in 1 .. Len(rows) /\ j # 1 /\ j + 1 = k /\ j \in 1 .. Len(rows) + 1
    BY <1>2, <1>4
  <2> HIDE DEF j
  <2>2. m[j] \in Nat
    BY <1>2, <2>1 DEF Places
  <2>3. CASE m[j + 1] = m[j] /\ \E i \in DOMAIN symbols : symbols[i].address = start + m[j]
    <3>1. PICK i \in DOMAIN symbols : symbols[i].address = start + m[j]
      BY <2>3
    <3>2. symbols[i].address <= start + Len(data)
      BY <1>1, SymbolsLie
    <3> QED BY <1>1, <2>1, <2>2, <2>3, <3>1, <3>2
  <2>4. CASE m[j] \in Instructions /\ m[j + 1] = After(m[j])
    <3>1. m[j] \in Starts /\ m[j] < Len(data)
      BY <2>4 DEF Instructions
    <3> QED BY <1>1, <1>2, <2>1, <2>4, <3>1, InstructionAt
  <2> QED BY <1>1, <2>1, <2>3, <2>4, RowIs
<1> QED
  BY <1>2, <1>3, <1>4

\* What is known of a label
LEMMA KnownLabel ==
  ASSUME Inv, Recoverable, Collected, phase = "done", NEW t \in Seq(Symbol), Known(t),
         NEW i \in DOMAIN symbols, IsNamed(t, symbols[i].name)
  PROVE  AddressOf(t, symbols[i].name) = symbols[i].address /\ 256 <= AddressOf(t, symbols[i].name)
<1> DEFINE name == symbols[i].name
           p == SymbolForString(t, name)
<1>1. p \in DOMAIN t /\ t[p].name = name
  BY SymbolFound
<1>2. PICK j \in DOMAIN symbols : t[p].name = symbols[j].name /\ t[p].address = symbols[j].address
  BY <1>1 DEF Known
<1>3. j = i
  BY <1>1, <1>2 DEF Inv, LabelsAreDistinct
<1>4. AddressOf(t, name) = symbols[i].address
  BY <1>2, <1>3 DEF AddressOf
<1>5. /\ start \in Int /\ 256 <= start /\ start <= symbols[i].address /\ symbols[i].address \in Int
  BY StartIs, SymbolsLie, WordBounds
<1> QED
  BY <1>4, <1>5

\* A label that instructions lead to has its line
LEMMA LabelIsDeclared ==
  ASSUME Inv, Collected, Lists, Recoverable, phase = "done",
         NEW i \in DOMAIN symbols, symbols[i].address - start \in Starts
  PROVE  Declared(listing, symbols[i].name)
<1>1. ListedTo(listing, Len(data)) /\ RestListed(listing, Len(symbols) + 1)
  BY DEF Lists, ListingStands
<1>2. /\ symbols[i].address \in Int /\ symbols[i].address <= start + Len(data)
      /\ start \in Int /\ Len(data) \in Nat /\ Limit = start + Len(data)
      /\ i \in Int /\ i < Len(symbols) + 1
  BY StartIs, SymbolsLie, WordBounds
<1>3. CASE symbols[i].address < start + Len(data)
  BY <1>1, <1>3 DEF ListedTo
<1>4. CASE symbols[i].address = Limit
  BY <1>1, <1>2, <1>4 DEF RestListed
<1> QED
  BY <1>2, <1>3, <1>4

\* The text of an instruction is read back
ReadBack(b, second, third, t, f) ==
  LET op    == MnemonicOf[b]
      o     == OperandOf(b, second, third)
      bytes == LineBytes(t, op, o, f)
  IN  /\ LineLength(t, op, o, f) = LengthOf[b] /\ ~ IsError(t, op, o, f)
      /\ Len(bytes) = LengthOf[b] /\ bytes[1] = b
      /\ LengthOf[b] >= 2 => bytes[2] = second
      /\ LengthOf[b] = 3 => bytes[3] = third

\* The instruction that was printed, for any operand it has
LEMMA PrintedReadBack ==
  ASSUME NEW b \in Byte, MnemonicOf[b] \notin {"illegal", "tya", "wai"},
         NEW second \in Byte, NEW third \in Byte, NEW t, NEW f
  PROVE  ReadBack(b, second, third, t, f)
BY PrintedBack DEF ReadBack

\* The line of an instruction has its length, whatever is known
LEMMA CodeLength ==
  ASSUME Inv, Collected, Recoverable, phase = "done", NEW t \in Seq(Symbol), Known(t), NEW f,
         NEW a \in Instructions, NEW op, NEW operand,
         Printed(op, operand, a) \/ Symbolic(op, operand, a)
  PROVE  LineLength(t, op, operand, f) = LengthOf[data[a + 1]]
<1> DEFINE b == data[a + 1]
<1>1. b \in Byte /\ MnemonicOf[b] \notin {"illegal", "tya", "wai"}
  BY StartIs, InstructionAt DEF Recoverable, Instructions
<1>2. CASE Printed(op, operand, a)
  <2>1. PICK second \in Byte, third \in Byte :
          op = MnemonicOf[b] /\ operand = OperandOf(b, second, third)
    BY <1>2 DEF Printed
  <2> HIDE DEF b
  <2>2. LineLength(t, MnemonicOf[b], OperandOf(b, second, third), f) = LengthOf[b]
    <3>1. ReadBack(b, second, third, t, f)
      BY <1>1, PrintedReadBack
    <3> QED BY <3>1 DEF ReadBack
  <2>3. LineLength(t, op, operand, f) = LengthOf[b]
    BY <2>1, <2>2
  <2> QED BY <2>3 DEF b
<1>3. CASE Symbolic(op, operand, a)
  <2>1. PICK i \in DOMAIN symbols : operand = Operand1("plain", Named(symbols[i].name))
    BY <1>3 DEF Symbolic
  <2>2. b \in {Encoding.jmp.abs, Encoding.jsr.abs} /\ op = MnemonicOf[b]
    BY <1>3 DEF Symbolic
  <2> DEFINE name == symbols[i].name
  <2>3. name \in Name
    BY StartIs, SymbolAt
  <2>4. Far(t, name)
    BY KnownLabel DEF Far
  <2>5. LengthOf[b] = 3
    BY <2>2, LengthsOfLeads DEF Jumps
  <2> HIDE DEF b, name
  <2>6. LineLength(t, op, Operand1("plain", Named(name)), f) = 3
    BY <1>1, <2>2, <2>3, <2>4, NamedBack
  <2> QED BY <2>1, <2>5, <2>6 DEF b, name
<1> QED
  BY <1>2, <1>3

\* The labels that have lines
AllKnown(t) == \A name : name # NoName /\ Declared(listing, name) => IsNamed(t, name)

\* The line of the instruction at an offset is assembled to its bytes
IsAssembledTo(t, op, operand, f, a) ==
  LET bytes == LineBytes(t, op, operand, f)
  IN  /\ ~ IsError(t, op, operand, f) /\ Len(bytes) = LengthOf[data[a + 1]]
      /\ \A k \in 1 .. LengthOf[data[a + 1]] : bytes[k] = data[a + k]

\* And its bytes, if the labels that have lines are known
LEMMA CodeBytes ==
  ASSUME Inv, Collected, Lists, Recoverable, phase = "done",
         NEW t \in Seq(Symbol), Known(t), NEW f,
         AllKnown(t),
         NEW a \in Instructions, NEW op, NEW operand,
         Printed(op, operand, a) \/ Symbolic(op, operand, a)
  PROVE  IsAssembledTo(t, op, operand, f, a)
<1> DEFINE b == data[a + 1]
           bytes == LineBytes(t, op, operand, f)
<1>1. b \in Byte /\ MnemonicOf[b] \notin {"illegal", "tya", "wai"} /\ LengthOf[b] \in 1 .. 3
      /\ a \in Nat /\ Len(data) \in Nat /\ After(a) = a + LengthOf[b] /\ After(a) <= Len(data)
  BY StartIs, InstructionAt DEF Recoverable, Instructions
<1>2. CASE Printed(op, operand, a)
  <2>1. PICK second \in Byte, third \in Byte :
          /\ op = MnemonicOf[b] /\ operand = OperandOf(b, second, third)
          /\ Fetched(a, second, third)
    BY <1>2 DEF Printed
  <2>2. /\ LengthOf[b] >= 2 => second = data[a + 2]
        /\ LengthOf[b] = 3 => third = data[a + 3]
    BY <2>1 DEF Fetched
  <2> HIDE DEF b
  <2> DEFINE p == MnemonicOf[b]
             o == OperandOf(b, second, third)
             back == LineBytes(t, p, o, f)
  <2>3. /\ ~ IsError(t, p, o, f) /\ Len(back) = LengthOf[b] /\ back[1] = b
        /\ LengthOf[b] >= 2 => back[2] = second
        /\ LengthOf[b] = 3 => back[3] = third
    <3>1. ReadBack(b, second, third, t, f)
      BY <1>1, PrintedReadBack
    <3> QED BY <3>1 DEF ReadBack
  <2>4. op = p /\ operand = o /\ bytes = back
    BY <2>1
  <2> HIDE DEF p, o, back
  <2>5. /\ ~ IsError(t, op, operand, f) /\ Len(bytes) = LengthOf[b] /\ bytes[1] = b
        /\ LengthOf[b] >= 2 => bytes[2] = second
        /\ LengthOf[b] = 3 => bytes[3] = third
    BY <2>3, <2>4
  <2> HIDE DEF bytes
  <2>6. \A k \in 1 .. LengthOf[b] : bytes[k] = data[a + k]
    BY <1>1, <2>2, <2>5 DEF b
  <2> QED BY <2>5, <2>6 DEF b, bytes, IsAssembledTo
<1>3. CASE Symbolic(op, operand, a)
  <2>1. PICK i \in DOMAIN symbols : symbols[i].address = TargetOf(a)
                                    /\ operand = Operand1("plain", Named(symbols[i].name))
    BY <1>3 DEF Symbolic
  <2>2. b \in {Encoding.jmp.abs, Encoding.jsr.abs} /\ op = MnemonicOf[b]
        /\ TargetOf(a) - start \in Starts
    BY <1>3 DEF Symbolic
  <2> DEFINE name == symbols[i].name
             n == AddressOf(t, name)
  <2>3. name \in Name /\ name # NoName
    BY StartIs, SymbolAt
  <2>4. IsNamed(t, name)
    BY <2>1, <2>2, <2>3, LabelIsDeclared DEF AllKnown
  <2>5. n = TargetOf(a) /\ Far(t, name)
    BY <2>1, <2>4, KnownLabel DEF Far
  <2>6. LengthOf[b] = 3 /\ b \in Jumps
    BY <2>2, LengthsOfLeads DEF Jumps
  <2>7. n % 256 = data[a + 2] /\ n \div 256 = data[a + 3]
    <3>1. data \in Seq(Byte) /\ a + 2 \in 1 .. Len(data) /\ a + 3 \in 1 .. Len(data)
      BY <1>1, <2>6, StartIs, FileType
    <3>2. data[a + 2] \in Byte /\ data[a + 3] \in Byte
      BY <3>1, ElementOfSeq
    <3> DEFINE second == data[a + 2]
               third == data[a + 3]
    <3>3. TargetOf(a) = second + 256 * third
      BY <1>1, <2>6, <3>1 DEF TargetOf, Target
    <3> HIDE DEF second, third, n
    <3>4. /\ second \in Int /\ 0 <= second /\ second <= 255
          /\ third \in Int /\ 0 <= third /\ third <= 255
      BY <3>2, ByteBounds DEF second, third
    <3>5. n % 256 = second /\ n \div 256 = third
      BY <2>5, <3>3, <3>4
    <3> QED BY <3>5 DEF second, third
  <2> DEFINE o == Operand1("plain", Named(name))
  <2> HIDE DEF b, n, name
  <2>8. /\ ~ IsError(t, op, o, f) /\ Len(LineBytes(t, op, o, f)) = 3 /\ LineBytes(t, op, o, f)[1] = b
        /\ LineBytes(t, op, o, f)[2] = n % 256 /\ LineBytes(t, op, o, f)[3] = n \div 256
    BY <1>1, <2>2, <2>3, <2>4, <2>5, NamedBack DEF n
  <2>9. operand = o
    BY <2>1 DEF name
  <2> HIDE DEF o
  <2>10. /\ ~ IsError(t, op, operand, f) /\ Len(bytes) = 3 /\ bytes[1] = b
         /\ bytes[2] = data[a + 2] /\ bytes[3] = data[a + 3]
    BY <2>7, <2>8, <2>9
  <2> HIDE DEF bytes
  <2>11. \A k \in 1 .. 3 : bytes[k] = data[a + k]
    BY <2>10 DEF b
  <2> QED BY <2>6, <2>10, <2>11 DEF b, bytes, IsAssembledTo
<1> QED
  BY <1>2, <1>3

\* What the assembler has of a recoverable file
Source(m) ==
  /\ phase = "done" /\ Recoverable
  /\ source = listing /\ m \in Places(source) /\ Layout(source, m, Len(data))
  /\ Assembling(m)

\* A file of this length has no wider offsets
LEMMA FileFits ==
  ASSUME Inv, Lists, Recoverable, phase = "done"
  PROVE  Len(data) < WordCount
<1>1. Len(data) < OffsetCount /\ Len(data) \in Nat
  BY StartIs DEF Lists, ListingStands, ListedTo
<1> QED
  BY <1>1, DisassemblerAssumption, RoundTripAssumption, Words

\* The facts that every step uses
LEMMA SourceIs ==
  ASSUME Inv, Collected, Lists, NEW m, Source(m)
  PROVE  /\ source \in Seq(Row) /\ Len(source) \in Nat /\ 1 <= Len(source)
         /\ line \in Nat /\ 1 <= line /\ line <= Len(source) + 1
         /\ m \in Places(source) /\ Layout(source, m, Len(data))
         /\ m[line] \in Nat /\ m[line] <= Len(data) /\ m[Len(source) + 1] = Len(data)
         /\ line <= Len(source) => m[line + 1] \in Nat /\ m[line + 1] <= Len(data)
         /\ start \in Int /\ 256 <= start /\ start < WordCount /\ start \in Word
         /\ symbols \in Seq(Symbol) /\ Len(data) \in Nat /\ Len(data) < WordCount
         /\ data \in Seq(Byte) /\ Recoverable /\ phase = "done"
<1>1. source \in Seq(Row) /\ m \in Places(source) /\ Layout(source, m, Len(data))
  BY DEF Source, Inv, DisassemblerTypeOK, Row
<1>2. Len(source) \in Nat /\ 1 <= Len(source) /\ m[Len(source) + 1] = Len(data)
  BY <1>1, LenProperties DEF Layout
<1>3. line \in Nat /\ 1 <= line /\ line <= Len(source) + 1
  BY <1>2 DEF Source, Assembling
<1>4. line \in 1 .. Len(source) + 1 /\ (line <= Len(source) => line + 1 \in 1 .. Len(source) + 1)
  BY <1>2, <1>3
<1>5. /\ start \in Int /\ 256 <= start /\ start < WordCount /\ start \in Word
      /\ symbols \in Seq(Symbol) /\ Len(data) \in Nat /\ binary \in Binary
  BY StartIs DEF Source
<1>6. Recoverable /\ phase = "done"
  BY DEF Source
<1>7. m[line] \in Nat /\ m[line] <= Len(data)
  BY <1>1, <1>4, <1>6, PlaceIs
<1>8. line <= Len(source) => m[line + 1] \in Nat /\ m[line + 1] <= Len(data)
  BY <1>1, <1>4, <1>6, PlaceIs
<1>9. data \in Seq(Byte)
  BY <1>5, FileType
<1> QED
  BY <1>1, <1>2, <1>3, <1>5, <1>6, <1>7, <1>8, <1>9, FileFits

\* The file stays
LEMMA FileOfStep ==
  ASSUME UNCHANGED disassemblerVars
  PROVE  /\ UNCHANGED <<binary, symbols, data, start, listing, phase>>
         /\ \A t : Known(t)' <=> Known(t)
         /\ \A bytes : TwoBlobs(bytes)' = TwoBlobs(bytes)
<1>1. UNCHANGED <<binary, symbols, listing, phase>>
  BY DEF disassemblerVars
<1>2. data' = data /\ start' = start
  BY <1>1 DEF data, start
<1> QED
  BY <1>1, <1>2 DEF Known, TwoBlobs

\* The line that is read
LEMMA LineIs ==
  ASSUME Inv, Collected, Lists, NEW m, Source(m), line <= Len(source)
  PROVE  LET row == source[line] IN
         \/ /\ line = 1 /\ row.label = NoName /\ row.body.kind = "org"
            /\ row.body.start = start /\ m[line + 1] = m[line]
         \/ /\ line # 1 /\ row.body.kind = "blank" /\ m[line + 1] = m[line]
            /\ \E i \in DOMAIN symbols :
                 row.label = symbols[i].name /\ symbols[i].address = start + m[line]
         \/ /\ line # 1 /\ row.label = NoName /\ row.body.kind = "code"
            /\ row.body.op \in Mnemonic /\ row.body.operand \in Operand
            /\ m[line] \in Instructions /\ m[line + 1] = After(m[line])
            /\ \/ Printed(row.body.op, row.body.operand, m[line])
               \/ Symbolic(row.body.op, row.body.operand, m[line])
<1>1. /\ source \in Seq(Row) /\ Layout(source, m, Len(data)) /\ symbols \in Seq(Symbol)
      /\ line \in 1 .. Len(source)
  BY SourceIs
<1> QED
  BY <1>1, RowIs

\* A line has been measured
LEMMA Measured ==
  ASSUME Inv, Collected, Lists, NEW m, Source(m), UNCHANGED disassemblerVars,
         pass = "measure", line <= Len(source),
         pass' = "measure", line' = line + 1, source' = source, errors' = 0,
         table' \in Seq(Symbol), Known(table'),
         \A name : IsNamed(table, name) => IsNamed(table', name),
         source[line].label # NoName => IsNamed(table', source[line].label),
         address' \in Word, address' = m[line + 1], blobs' = TwoBlobs(<<>>), currentBlob' = 2
  PROVE  Assembling(m)'
<1>1. line \in Nat /\ 1 <= line /\ Len(source) \in Nat
  BY SourceIs
<1>2. line' \in 1 .. Len(source') + 1 /\ line' # 1 /\ line' - 1 = line
  BY <1>1
<1>3. Known(table)' /\ blobs' = TwoBlobs(<<>>)'
  BY FileOfStep
<1>4. NamedTo(line - 1)'
  <2>1. NamedTo(line - 1)
    BY DEF Source, Assembling
  <2>2. \A k \in 1 .. line : k \in 1 .. line - 1 \/ k = line
    BY <1>1
  <2>3. \A k \in 1 .. line : source[k].label # NoName => IsNamed(table', source[k].label)
    BY <2>1, <2>2 DEF NamedTo
  <2>4. \A k \in 1 .. line' - 1 : source'[k].label # NoName => IsNamed(table', source'[k].label)
    BY <1>2, <2>3
  <2> QED BY <1>2, <2>4 DEF NamedTo
<1> QED
  BY <1>2, <1>3, <1>4 DEF Assembling

\* A label is declared for the address that its symbol has
LEMMA LabelKnown ==
  ASSUME Inv, Collected, Lists, NEW m, Source(m), line # 1, pass = "measure",
         NEW i \in DOMAIN symbols, source[line].label = symbols[i].name,
         symbols[i].address = start + m[line]
  PROVE  /\ LabelHere \in Symbol /\ LabelHere.name = symbols[i].name
         /\ LabelHere.address = symbols[i].address
         /\ ~ Conflicts(table, LabelHere)
<1>1. /\ symbols[i].name \in Name /\ symbols[i].address \in Word /\ symbols[i].address \in Int
      /\ start \in Int /\ m[line] \in Nat /\ line \in Nat
  BY SourceIs, SymbolAt
<1>2. blobs = TwoBlobs(<<>>) /\ currentBlob = 2 /\ address = m[line]
      /\ table \in Seq(Symbol) /\ Known(table)
  BY DEF Source, Assembling
<1>3. blobs[currentBlob].start = start
  BY <1>2 DEF TwoBlobs
<1>4. (address + blobs[currentBlob].start) % WordCount = symbols[i].address
  <2> DEFINE n == address + blobs[currentBlob].start
  <2>1. n = symbols[i].address
    BY <1>1, <1>2, <1>3
  <2>2. n \in Int /\ 0 <= n /\ n < WordCount
    BY <1>1, <2>1, WordBounds
  <2> HIDE DEF n
  <2>3. n % WordCount = n
    BY <2>2, Words
  <2> QED BY <2>1, <2>3 DEF n
<1>5. LabelHere = [name |-> symbols[i].name, address |-> symbols[i].address,
                   type |-> "label", line |-> line]
  BY <1>4 DEF LabelHere, NewSymbol
<1>6. ASSUME IsNamed(table, symbols[i].name)
      PROVE  AddressOf(table, symbols[i].name) = symbols[i].address
  BY <1>2, <1>6, SourceIs, KnownLabel
<1> QED
  BY <1>1, <1>5, <1>6 DEF Conflicts, Symbol, SymbolType

\* Sequences of two
LEMMA TwoTuple == ASSUME NEW x, NEW y PROVE Append(<<x>>, y) = <<x, y>>
<1> DEFINE S == {x, y}
<1>1. <<x>> \in Seq(S) /\ Len(<<x>>) = 1 /\ <<x>>[1] = x
  OBVIOUS
<1>2. <<x, y>> \in Seq(S) /\ Len(<<x, y>>) = 2 /\ <<x, y>>[1] = x /\ <<x, y>>[2] = y
  OBVIOUS
<1>3. x \in S /\ y \in S
  OBVIOUS
<1> HIDE DEF S
<1>4. Append(<<x>>, y) \in Seq(S) /\ Len(Append(<<x>>, y)) = 2
      /\ Append(<<x>>, y)[1] = x /\ Append(<<x>>, y)[2] = y
  BY <1>1, <1>3, AppendProperties
<1>5. \A s, t \in Seq(S) : Len(s) = 2 /\ Len(t) = 2 /\ s[1] = t[1] /\ s[2] = t[2] => s = t
  OBVIOUS
<1> QED
  BY <1>2, <1>4, <1>5

\* One of two in place of another
LEMMA SecondOfTwo == ASSUME NEW x, NEW y, NEW z PROVE [<<x, y>> EXCEPT ![2] = z] = <<x, z>>
OBVIOUS

\* The first pass goes from place to place
LEMMA MeasureAssembles ==
  ASSUME Inv, Collected, Lists, NEW m, Source(m), UNCHANGED disassemblerVars, Measure
  PROVE  Assembling(m)'
<1>1. /\ line \in Nat /\ 1 <= line /\ Len(source) \in Nat /\ 1 <= Len(source)
      /\ line <= Len(source) + 1 /\ Len(data) < WordCount /\ Len(data) \in Nat /\ start \in Word
      /\ m[line] \in Nat /\ m[line] <= Len(data) /\ m[Len(source) + 1] = Len(data)
      /\ line <= Len(source) => m[line + 1] \in Nat /\ m[line + 1] <= Len(data)
  BY SourceIs
<1>2. errors = 0 /\ table \in Seq(Symbol) /\ Known(table)
  BY DEF Source, Assembling
<1>3. m[1] = 0 /\ m[2] = 0
  BY DEF Source, Layout
<1>4. 0 \in Word
  BY WordBounds, Words
<1>5. CASE Rewind
  <2>1. /\ pass = "measure" /\ line = Len(source) + 1 /\ line # 1
        /\ pass' = "emit" /\ line' = 1 /\ address' = 0
        /\ UNCHANGED <<source, currentBlob, blobs, table, errors>>
    BY <1>1, <1>5 DEF Rewind
  <2>2. blobs = TwoBlobs(<<>>) /\ currentBlob = 2 /\ NamedTo(Len(source))
    BY <1>1, <2>1 DEF Source, Assembling
  <2>3. SubSeq(data, 1, m[1]) = <<>>
    BY <1>3, SubSeqEmpty
  <2>4. /\ Known(table)' /\ data' = data
        /\ TwoBlobs(SubSeq(data, 1, m[line]))' = TwoBlobs(SubSeq(data', 1, m[line']))
    BY <1>2, <2>1, FileOfStep
  <2>5. blobs' = TwoBlobs(SubSeq(data, 1, m[line]))'
    BY <2>1, <2>2, <2>3, <2>4
  <2>6. NamedTo(Len(source))'
    BY <2>1, <2>2 DEF NamedTo
  <2> QED BY <1>1, <1>2, <1>4, <2>1, <2>2, <2>4, <2>5, <2>6 DEF Assembling
<1>6. CASE MeasureOrg
  <2>1. /\ pass = "measure" /\ line <= Len(source) /\ source[line].body.kind = "org"
        /\ pass' = "measure" /\ line' = line + 1 /\ source' = source
        /\ table' = Labelled /\ errors' = errors + LabelErrors
        /\ blobs' = Append(blobs, [start |-> source[line].body.start, data |-> <<>>])
        /\ currentBlob' = currentBlob + 1 /\ address' = 0
    BY <1>6 DEF MeasureOrg, At, MeasureLine, body
  <2>2. /\ line = 1 /\ source[line].label = NoName /\ source[line].body.start = start
    BY <2>1, LineIs
  <2>3. table' = table /\ errors' = 0
    BY <1>2, <2>1, <2>2 DEF Labelled, LabelErrors, HasLabel, Count
  <2>4. blobs = <<FirstBlob>> /\ currentBlob = 1
    BY <2>1, <2>2 DEF Source, Assembling
  <2>5. blobs' = TwoBlobs(<<>>)
    <3> DEFINE second == [start |-> start, data |-> <<>>]
    <3>1. blobs' = Append(<<FirstBlob>>, second)
      BY <2>1, <2>2, <2>4
    <3> HIDE DEF second
    <3>2. Append(<<FirstBlob>>, second) = <<FirstBlob, second>>
      BY TwoTuple
    <3> QED BY <3>1, <3>2 DEF TwoBlobs, second
  <2> QED BY <1>2, <1>3, <1>4, <2>1, <2>2, <2>3, <2>4, <2>5, Measured
<1>7. CASE MeasureVariable
  <2>1. /\ line <= Len(source) /\ source[line].body.kind = "variable"
    BY <1>7 DEF MeasureVariable, At
  <2> QED BY <2>1, LineIs
<1>8. CASE MeasureCode
  <2> DEFINE row == source[line]
             k == LineLength(Labelled, row.body.op, row.body.operand, address)
  <2>1. /\ pass = "measure" /\ line <= Len(source) /\ row.body.kind = "code"
        /\ pass' = "measure" /\ line' = line + 1 /\ source' = source
        /\ table' = Labelled /\ errors' = errors + LabelErrors
        /\ address' = (address + k) % WordCount
        /\ blobs' = blobs /\ currentBlob' = currentBlob
    BY <1>8 DEF MeasureCode, At, MeasureLine, body
  <2>2. /\ line # 1 /\ row.label = NoName
        /\ row.body.op \in Mnemonic /\ row.body.operand \in Operand
        /\ m[line] \in Instructions /\ m[line + 1] = After(m[line])
        /\ \/ Printed(row.body.op, row.body.operand, m[line])
           \/ Symbolic(row.body.op, row.body.operand, m[line])
    BY <2>1, LineIs
  <2>3. Labelled = table /\ table' = table /\ errors' = 0
    BY <1>2, <2>1, <2>2 DEF Labelled, LabelErrors, HasLabel, Count
  <2>4. blobs = TwoBlobs(<<>>) /\ currentBlob = 2 /\ address = m[line]
    BY <2>1, <2>2 DEF Source, Assembling
  <2>5. k = LengthOf[data[m[line] + 1]]
    BY <1>2, <2>2, <2>3, SourceIs, CodeLength
  <2>6. m[line + 1] = m[line] + k
    BY <2>2, <2>5, SourceIs, StartIs, InstructionAt DEF Instructions
  <2> HIDE DEF k
  <2>7. address' = m[line + 1] /\ address' \in Word
    <3> DEFINE n == m[line + 1]
    <3>1. n \in Nat /\ n <= Len(data) /\ Len(data) < WordCount /\ Len(data) \in Nat
      BY <1>1, <2>1
    <3> HIDE DEF n
    <3>2. n \in Int /\ 0 <= n /\ n < WordCount
      BY <3>1, Words
    <3>3. n % WordCount = n /\ n \in Word
      BY <3>2, WordBounds, Words
    <3> QED BY <2>1, <2>4, <2>6, <3>3 DEF n
  <2> QED BY <1>2, <2>1, <2>2, <2>3, <2>4, <2>7, Measured
<1>9. CASE MeasureOther
  <2>1. /\ pass = "measure" /\ line <= Len(source)
        /\ source[line].body.kind \in {"blank", "end", "byte", "asciiz"}
        /\ pass' = "measure" /\ line' = line + 1 /\ source' = source
        /\ table' = Labelled /\ errors' = errors + LabelErrors
        /\ address' = address /\ blobs' = blobs /\ currentBlob' = currentBlob
    BY <1>9 DEF MeasureOther, At, MeasureLine
  <2>2. /\ line # 1 /\ m[line + 1] = m[line]
        /\ \E i \in DOMAIN symbols :
             source[line].label = symbols[i].name /\ symbols[i].address = start + m[line]
    BY <2>1, LineIs
  <2>3. PICK i \in DOMAIN symbols :
          source[line].label = symbols[i].name /\ symbols[i].address = start + m[line]
    BY <2>2
  <2> DEFINE s == LabelHere
  <2>4. /\ s \in Symbol /\ s.name = symbols[i].name /\ s.address = symbols[i].address
        /\ ~ Conflicts(table, s)
    BY <2>1, <2>2, <2>3, LabelKnown
  <2>5. symbols[i].name # NoName
    BY SourceIs, SymbolAt
  <2>6. table' = AddSymbol(table, s) /\ errors' = 0
    BY <1>2, <2>1, <2>3, <2>4, <2>5 DEF Labelled, LabelErrors, HasLabel, Count
  <2>7. blobs = TwoBlobs(<<>>) /\ currentBlob = 2 /\ address = m[line] /\ address \in Word
    BY <2>1, <2>2 DEF Source, Assembling
  <2> HIDE DEF s
  <2>8. /\ table' \in Seq(Symbol)
        /\ \A j \in DOMAIN table : \E k \in DOMAIN table' : table'[k] = table[j]
        /\ \A j \in DOMAIN table' : table'[j] = s \/ \E k \in DOMAIN table : table'[j] = table[k]
        /\ IsNamed(table', s.name)
    BY <1>2, <2>4, <2>6, AddKeeps
  <2>9. Known(table')
    <3> SUFFICES ASSUME NEW j \in DOMAIN table'
                 PROVE  \E k \in DOMAIN symbols : table'[j].name = symbols[k].name
                                                 /\ table'[j].address = symbols[k].address
      BY DEF Known
    <3>1. CASE table'[j] = s
      BY <2>4, <3>1
    <3>2. CASE \E k \in DOMAIN table : table'[j] = table[k]
      <4>1. PICK k \in DOMAIN table : table'[j] = table[k]
        BY <3>2
      <4> QED BY <1>2, <4>1 DEF Known
    <3> QED BY <2>8, <3>1, <3>2
  <2>10. \A name : IsNamed(table, name) => IsNamed(table', name)
    <3> SUFFICES ASSUME NEW j \in DOMAIN table PROVE IsNamed(table', table[j].name)
      BY DEF IsNamed
    <3>1. PICK k \in DOMAIN table' : table'[k] = table[j]
      BY <2>8
    <3> QED BY <3>1 DEF IsNamed
  <2>11. source[line].label # NoName => IsNamed(table', source[line].label)
    BY <2>3, <2>4, <2>8
  <2> QED BY <2>1, <2>2, <2>6, <2>7, <2>8, <2>9, <2>10, <2>11, Measured
<1> QED
  BY <1>5, <1>6, <1>7, <1>8, <1>9 DEF Measure

\* Bytes that are put into the second of two blobs
LEMMA EmitInto ==
  ASSUME NEW x, NEW bytes, blobs = TwoBlobs(x), currentBlob = 2
  PROVE  /\ blobs[currentBlob].data = x
         /\ [blobs EXCEPT ![currentBlob].data = @ \o bytes] = TwoBlobs(x \o bytes)
<1> DEFINE second == [start |-> start, data |-> x]
           more   == [start |-> start, data |-> x \o bytes]
<1>1. blobs = <<FirstBlob, second>>
  BY DEF TwoBlobs
<1>2. blobs[2] = second /\ second.data = x
  BY <1>1
<1>3. [second EXCEPT !.data = @ \o bytes] = more
  <2> DEFINE z == x \o bytes
  <2>1. [second EXCEPT !.data = @ \o bytes] = [second EXCEPT !.data = z]
    BY <1>2
  <2> HIDE DEF z
  <2>2. [second EXCEPT !.data = z] = [start |-> start, data |-> z]
    OBVIOUS
  <2> QED BY <2>1, <2>2 DEF z
<1>4. [blobs EXCEPT ![currentBlob].data = @ \o bytes]
        = [blobs EXCEPT ![2] = [blobs[2] EXCEPT !.data = @ \o bytes]]
  OBVIOUS
<1> HIDE DEF second, more
<1>5. [blobs EXCEPT ![2] = [blobs[2] EXCEPT !.data = @ \o bytes]] = [<<FirstBlob, second>> EXCEPT ![2] = more]
  BY <1>1, <1>2, <1>3
<1>6. [<<FirstBlob, second>> EXCEPT ![2] = more] = <<FirstBlob, more>>
  BY SecondOfTwo
<1> QED
  BY <1>2, <1>4, <1>5, <1>6 DEF TwoBlobs, more

\* The bytes of an instruction are those that follow in the file
Follow(bytes, s, a, k) ==
  bytes \in Seq(Byte) /\ Len(bytes) = k /\ \A j \in 1 .. k : bytes[j] = s[a + j]

\* One more instruction of the file behind those that are there
LEMMA NextPiece ==
  ASSUME NEW s \in Seq(Byte), NEW a \in Nat, NEW k \in Nat, a + k <= Len(s),
         NEW bytes, Follow(bytes, s, a, k)
  PROVE  SubSeq(s, 1, a) \o bytes = SubSeq(s, 1, a + k)
<1> DEFINE x == SubSeq(s, 1, a)
           y == SubSeq(s, 1, a + k)
<1>1. Len(s) \in Nat /\ \A i \in 1 .. Len(s) : s[i] \in Byte
  BY LenProperties, ElementOfSeq
<1>2. bytes \in Seq(Byte) /\ Len(bytes) = k /\ \A j \in 1 .. k : bytes[j] = s[a + j]
  BY DEF Follow
<1>3. x \in Seq(Byte) /\ Len(x) = a /\ \A i \in 1 .. a : x[i] = s[i]
  <2>1. \A i \in 1 .. a : s[i] \in Byte
    BY <1>1
  <2>2. /\ x \in Seq(Byte) /\ Len(x) = IF 1 <= a THEN a - 1 + 1 ELSE 0
        /\ \A i \in 1 .. a - 1 + 1 : x[i] = s[1 + i - 1]
    BY <2>1, SubSeqProperties
  <2> HIDE DEF x
  <2> QED BY <2>2
<1>4. y \in Seq(Byte) /\ Len(y) = a + k /\ \A i \in 1 .. a + k : y[i] = s[i]
  <2>1. \A i \in 1 .. a + k : s[i] \in Byte
    BY <1>1
  <2>2. /\ y \in Seq(Byte) /\ Len(y) = IF 1 <= a + k THEN (a + k) - 1 + 1 ELSE 0
        /\ \A i \in 1 .. (a + k) - 1 + 1 : y[i] = s[1 + i - 1]
    BY <2>1, SubSeqProperties
  <2> HIDE DEF y
  <2> QED BY <2>2
<1> HIDE DEF x, y
<1>5. /\ x \o bytes \in Seq(Byte) /\ Len(x \o bytes) = a + k
      /\ \A i \in 1 .. a + k : (x \o bytes)[i] = IF i <= a THEN x[i] ELSE bytes[i - a]
  BY <1>3, <1>2, ConcatProperties
<1>6. \A i \in 1 .. a + k : (x \o bytes)[i] = y[i]
  <2> SUFFICES ASSUME NEW i \in 1 .. a + k PROVE (x \o bytes)[i] = y[i]
    OBVIOUS
  <2>1. CASE i <= a
    <3>1. i \in 1 .. a /\ (x \o bytes)[i] = x[i]
      BY <1>5, <2>1
    <3>2. x[i] = s[i] /\ y[i] = s[i]
      BY <1>3, <1>4, <3>1
    <3> QED BY <3>1, <3>2, Zenon
  <2>2. CASE ~ (i <= a)
    <3> DEFINE j == i - a
    <3>1. j \in 1 .. k /\ a + j = i /\ (x \o bytes)[i] = bytes[j] /\ y[i] = s[i]
      BY <1>4, <1>5, <2>2
    <3> HIDE DEF j
    <3>2. bytes[j] = s[a + j]
      BY <1>2, <3>1
    <3> QED BY <3>1, <3>2, Zenon
  <2> QED BY <2>1, <2>2
<1> DEFINE u == x \o bytes
<1> HIDE DEF u
<1>7. u \in Seq(Byte) /\ Len(u) = a + k /\ \A i \in 1 .. a + k : u[i] = y[i]
  BY <1>5, <1>6 DEF u
<1>8. u = y
  BY <1>4, <1>7, SeqEqual
<1> QED
  BY <1>8 DEF u, x, y

\* All labels are known when the second pass begins
LEMMA AllNamed ==
  ASSUME NEW m, Source(m), NamedTo(Len(source))
  PROVE  AllKnown(table)
<1>1. source = listing /\ Len(source) \in Nat
  BY LenProperties DEF Source
<1> QED
  BY <1>1 DEF NamedTo, Declared, AllKnown

\* A line has been assembled
LEMMA Filled ==
  ASSUME Inv, Collected, Lists, NEW m, Source(m), UNCHANGED disassemblerVars,
         pass = "emit", line <= Len(source), NEW bytes, Emit(bytes),
         SubSeq(data, 1, m[line]) \o bytes = SubSeq(data, 1, m[line + 1]),
         address' \in Word, errors' = 0, currentBlob' = 2
  PROVE  Assembling(m)'
<1>1. line \in Nat /\ 1 <= line /\ Len(source) \in Nat
  BY SourceIs
<1>2. /\ pass' = "emit" /\ line' = line + 1 /\ source' = source /\ table' = table
      /\ blobs' = [blobs EXCEPT ![currentBlob].data = @ \o bytes]
  BY DEF Emit
<1>3. /\ blobs = TwoBlobs(SubSeq(data, 1, m[line])) /\ currentBlob = 2
      /\ table \in Seq(Symbol) /\ Known(table) /\ NamedTo(Len(source))
  BY DEF Source, Assembling
<1>4. blobs' = TwoBlobs(SubSeq(data, 1, m[line + 1]))
  <2> DEFINE x == SubSeq(data, 1, m[line])
  <2> HIDE DEF x
  <2>1. [blobs EXCEPT ![currentBlob].data = @ \o bytes] = TwoBlobs(x \o bytes)
    BY <1>3, EmitInto DEF x
  <2> QED BY <1>2, <2>1 DEF x
<1>5. /\ Known(table)' /\ data' = data
      /\ TwoBlobs(SubSeq(data, 1, m[line]))' = TwoBlobs(SubSeq(data', 1, m[line']))
  BY <1>2, <1>3, FileOfStep
<1>6. blobs' = TwoBlobs(SubSeq(data, 1, m[line]))'
  BY <1>2, <1>4, <1>5
<1>7. NamedTo(Len(source))'
  BY <1>2, <1>3 DEF NamedTo
<1>8. line' \in 1 .. Len(source') + 1
  BY <1>1, <1>2
<1> QED
  BY <1>2, <1>3, <1>5, <1>6, <1>7, <1>8 DEF Assembling

\* The bytes of an instruction in the second pass: those of the file, and the blob has
\* room for them
LEMMA CodeIsFile ==
  ASSUME Inv, Collected, Lists, NEW m, Source(m), binary \in Binaries,
         pass = "emit", line <= Len(source), source[line].body.kind = "code"
  PROVE  LET bytes == LineBytes(table, body.op, body.operand, address)
         IN  /\ Len(bytes) \in Nat /\ Len(bytes) <= Room
             /\ ~ IsError(table, body.op, body.operand, address)
             /\ SubSeq(data, 1, m[line]) \o bytes = SubSeq(data, 1, m[line + 1])
<1> DEFINE op == source[line].body.op
           operand == source[line].body.operand
           bytes == LineBytes(table, op, operand, address)
           a == m[line]
           k == LengthOf[data[a + 1]]
<1>1. /\ op \in Mnemonic /\ operand \in Operand
      /\ a \in Instructions /\ m[line + 1] = After(a)
      /\ Printed(op, operand, a) \/ Symbolic(op, operand, a)
  BY LineIs
<1>2. /\ table \in Seq(Symbol) /\ Known(table) /\ NamedTo(Len(source)) /\ address \in Word
      /\ blobs = TwoBlobs(SubSeq(data, 1, a)) /\ currentBlob = 2
  BY DEF Source, Assembling
<1>3. AllKnown(table)
  BY <1>2, AllNamed
<1>4. /\ ~ IsError(table, op, operand, address) /\ Len(bytes) = k
      /\ \A j \in 1 .. k : bytes[j] = data[a + j]
  <2>1. IsAssembledTo(table, op, operand, address, a)
    <3> HIDE DEF a, op, operand
    <3> QED BY <1>1, <1>2, <1>3, SourceIs, CodeBytes
  <2> QED BY <2>1 DEF IsAssembledTo
<1>5. bytes \in Seq(Byte)
  BY <1>1, <1>2, LineBytesType
<1>6. /\ a \in Nat /\ k \in 1 .. 3 /\ After(a) = a + k /\ a + k <= Len(data)
      /\ data \in Seq(Byte) /\ Len(data) \in Nat
  BY <1>1, SourceIs, StartIs, InstructionAt DEF Instructions
<1>7. Len(data) <= BlobLimit
  BY SourceIs, RoundTripAssumption DEF Recoverable, Whole, data
<1> HIDE DEF k, bytes
<1>8. Follow(bytes, data, a, k)
  BY <1>4, <1>5 DEF Follow
<1>9. SubSeq(data, 1, a) \o bytes = SubSeq(data, 1, a + k)
  <2> HIDE DEF a
  <2>1. k \in Nat /\ a \in Nat /\ a + k <= Len(data) /\ data \in Seq(Byte)
    BY <1>6
  <2> QED BY <2>1, <1>8, NextPiece, Zenon
<1>10. k <= Room
  <2>1. blobs[currentBlob].data = SubSeq(data, 1, a)
    <3> HIDE DEF a
    <3> QED BY <1>2, EmitInto
  <2>2. Len(SubSeq(data, 1, a)) = a
    <3>1. \A i \in 1 .. a : data[i] \in Byte
      BY <1>6, ElementOfSeq
    <3>2. Len(SubSeq(data, 1, a)) = IF 1 <= a THEN a - 1 + 1 ELSE 0
      BY <1>6, <3>1, SubSeqProperties
    <3> HIDE DEF a
    <3> QED BY <1>6, <3>2
  <2>3. Room = BlobLimit - a
    BY <2>1, <2>2 DEF Room
  <2> HIDE DEF a
  <2> QED BY <1>6, <1>7, <2>3, AssemblerAssumption
<1>11. Len(bytes) \in Nat /\ Len(bytes) <= Room
  BY <1>4, <1>6, <1>10
<1>12. SubSeq(data, 1, m[line]) \o bytes = SubSeq(data, 1, m[line + 1])
  BY <1>1, <1>6, <1>9
<1>13. bytes = LineBytes(table, body.op, body.operand, address)
       /\ op = body.op /\ operand = body.operand
  BY DEF bytes, body
<1> HIDE DEF op, operand, a
<1> QED
  BY <1>4, <1>11, <1>12, <1>13, Zenon

\* The second pass puts out the file, instruction by instruction
LEMMA FillAssembles ==
  ASSUME Inv, Collected, Lists, NEW m, Source(m), binary \in Binaries,
         UNCHANGED disassemblerVars, Fill
  PROVE  Assembling(m)'
<1>1. /\ line \in Nat /\ 1 <= line /\ Len(source) \in Nat /\ line <= Len(source) + 1
      /\ Len(data) \in Nat /\ start \in Int /\ 256 <= start /\ data \in Seq(Byte)
      /\ m[line] \in Nat /\ m[line] <= Len(data) /\ m[Len(source) + 1] = Len(data)
  BY SourceIs
<1>2. errors = 0 /\ table \in Seq(Symbol) /\ Known(table) /\ address \in Word
  BY DEF Source, Assembling
<1>3. pass = "emit"
  BY DEF Fill, EmitOrg, EmitEnd, EmitData, EmitCode, EmitNothing, Overfill, WriteFlatFile, At
<1>4. blobs = TwoBlobs(SubSeq(data, 1, m[line])) /\ currentBlob = 2 /\ NamedTo(Len(source))
  BY <1>3 DEF Source, Assembling
<1>5. SubSeq(data, 1, m[line]) \in Seq(Byte)
  <2>1. \A i \in 1 .. m[line] : data[i] \in Byte
    BY <1>1, ElementOfSeq
  <2> QED BY <1>1, <2>1, SubSeqProperties
<1>6. SubSeq(data, 1, m[line]) \o <<>> = SubSeq(data, 1, m[line])
  BY <1>5, ConcatEmptySeq
<1>7. CASE EmitOrg
  <2>1. /\ line <= Len(source) /\ source[line].body.kind = "org"
        /\ Emit(<<>>) /\ currentBlob' = FirstBlobAt(source[line].body.start)
        /\ address' = address /\ errors' = errors
    BY <1>7 DEF EmitOrg, At, body
  <2>2. source[line].body.start = start /\ m[line + 1] = m[line]
    BY <2>1, LineIs
  <2>3. FirstBlobAt(start) = 2
    <3> DEFINE x == SubSeq(data, 1, m[line])
    <3> HIDE DEF x
    <3>1. DOMAIN blobs = {1, 2} /\ blobs[1].start = 0 /\ blobs[2].start = start
      BY <1>4 DEF TwoBlobs, FirstBlob, x
    <3>2. start # 0
      BY <1>1
    <3>3. \A b \in DOMAIN blobs :
            (blobs[b].start = start /\ \A c \in 1 .. b - 1 : blobs[c].start # start) <=> b = 2
      BY <3>1, <3>2
    <3> QED BY <3>1, <3>3 DEF FirstBlobAt
  <2> QED BY <1>2, <1>3, <1>6, <2>1, <2>2, <2>3, Filled
<1>8. CASE EmitNothing
  <2>1. /\ line <= Len(source) /\ source[line].body.kind \in {"blank", "variable"}
        /\ Emit(<<>>) /\ currentBlob' = currentBlob /\ address' = address /\ errors' = errors
    BY <1>8 DEF EmitNothing, At
  <2>2. m[line + 1] = m[line]
    BY <2>1, LineIs
  <2> QED BY <1>2, <1>3, <1>4, <1>6, <2>1, <2>2, Filled
<1>9. CASE EmitEnd \/ EmitData
  <2>1. /\ line <= Len(source) /\ source[line].body.kind \in {"end", "byte", "asciiz"}
    BY <1>9 DEF EmitEnd, EmitData, At
  <2> QED BY <2>1, LineIs
<1>10. CASE EmitCode
  <2> DEFINE bytes == LineBytes(table, body.op, body.operand, address)
  <2>1. /\ line <= Len(source) /\ source[line].body.kind = "code"
        /\ Emit(bytes) /\ currentBlob' = currentBlob
        /\ address' = (address + Len(bytes)) % WordCount
        /\ errors' = errors + Count(IsError(table, body.op, body.operand, address))
    BY <1>10 DEF EmitCode, At
  <2>2. /\ Len(bytes) \in Nat /\ ~ IsError(table, body.op, body.operand, address)
        /\ SubSeq(data, 1, m[line]) \o bytes = SubSeq(data, 1, m[line + 1])
    BY <1>3, <2>1, CodeIsFile
  <2>3. errors' = 0
    BY <1>2, <2>1, <2>2 DEF Count
  <2> HIDE DEF bytes
  <2>4. address' \in Word
    <3>1. address + Len(bytes) \in Int
      BY <1>2, <2>2, WordBounds
    <3> QED BY <2>1, <3>1, WordType
  <2> QED BY <1>3, <1>4, <2>1, <2>2, <2>3, <2>4, Filled
<1>11. CASE Overfill
  <2>1. line <= Len(source) /\ source[line].body.kind \in {"byte", "asciiz", "code"}
    BY <1>11 DEF Overfill, At
  <2>2. source[line].body.kind = "code"
    BY <2>1, LineIs
  <2> DEFINE bytes == LineBytes(table, body.op, body.operand, address)
  <2>3. Len(bytes) \in Nat /\ Len(bytes) <= Room
    BY <1>3, <2>1, <2>2, CodeIsFile
  <2>4. Len(bytes) > Room
    BY <1>11, <2>2 DEF Overfill, At
  <2>5. Room \in Int
    <3>1. blobs[currentBlob].data \in Seq(Byte)
      BY <1>4, <1>5, EmitInto
    <3>2. Len(blobs[currentBlob].data) \in Nat
      BY <3>1, LenProperties
    <3> QED BY <3>2, AssemblerAssumption DEF Room
  <2> HIDE DEF bytes
  <2> QED BY <2>3, <2>4, <2>5
<1>12. CASE WriteFlatFile
  <2>1. /\ line = Len(source) + 1 /\ pass' = "done"
        /\ output' = blobs[Len(blobs)].data
        /\ UNCHANGED <<source, line, address, table, errors>>
    BY <1>1, <1>12 DEF WriteFlatFile
  <2>2. SubSeq(data, 1, m[line]) = data
    BY <1>1, <2>1, SubSeqFull
  <2>3. output' = data
    <3> DEFINE x == SubSeq(data, 1, m[line])
               second == [start |-> start, data |-> x]
    <3> HIDE DEF x
    <3>1. blobs = <<FirstBlob, second>> /\ second.data = x
      BY <1>4 DEF TwoBlobs, x
    <3> HIDE DEF second
    <3>2. Len(blobs) = 2 /\ blobs[2] = second
      BY <3>1
    <3> QED BY <2>1, <2>2, <3>1, <3>2 DEF x
  <2>4. Known(table)' /\ data' = data
    BY <1>2, <2>1, FileOfStep
  <2>5. NamedTo(Len(source))'
    BY <1>4, <2>1 DEF NamedTo
  <2> QED BY <1>1, <1>2, <2>1, <2>3, <2>4, <2>5 DEF Assembling
<1> QED
  BY <1>7, <1>8, <1>9, <1>10, <1>11, <1>12 DEF Fill

-----------------------------------------------------------------------------
(* The two programs *)

Together ==
  /\ Inv /\ Collected /\ binary \in Binaries
  /\ Lists /\ Waits /\ Assembled

\* The invariant holds before either program has run
LEMMA InitTogether == ASSUME RoundTripInit PROVE Together
<1>1. Inv /\ Collected /\ Lists
  BY InitInv, InitCollects, InitLists DEF RoundTripInit
<1>2. binary \in Binaries
  BY DEF RoundTripInit, DisassemblerInit
<1>3. Waits /\ Assembled
  BY DEF RoundTripInit, Waits, Assembled, FirstBlob
<1> QED
  BY <1>1, <1>2, <1>3 DEF Together

\* A step of the disassembler: the assembler waits for its end
LEMMA DisassembleTogether == ASSUME Together, Disassemble PROVE Together'
<1>1. DisassemblerNext /\ UNCHANGED assemblerVars
  BY DEF Disassemble
<1>2. Inv'
  BY <1>1, DeriveStep, TruncateStep, PrintStep, RestStep DEF Together, DisassemblerNext
<1>3. Collected'
  BY <1>1, DeriveCollects, TruncateCollects, PrintCollects DEF Together, DisassemblerNext
<1>4. Lists'
  BY <1>1, <1>2, ListsStep DEF Together
<1>5. phase # "done" /\ binary' = binary
  BY <1>1 DEF DisassemblerNext, Derive, DeriveLabel, DeriveNone, EndDerive, Truncate,
              TruncateSymbol, EndTruncate, PrintBlob, PrintCharacter, LeaveString, EnterString,
              PrintInstruction, EndPrint, Rest, PrintRest, EndRest, AtByte
<1>6. pass = "waiting"
  BY <1>5 DEF Together, Assembled
<1>7. Waits' /\ Assembled'
  BY <1>1, <1>6 DEF Together, Waits, Assembled, assemblerVars, vars
<1> QED
  BY <1>2, <1>3, <1>4, <1>5, <1>7 DEF Together

\* What is said of the disassembler alone stays while the assembler runs
LEMMA DisassemblerRests ==
  ASSUME Together, UNCHANGED disassemblerVars
  PROVE  Inv' /\ Collected' /\ binary' \in Binaries /\ Lists' /\ (Recoverable' <=> Recoverable)
<1>1. UNCHANGED <<binary, phase, offset, symbols, currentLabel, this, high, low, insideOfString,
                  highestOffset, listing>>
  BY DEF disassemblerVars
<1>2. Inv'
  BY <1>1 DEF Together, Inv, DisassemblerTypeOK, NumbersAreUsed, LabelsAreDistinct
<1> QED
  BY <1>1, <1>2, StutterCollects, StutterLists, LabelsStay DEF Together

\* It is enough that the listing stands for the file after a step as it did before
LEMMA AssembledNext ==
  ASSUME UNCHANGED disassemblerVars, phase = "done", source' = listing,
         Recoverable => \E m \in Places(source') : Layout(source', m, Len(data)) /\ Assembling(m)'
  PROVE  Assembled'
<1>1. listing' = listing /\ phase' = phase /\ data' = data /\ binary' = binary /\ symbols' = symbols
  BY FileOfStep
<1> SUFFICES ASSUME Recoverable
             PROVE  (\E m \in Places(source) : Layout(source, m, Len(data)) /\ Assembling(m))'
  BY <1>1, LabelsStay DEF Assembled
<1>2. PICK m \in Places(source') : Layout(source', m, Len(data)) /\ Assembling(m)'
  OBVIOUS
<1>3. Layout(source, m, Len(data))'
  BY <1>1, <1>2, LabelsStay
<1>4. Places(source)' = Places(source')
  BY DEF Places
<1> QED
  BY <1>2, <1>3, <1>4

\* When the assembler starts, its source is the listing of the whole file
LEMMA StartTogether == ASSUME Together, Start PROVE Together'
<1>1. /\ UNCHANGED disassemblerVars /\ phase = "done" /\ pass = "waiting"
      /\ source' = listing /\ pass' = "measure"
      /\ UNCHANGED <<line, address, currentBlob, blobs, table, errors>>
  BY DEF Start
<1>2. /\ Inv' /\ Collected' /\ binary' \in Binaries /\ Lists' /\ (Recoverable' <=> Recoverable)
  BY <1>1, DisassemblerRests
<1>3. listing' = listing /\ phase' = phase /\ data' = data /\ binary' = binary /\ symbols' = symbols
  BY <1>1, FileOfStep
<1>4. ASSUME Recoverable
      PROVE  \E m \in Places(source') : Layout(source', m, Len(data)) /\ Assembling(m)'
  <2>1. ListedTo(listing, Len(data)) /\ listing \in Seq(Row)
    BY <1>1, <1>4 DEF Together, Lists, ListingStands, Inv, DisassemblerTypeOK, Row
  <2>2. PICK m \in Places(listing) : Layout(listing, m, Len(data))
    BY <2>1 DEF ListedTo, HasLayout
  <2>3. /\ line = 1 /\ address = 0 /\ errors = 0 /\ table = <<>>
        /\ blobs = <<FirstBlob>> /\ currentBlob = 1
    BY <1>1 DEF Together, Waits
  <2>4. 1 \in 1 .. Len(source') + 1
    BY <1>1, <2>1, LenProperties
  <2>5. 0 \in Word
    BY WordBounds, Words
  <2>6. <<>> \in Seq(Symbol) /\ Known(<<>>)
    BY EmptySeq DEF Known
  <2>7. Known(table)' /\ table' \in Seq(Symbol)
    BY <1>1, <2>3, <2>6, FileOfStep
  <2>8. NamedTo(line - 1)'
    BY <1>1, <2>3 DEF NamedTo
  <2>9. Assembling(m)'
    BY <1>1, <2>3, <2>4, <2>5, <2>7, <2>8 DEF Assembling
  <2> QED BY <1>1, <2>2, <2>9
<1>5. Assembled'
  BY <1>1, <1>4, AssembledNext
<1> QED
  BY <1>1, <1>2, <1>5 DEF Together, Waits

\* Every step of the assembler keeps the invariant, on a recoverable file or not
LEMMA AssembleTogether == ASSUME Together, Assemble PROVE Together'
<1>1. Next /\ UNCHANGED disassemblerVars
  BY DEF Assemble
<1>2. /\ Inv' /\ Collected' /\ binary' \in Binaries /\ Lists' /\ (Recoverable' <=> Recoverable)
  BY <1>1, DisassemblerRests
<1>3. listing' = listing /\ phase' = phase /\ data' = data /\ binary' = binary /\ symbols' = symbols
  BY <1>1, FileOfStep
<1>4. pass \in {"measure", "emit"} /\ source' = source /\ pass' # "waiting"
  BY <1>1 DEF Next, Measure, MeasureOrg, MeasureVariable, MeasureCode, MeasureOther, MeasureLine,
              Rewind, Fill, EmitOrg, EmitEnd, EmitData, EmitCode, EmitNothing, Emit, Overfill,
              WriteFlatFile, At
<1>5. phase = "done" /\ source = listing
  BY <1>4 DEF Together, Assembled
<1>6. ASSUME Recoverable
      PROVE  \E m \in Places(source') : Layout(source', m, Len(data)) /\ Assembling(m)'
  <2>1. PICK m \in Places(source) : Layout(source, m, Len(data)) /\ Assembling(m)
    BY <1>4, <1>6 DEF Together, Assembled
  <2>2. Source(m)
    BY <1>5, <1>6, <2>1 DEF Source
  <2>3. Assembling(m)'
    BY <1>1, <2>2, MeasureAssembles, FillAssembles DEF Together, Next
  <2> QED BY <1>4, <2>1, <2>3
<1>7. Assembled'
  BY <1>1, <1>4, <1>5, <1>6, AssembledNext
<1> QED
  BY <1>2, <1>4, <1>7 DEF Together, Waits

\* The invariant is about these variables
LEMMA StutterTogether == ASSUME Together, UNCHANGED allVars PROVE Together'
<1>1. UNCHANGED disassemblerVars
      /\ UNCHANGED <<source, pass, line, address, currentBlob, blobs, table, errors, output>>
  BY DEF allVars, assemblerVars, vars
<1>2. /\ Inv' /\ Collected' /\ binary' \in Binaries /\ Lists' /\ (Recoverable' <=> Recoverable)
  BY <1>1, DisassemblerRests
<1>3. listing' = listing /\ phase' = phase /\ data' = data /\ binary' = binary /\ symbols' = symbols
      /\ (\A t : Known(t)' <=> Known(t)) /\ (\A bytes : TwoBlobs(bytes)' = TwoBlobs(bytes))
  BY <1>1, FileOfStep
<1>4. ASSUME NEW m, Assembling(m) PROVE Assembling(m)'
  <2>1. (Known(table)' <=> Known(table)) /\ TwoBlobs(<<>>)' = TwoBlobs(<<>>)
    BY <1>1, <1>3
  <2>2. TwoBlobs(SubSeq(data, 1, m[line]))' = TwoBlobs(SubSeq(data, 1, m[line]))
    <3> DEFINE x == SubSeq(data, 1, m[line])
    <3>1. x' = x
      BY <1>1, <1>3
    <3>2. TwoBlobs(x)' = TwoBlobs(x')
      BY <1>3
    <3> QED BY <1>3, <3>1, <3>2
  <2>3. \A n : NamedTo(n)' <=> NamedTo(n)
    BY <1>1 DEF NamedTo
  <2>4. (NamedTo(line - 1)' <=> NamedTo(line - 1)) /\ (NamedTo(Len(source))' <=> NamedTo(Len(source)))
    BY <1>1, <2>3
  <2> QED BY <1>1, <1>3, <1>4, <2>1, <2>2, <2>4 DEF Assembling
<1>5. ASSUME pass # "waiting", Recoverable
      PROVE  \E m \in Places(source') : Layout(source', m, Len(data)) /\ Assembling(m)'
  BY <1>1, <1>4, <1>5 DEF Together, Assembled
<1>6. Assembled'
  <2>1. CASE pass = "waiting"
    BY <1>1, <2>1 DEF Assembled
  <2>2. CASE pass # "waiting"
    <3>1. phase = "done" /\ source' = listing
      BY <1>1, <2>2 DEF Together, Assembled
    <3> QED BY <1>1, <1>5, <2>2, <3>1, AssembledNext
  <2> QED BY <2>1, <2>2
<1> QED
  BY <1>1, <1>2, <1>6 DEF Together, Waits

\* The invariant of the composition
LEMMA StaysTogether == RoundTripSpec => []Together
<1>1. RoundTripInit => Together
  BY InitTogether
<1>2. Together /\ [RoundTripNext]_allVars => Together'
  BY DisassembleTogether, StartTogether, AssembleTogether, StutterTogether DEF RoundTripNext
<1> QED
  BY <1>1, <1>2, PTL DEF RoundTripSpec

\* Of every file that can be told from its listing, whatever its length, its instructions
\* and its labels, the assembler makes the file again, byte by byte and without an error
\* (dis6502/main.c 91-165, reverse.c, as6502/main.c 98-280).
THEOREM RoundTripMakesTheFile == RoundTripSpec => []RoundTripIsExact
<1>1. ASSUME Together PROVE RoundTripIsExact
  <2> SUFFICES ASSUME phase \in {"rest", "done", "undefined"}, Recoverable
               PROVE  /\ phase # "undefined" /\ pass # "fatal"
                      /\ phase = "done" => IsSource
                      /\ pass = "done" => output = data /\ errors = 0
    BY DEF RoundTripIsExact
  <2>1. phase # "undefined"
    BY <1>1 DEF Together, Lists, NoLabels, Recoverable
  <2>2. pass \in {"measure", "emit", "done", "waiting"} /\ (pass = "done" => output = data /\ errors = 0)
    BY <1>1 DEF Together, Assembled, Assembling
  <2>3. ASSUME phase = "done" PROVE IsSource
    <3>1. ListedTo(listing, Len(data)) /\ listing \in Seq(Row) /\ symbols \in Seq(Symbol)
      BY <1>1, <2>3 DEF Together, Lists, ListingStands, Inv, DisassemblerTypeOK, Row
    <3>2. PICK m \in Places(listing) : Layout(listing, m, Len(data))
      BY <3>1 DEF ListedTo, HasLayout
    <3>3. \A i \in 1 .. Len(listing) : listing[i].body.kind \in {"org", "blank", "code"}
      BY <3>1, <3>2, RowIs
    <3>4. DOMAIN listing = 1 .. Len(listing)
      BY <3>1, LenProperties
    <3> QED BY <3>3, <3>4 DEF IsSource
  <2> QED BY <2>1, <2>2, <2>3
<1> QED
  BY <1>1, StaysTogether, PTL

\* While the assembler reads the listing, and before, the labels are what they are when
\* the disassembler runs alone: one to one with their addresses, and exactly those of the
\* targets in the file (dis6502/main.c 51-168, tests/Makefile 54-55).
THEOREM LabelsStayForTheAssembler ==
  RoundTripSpec => [](DisassemblerTypeOK /\ LabelsAreDistinct /\ LabelsAreTargets)
<1>1. Together => DisassemblerTypeOK /\ LabelsAreDistinct /\ LabelsAreTargets
  BY LabelsLeft DEF Together, Inv
<1> QED
  BY <1>1, StaysTogether, PTL

=============================================================================
