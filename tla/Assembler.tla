------------------------------ MODULE Assembler ------------------------------
(***************************************************************************)
(* The two passes of as6502/main.c over one source file, a line at a time. *)
(* The first declares symbols, counts the lengths of instructions and      *)
(* makes the blobs; the second puts bytes into them. A line is a label, or *)
(* none, and a body. blobs[currentBlob] is the blob that is being filled;  *)
(* the first of the sequence is the one made before any line is read.      *)
(***************************************************************************)
EXTENDS SourceLines

CONSTANTS
  Sources,   \* the source files, sequences of lines
  BlobLimit  \* UINT16_MAX, the length at which a blob is full

ASSUME AssemblerAssumption ==
  /\ Sources \subseteq Seq(Lines)
  /\ NoName \notin Name
  /\ BlobLimit \in Nat

VARIABLES
  source,       \* the lines of the file
  pass,         \* measure, emit, then done; or fatal
  line,         \* currentLineNum, of the line that is read next
  address,      \* the bytes counted in this pass, a uint16_t
  currentBlob,  \* the index of the blob in use
  blobs,        \* obj->blobs
  table,        \* obj->table
  errors,       \* currentErrorCount
  output,       \* what is in the flat file
  placed        \* history: the blob and offset at which the second pass met it, and
                \* the bytes it put there

vars == <<source, pass, line, address, currentBlob, blobs, table, errors, output, placed>>

Blob == [start : Word, data : Seq(Byte)]

Init ==
  /\ source \in Sources
  /\ pass = "measure"
  /\ line = 1
  /\ address = 0
  /\ currentBlob = 1
  /\ blobs = <<[start |-> 0, data |-> <<>>]>>
  /\ table = <<>>
  /\ errors = 0
  /\ output = <<>>
  /\ placed = <<>>

-----------------------------------------------------------------------------
(* The first pass *)

\* The loop is at a line with a body of one of the kinds
At(p, kinds) ==
  /\ pass = p /\ line <= Len(source)
  /\ source[line].body.kind \in kinds

body == source[line].body
Count(condition) == IF condition THEN 1 ELSE 0

NewSymbol(name, n, type) == [name |-> name, address |-> n, type |-> type, line |-> line]

\* Mutant: a label is given its offset in the blob
WithoutOrigin == NewSymbol(source[line].label, address, "label")

\* Mutant: the sum is kept as an int
Unwrapped ==
  NewSymbol(source[line].label, address + blobs[currentBlob].start, "label")

LabelHere ==
  NewSymbol(source[line].label, (address + blobs[currentBlob].start) % WordCount, "label")

HasLabel == source[line].label # NoName
Labelled == IF HasLabel THEN AddSymbol(table, LabelHere) ELSE table
LabelErrors == Count(HasLabel /\ Conflicts(table, LabelHere))

\* What the iteration does for a line of any kind: the label first
MeasureLine ==
  /\ line' = line + 1
  /\ UNCHANGED <<source, pass, output, placed>>

MeasureOrg ==
  /\ At("measure", {"org"})
  /\ MeasureLine
  /\ table' = Labelled /\ errors' = errors + LabelErrors
  /\ blobs' = Append(blobs, [start |-> body.start, data |-> <<>>])
  /\ currentBlob' = currentBlob + 1
  /\ address' = 0

MeasureVariable ==
  /\ At("measure", {"variable"})
  /\ MeasureLine
  /\ LET variable == NewSymbol(body.name, ValueOf(body.value), "variable") IN
     /\ table' = AddSymbol(Labelled, variable)
     /\ errors' = errors + LabelErrors + Count(Conflicts(Labelled, variable))
  /\ UNCHANGED <<address, currentBlob, blobs>>

MeasureCode ==
  /\ At("measure", {"code"})
  /\ MeasureLine
  /\ table' = Labelled /\ errors' = errors + LabelErrors
  /\ address' = (address + LineLength(Labelled, body.op, body.operand, address)) % WordCount
  /\ UNCHANGED <<currentBlob, blobs>>

\* The other directives wait for the second pass
MeasureOther ==
  /\ At("measure", {"blank", "end", "byte", "asciiz"})
  /\ MeasureLine
  /\ table' = Labelled /\ errors' = errors + LabelErrors
  /\ UNCHANGED <<address, currentBlob, blobs>>

\* The blob in use stays the last one
Rewind ==
  /\ pass = "measure" /\ line > Len(source)
  /\ pass' = "emit"
  /\ line' = 1
  /\ address' = 0
  /\ UNCHANGED <<source, currentBlob, blobs, table, errors, output, placed>>

-----------------------------------------------------------------------------
(* The second pass *)

Room == BlobLimit - Len(blobs[currentBlob].data)

\* What a line with a body of any kind does: it puts its bytes into the blob in use
Emit(bytes) ==
  /\ Len(bytes) <= Room
  /\ line' = line + 1
  /\ blobs' = [blobs EXCEPT ![currentBlob].data = @ \o bytes]
  /\ placed' = Append(placed, [blob |-> currentBlob, offset |-> Len(blobs[currentBlob].data),
                               bytes |-> bytes])
  /\ UNCHANGED <<source, pass, table, output>>

\* The blob the first pass made, or the first of several that start there
FirstBlobAt(start) ==
  CHOOSE b \in DOMAIN blobs :
    blobs[b].start = start /\ \A c \in 1 .. b - 1 : blobs[c].start # start

EmitOrg ==
  /\ At("emit", {"org"})
  /\ Emit(<<>>)
  /\ currentBlob' = FirstBlobAt(body.start)
  /\ UNCHANGED <<address, errors>>

EmitEnd ==
  /\ At("emit", {"end"})
  /\ Emit(<<>>)
  /\ currentBlob' = 1
  /\ UNCHANGED <<address, errors>>

\* as6502_byteValuesForString: names are not looked up
DataOf(b) ==
  IF b.kind = "asciiz" THEN Append(b.text, 0)
  ELSE LET n == ValueOf(b.value)
       IN  IF IsWide(b.value) THEN <<n % 256, n \div 256>> ELSE <<n % 256>>

EmitData ==
  /\ At("emit", {"byte", "asciiz"})
  /\ Emit(DataOf(body))
  /\ UNCHANGED <<address, currentBlob, errors>>

EmitCode ==
  /\ At("emit", {"code"})
  /\ LET bytes == LineBytes(table, body.op, body.operand, address) IN
     /\ Emit(bytes)
     /\ address' = (address + Len(bytes)) % WordCount
     /\ errors' = errors + Count(IsError(table, body.op, body.operand, address))
  /\ UNCHANGED currentBlob

EmitNothing ==
  /\ At("emit", {"blank", "variable"})
  /\ Emit(<<>>)
  /\ UNCHANGED <<address, currentBlob, errors>>

\* ld6502_appendByteToBlob ends the process at a full blob; no file is written
Overfill ==
  /\ \/ At("emit", {"byte", "asciiz"}) /\ Len(DataOf(body)) > Room
     \/ At("emit", {"code"}) /\ Len(LineBytes(table, body.op, body.operand, address)) > Room
  /\ pass' = "fatal"
  /\ UNCHANGED <<source, line, address, currentBlob, blobs, table, errors, output, placed>>

\* ld6502_writeObjectToFlatFile: the last blob alone
WriteFlatFile ==
  /\ pass = "emit" /\ line > Len(source)
  /\ pass' = "done"
  /\ output' = blobs[Len(blobs)].data
  /\ UNCHANGED <<source, line, address, currentBlob, blobs, table, errors, placed>>

-----------------------------------------------------------------------------

Measure == MeasureOrg \/ MeasureVariable \/ MeasureCode \/ MeasureOther \/ Rewind

Fill == EmitOrg \/ EmitEnd \/ EmitData \/ EmitCode \/ EmitNothing \/ Overfill \/ WriteFlatFile

Next == Measure \/ Fill

Spec == Init /\ [][Next]_vars

-----------------------------------------------------------------------------
(* Properties *)

\* Every variable keeps its type: addresses stay words though they are summed as
\* ints, and the blob in use exists (assembleFile, main.c 98-280).
TypeOK ==
  /\ source \in Sources
  /\ pass \in {"measure", "emit", "done", "fatal"}
  /\ line \in Nat \ {0}
  /\ address \in Word
  /\ blobs \in Seq(Blob)
  /\ currentBlob \in DOMAIN blobs
  /\ table \in Seq(Symbol)
  /\ errors \in Nat
  /\ output \in Seq(Byte)
  /\ placed \in Seq([blob : Nat, offset : Nat, bytes : Seq(Byte)])

\* The table keeps the order as6502_addSymbolToTable promises, longer names first, and
\* no name is ever given two addresses, whatever declares it and in whichever order
\* (symbols.c 154-190).
TableIsConsistent == Ordered(table) /\ OneAddress(table)

\* The script that is written for a table makes the debugger's table the same, as
\* symbols.h:84 promises: same symbols, same addresses, and the same order, by which
\* look-ups find one of those that share a name or an address. Lines alone are lost
\* (symbols.c 63-80 and 154-190, v6502/debugger.c 127-139).
ScriptLoadsTable ==
  pass = "done" =>
    Loaded(SymbolScript(table)) = [i \in DOMAIN table |-> [table[i] EXCEPT !.line = 0]]

-----------------------------------------------------------------------------
(* The sources whose two passes meet *)

Kind(i) == source[i].body.kind
IsPlaced(i) == source[i].label # NoName \/ Kind(i) \in {"code", "byte", "asciiz"}

\* Everything stands behind an .org; the sections are distinct, lie beyond the zero
\* page, and have room for what is in the file
Sectioned ==
  /\ \A i \in DOMAIN source : IsPlaced(i) => \E j \in 1 .. i - 1 : Kind(j) = "org"
  /\ \A i \in DOMAIN source : Kind(i) = "org" =>
        /\ source[i].body.start \in 256 .. 65535 - 3 * Len(source)
        /\ \A j \in 1 .. i - 1 : Kind(j) = "org" => source[j].body.start # source[i].body.start

\* The first pass counts neither data nor .end: only an .org may set it right
DataLast ==
  \A i, j \in DOMAIN source :
    /\ i < j
    /\ Kind(i) \in {"byte", "asciiz", "end"}
    /\ source[j].label # NoName \/ Kind(j) = "code"
    => \E k \in i + 1 .. j - 1 : Kind(k) = "org"

NamesAt(i) == {source[i].body.operand.terms[t].name :
                 t \in {u \in DOMAIN source[i].body.operand.terms :
                          ~ IsValue(source[i].body.operand.terms[u])}}

IsSum(i) == source[i].body.operand.operator # ""

IsVariableAt(i, name) == Kind(i) = "variable" /\ source[i].body.name = name
Declares(i, name) == source[i].label = name \/ IsVariableAt(i, name)

\* The length of an instruction depends on a name only if it is a variable or a term
\* of a sum: those are declared above it. That of a branch to a sum depends on its
\* offset too, from which the two passes count differently behind a second .org
DeclaredFirst ==
  \A i \in DOMAIN source : Kind(i) = "code" =>
    \A name \in NamesAt(i) :
      /\ source[i].body.op \in Branches => ~ IsSum(i)
      /\ \/ \E j \in 1 .. i : Declares(j, name)
         \/ ~ IsSum(i) /\ \A j \in DOMAIN source : ~ IsVariableAt(j, name)
         \/ \A j \in DOMAIN source : ~ Declares(j, name)

Disciplined == Sectioned /\ DataLast /\ DeclaredFirst

\* The address at which the second pass put a line
Home(l) == blobs[placed[l].blob].start + placed[l].offset

LabelIsHome(symbol) ==
  symbol.type = "label" /\ symbol.line \in DOMAIN placed => symbol.address = Home(symbol.line)

\* What a label stands for is where its line is put: the lengths that the first pass
\* counts, names unknown, are those that the second emits, names known, in any number
\* of sections (main.c 122-185 against main.c 205-260).
LabelsNameTheirCode ==
  Disciplined => \A i \in DOMAIN table : LabelIsHome(table[i])

\* The same without the discipline, as docs/NOTES.dox:234 has it of the first pass:
\* "Reference calculation; conversion of variable names and labels to addresses".
EveryLabelNamesItsCode ==
  errors = 0 => \A i \in DOMAIN table : LabelIsHome(table[i])

-----------------------------------------------------------------------------

\* Branches count from the sum of all that was emitted, without any origin
OnePage ==
  \E i \in DOMAIN source :
    /\ Kind(i) = "org" /\ source[i].body.start % 256 = 0
    /\ \A j \in DOMAIN source : Kind(j) = "org" => j = i

NamesOnly(l) == Kind(l) = "code" /\ ~ IsSum(l) /\ NamesAt(l) # {}

\* A branch taken, or the operand of any other instruction, leads to the low byte of
\* what its name stands for; a wide operand to all of it
Reaches(l) ==
  LET target == AddressOf(table, source[l].body.operand.terms[1].name)
      bytes  == placed[l].bytes
  IN  /\ source[l].body.op \in Branches =>
           (Home(l) + Len(bytes) + bytes[2]) % 256 = target % 256
      /\ source[l].body.op \notin Branches => bytes[2] = target % 256
      /\ Len(bytes) = 3 => bytes[3] = target \div 256

\* Names in operands are replaced by what leads to them, from wherever the line is put,
\* whether they are declared above or below it (symbols.c 281-349 with main.c 50-96).
ReferencesReachTheirNames ==
  Disciplined /\ OnePage /\ errors = 0 =>
    \A l \in DOMAIN placed :
      NamesOnly(l) /\ IsNamed(table, source[l].body.operand.terms[1].name) => Reaches(l)

=============================================================================
