-------------------------- MODULE AssemblerProofs --------------------------
(***************************************************************************)
(* Theorems about the assembler, for every set of names, every set of      *)
(* source files and every limit on blobs.                                  *)
(***************************************************************************)
EXTENDS Assembler, SourceLinesProofs

-----------------------------------------------------------------------------
(* Types *)

\* The second pass looks for the blob of every .org: the first one made it
OrgsHaveBlobs ==
  \A i \in DOMAIN source :
    Kind(i) = "org" /\ (i < line \/ pass # "measure") =>
      \E b \in DOMAIN blobs : blobs[b].start = source[i].body.start

Inv == TypeOK /\ OrgsHaveBlobs

\* The line that is read next
LEMMA LineType ==
  ASSUME TypeOK, line <= Len(source)
  PROVE  /\ line \in DOMAIN source /\ line \in Nat
         /\ body \in Body
         /\ HasLabel => source[line].label \in Name
<1>1. source \in Seq(Lines) /\ line \in Nat \ {0}
  BY AssemblerAssumption DEF TypeOK
<1>2. line \in DOMAIN source
  <2>1. Len(source) \in Nat /\ DOMAIN source = 1 .. Len(source)
    BY <1>1, LenProperties
  <2> QED BY <1>1, <2>1
<1>3. source[line] \in Lines
  BY <1>1, <1>2
<1> QED
  BY <1>1, <1>2, <1>3 DEF Lines, body, HasLabel

\* The blob in use
LEMMA BlobType ==
  ASSUME TypeOK
  PROVE  /\ blobs \in Seq(Blob) /\ Len(blobs) \in Nat /\ DOMAIN blobs = 1 .. Len(blobs)
         /\ currentBlob \in 1 .. Len(blobs)
         /\ blobs[currentBlob].start \in Word /\ blobs[currentBlob].data \in Seq(Byte)
<1>1. blobs \in Seq(Blob) /\ currentBlob \in DOMAIN blobs
  BY DEF TypeOK
<1>2. Len(blobs) \in Nat /\ DOMAIN blobs = 1 .. Len(blobs)
  BY <1>1, LenProperties
<1>3. blobs[currentBlob] \in Blob
  BY <1>1, <1>2, ElementOfSeq
<1> QED
  BY <1>1, <1>2, <1>3 DEF Blob

LEMMA CountType == ASSUME NEW condition PROVE Count(condition) \in Nat
BY DEF Count

\* A line declares its label
LEMMA LabelledType ==
  ASSUME TypeOK, line <= Len(source)
  PROVE  /\ HasLabel => LabelHere \in Symbol
         /\ Labelled \in Seq(Symbol) /\ LabelErrors \in Nat
<1>1. table \in Seq(Symbol) /\ address \in Word /\ line \in Nat
  BY DEF TypeOK
<1>2. (address + blobs[currentBlob].start) % WordCount \in Word
  <2> DEFINE start == blobs[currentBlob].start
  <2>1. start \in Word
    BY BlobType
  <2> HIDE DEF start
  <2>2. address + start \in Int
    BY <1>1, <2>1, WordBounds
  <2>3. (address + start) % WordCount \in Word
    BY <2>2, WordType
  <2> QED BY <2>3 DEF start
<1> DEFINE n == (address + blobs[currentBlob].start) % WordCount
<1> HIDE DEF n
<1>3. HasLabel => LabelHere \in Symbol
  <2>1. n \in Word
    BY <1>2 DEF n
  <2>2. HasLabel => [name |-> source[line].label, address |-> n, type |-> "label",
                     line |-> line] \in Symbol
    BY <1>1, <2>1, LineType DEF Symbol, SymbolType
  <2> QED BY <2>2 DEF LabelHere, NewSymbol, n
<1>4. Labelled \in Seq(Symbol)
  BY <1>1, <1>3, AddType DEF Labelled
<1> QED
  BY <1>3, <1>4, CountType DEF LabelErrors

LEMMA VariableType ==
  ASSUME TypeOK, line <= Len(source), body.kind = "variable"
  PROVE  NewSymbol(body.name, ValueOf(body.value), "variable") \in Symbol
<1>1. body.name \in Name /\ ValueOf(body.value) \in Word /\ line \in Nat
  BY LineType, BodyType, TokenType
<1> QED
  BY <1>1 DEF NewSymbol, Symbol, SymbolType

LEMMA DataOfType ==
  ASSUME NEW b \in Body, b.kind \in {"byte", "asciiz"} PROVE DataOf(b) \in Seq(Byte)
<1>1. CASE b.kind = "asciiz"
  <2>1. b.text \in Seq(Byte) /\ 0 \in Byte
    BY <1>1, BodyType, ByteBounds
  <2>2. Append(b.text, 0) \in Seq(Byte)
    BY <2>1
  <2> QED BY <1>1, <2>2 DEF DataOf
<1>2. CASE b.kind # "asciiz"
  <2> DEFINE n == ValueOf(b.value)
  <2>1. n \in Word
    BY <1>2, BodyType, TokenType
  <2>2. n % 256 \in Byte /\ n \div 256 \in Byte
    BY <2>1, WordOfBytes
  <2> HIDE DEF n
  <2>3. <<n % 256, n \div 256>> \in Seq(Byte) /\ <<n % 256>> \in Seq(Byte)
    BY <2>2
  <2> QED BY <1>2, <2>3 DEF DataOf, n
<1> QED
  BY <1>1, <1>2

\* What an instruction of the line becomes
LEMMA CodeType ==
  ASSUME TypeOK, line <= Len(source), body.kind = "code", NEW t \in Seq(Symbol)
  PROVE  /\ LineLength(t, body.op, body.operand, address) \in 1 .. 3
         /\ LineBytes(t, body.op, body.operand, address) \in Seq(Byte)
         /\ (address + LineLength(t, body.op, body.operand, address)) % WordCount \in Word
         /\ (address + Len(LineBytes(t, body.op, body.operand, address))) % WordCount \in Word
<1>1. body.operand \in Operand /\ address \in Word
  BY LineType, BodyType DEF TypeOK
<1> DEFINE n == LineLength(t, body.op, body.operand, address)
           bytes == LineBytes(t, body.op, body.operand, address)
<1>2. n \in 1 .. 3 /\ bytes \in Seq(Byte) /\ Len(bytes) = n
  BY <1>1, EncodedType, LineBytesType
<1> HIDE DEF n, bytes
<1>3. (address + n) % WordCount \in Word
  BY <1>1, <1>2, WordBounds, WordType
<1> QED
  BY <1>2, <1>3 DEF n, bytes

LEMMA NewBlobType ==
  ASSUME TypeOK, NEW start \in Word
  PROVE  LET new == Append(blobs, [start |-> start, data |-> <<>>])
         IN  /\ new \in Seq(Blob) /\ DOMAIN new = 1 .. Len(blobs) + 1
             /\ \A b \in DOMAIN blobs : b \in DOMAIN new /\ new[b] = blobs[b]
             /\ new[Len(blobs) + 1].start = start
<1> DEFINE blob == [start |-> start, data |-> <<>>]
<1>1. blob \in Blob /\ blob.start = start
  BY DEF Blob
<1> HIDE DEF blob
<1>2. /\ Append(blobs, blob) \in Seq(Blob)
      /\ Len(Append(blobs, blob)) = Len(blobs) + 1
      /\ \A b \in 1 .. Len(blobs) : Append(blobs, blob)[b] = blobs[b]
      /\ Append(blobs, blob)[Len(blobs) + 1] = blob
  BY <1>1, BlobType, AppendProperties
<1>3. DOMAIN Append(blobs, blob) = 1 .. Len(blobs) + 1
  BY <1>2, BlobType, LenProperties
<1> QED
  BY <1>1, <1>2, <1>3, BlobType DEF blob

\* A blob that grows stays where it starts
LEMMA FilledType ==
  ASSUME TypeOK, NEW bytes \in Seq(Byte)
  PROVE  LET new == [blobs EXCEPT ![currentBlob].data = @ \o bytes]
         IN  /\ new \in Seq(Blob) /\ DOMAIN new = DOMAIN blobs
             /\ \A b \in DOMAIN blobs : new[b].start = blobs[b].start
<1> DEFINE blob == [blobs[currentBlob] EXCEPT !.data = @ \o bytes]
           new  == [blobs EXCEPT ![currentBlob] = blob]
<1>1. blobs[currentBlob] \in Blob
  BY BlobType, ElementOfSeq
<1>2. blob \in Blob /\ blob.start = blobs[currentBlob].start
  <2>1. blobs[currentBlob].data \o bytes \in Seq(Byte)
    BY BlobType, ConcatProperties
  <2> QED BY <1>1, <2>1 DEF Blob
<1> HIDE DEF blob
<1>3. new \in Seq(Blob)
  BY <1>2, BlobType, ExceptSeq
<1>4. DOMAIN new = DOMAIN blobs /\ \A b \in DOMAIN blobs : new[b].start = blobs[b].start
  BY <1>2
<1> QED
  BY <1>3, <1>4 DEF blob

LEMMA FirstBlobFound ==
  ASSUME TypeOK, NEW start, \E b \in DOMAIN blobs : blobs[b].start = start
  PROVE  FirstBlobAt(start) \in DOMAIN blobs /\ blobs[FirstBlobAt(start)].start = start
<1> DEFINE Hits == {b \in DOMAIN blobs : blobs[b].start = start}
<1>1. Hits \subseteq Nat /\ Hits # {}
  BY BlobType
<1>2. PICK k \in Hits : \A j \in Hits : k <= j
  <2> HIDE DEF Hits
  <2> QED BY <1>1, Least
<1>3. ASSUME NEW c \in 1 .. k - 1, blobs[c].start = start PROVE FALSE
  <2>1. c \in Hits /\ c < k /\ c \in Nat /\ k \in Nat
    BY <1>3, BlobType
  <2> HIDE DEF Hits
  <2> QED BY <1>2, <2>1
<1>4. k \in DOMAIN blobs /\ blobs[k].start = start /\ \A c \in 1 .. k - 1 : blobs[c].start # start
  BY <1>3
<1> QED
  BY <1>4 DEF FirstBlobAt

LEMMA InitInv == Init => Inv
<1> SUFFICES ASSUME Init PROVE Inv
  OBVIOUS
<1>1. 0 \in Word /\ 1 \in Nat \ {0} /\ 0 \in Nat
  BY WordBounds, Words
<1> DEFINE blob == [start |-> 0, data |-> <<>>]
<1>2. blob \in Blob
  BY <1>1 DEF Blob
<1> HIDE DEF blob
<1>3. <<blob>> \in Seq(Blob) /\ 1 \in DOMAIN <<blob>>
  BY <1>2
<1>4. TypeOK
  <2>1. blobs = <<blob>> /\ currentBlob = 1
    BY DEF Init, blob
  <2> QED BY <1>1, <1>3, <2>1 DEF Init, TypeOK
<1>5. OrgsHaveBlobs
  <2>1. \A i \in DOMAIN source : ~ (i < 1)
    BY AssemblerAssumption, LenProperties DEF Init
  <2> QED BY <2>1 DEF Init, OrgsHaveBlobs
<1> QED
  BY <1>4, <1>5 DEF Inv

\* A line of the first pass that makes no blob
LEMMA MeasuredInv ==
  ASSUME Inv, line <= Len(source), MeasureLine, UNCHANGED <<currentBlob, blobs>>,
         body.kind # "org", table' \in Seq(Symbol), errors' \in Nat, address' \in Word
  PROVE  Inv'
<1>1. TypeOK'
  BY DEF Inv, TypeOK, MeasureLine
<1>2. OrgsHaveBlobs'
  <2>1. \A i \in DOMAIN source : i < line + 1 => i < line \/ i = line
    BY AssemblerAssumption, LenProperties DEF Inv, TypeOK
  <2>2. SUFFICES ASSUME NEW i \in DOMAIN source, Kind(i) = "org",
                        i < line + 1 \/ pass # "measure"
                 PROVE  \E b \in DOMAIN blobs : blobs[b].start = source[i].body.start
    BY DEF OrgsHaveBlobs, MeasureLine, Kind
  <2>3. i # line
    BY <2>2 DEF Kind, body
  <2> QED BY <2>1, <2>2, <2>3 DEF Inv, OrgsHaveBlobs
<1> QED
  BY <1>1, <1>2 DEF Inv

\* A line of the second pass
LEMMA EmittedInv ==
  ASSUME Inv, pass = "emit", NEW bytes \in Seq(Byte), Emit(bytes),
         currentBlob' \in DOMAIN blobs, errors' \in Nat, address' \in Word
  PROVE  Inv'
<1>1. TypeOK
  BY DEF Inv
<1>2. /\ blobs' \in Seq(Blob) /\ DOMAIN blobs' = DOMAIN blobs
      /\ \A b \in DOMAIN blobs : blobs'[b].start = blobs[b].start
  BY <1>1, FilledType DEF Emit
<1> DEFINE place == [blob |-> currentBlob, offset |-> Len(blobs[currentBlob].data), bytes |-> bytes]
           Place == [blob : Nat, offset : Nat, bytes : Seq(Byte)]
<1>3. place \in Place
  BY <1>1, BlobType, LenProperties
<1> HIDE DEF place, Place
<1>4. placed' \in Seq(Place)
  BY <1>1, <1>3, AppendProperties DEF TypeOK, Emit, place, Place
<1>5. TypeOK'
  BY <1>1, <1>2, <1>4 DEF TypeOK, Emit, Place
<1>6. OrgsHaveBlobs'
  BY <1>2 DEF Inv, OrgsHaveBlobs, Emit, Kind
<1> QED
  BY <1>5, <1>6 DEF Inv

LEMMA EmptyBytes == <<>> \in Seq(Byte)
OBVIOUS

LEMMA NextInv == Inv /\ [Next]_vars => Inv'
<1> SUFFICES ASSUME Inv, [Next]_vars PROVE Inv'
  OBVIOUS
<1>1. TypeOK /\ OrgsHaveBlobs /\ errors \in Nat /\ address \in Word /\ table \in Seq(Symbol)
  BY DEF Inv, TypeOK
<1>2. CASE MeasureOrg
  <2>1. line <= Len(source) /\ body.kind = "org" /\ pass = "measure" /\ MeasureLine
    BY <1>2 DEF MeasureOrg, At, body
  <2>2. body.start \in Word /\ line \in DOMAIN source
    BY <1>1, <2>1, LineType, BodyType
  <2>3. /\ blobs' \in Seq(Blob) /\ DOMAIN blobs' = 1 .. Len(blobs) + 1
        /\ \A b \in DOMAIN blobs : b \in DOMAIN blobs' /\ blobs'[b] = blobs[b]
        /\ blobs'[Len(blobs) + 1].start = body.start
    BY <1>1, <1>2, <2>2, NewBlobType DEF MeasureOrg
  <2>4. Len(blobs) + 1 \in DOMAIN blobs' /\ currentBlob' \in DOMAIN blobs'
    BY <1>1, <1>2, <2>3, BlobType DEF MeasureOrg
  <2>5. table' \in Seq(Symbol) /\ errors' \in Nat /\ address' \in Word
    <3>1. Labelled \in Seq(Symbol) /\ LabelErrors \in Nat
      BY <1>1, <2>1, LabelledType
    <3>2. 0 \in Word
      BY WordBounds, Words
    <3> QED BY <1>1, <1>2, <3>1, <3>2 DEF MeasureOrg
  <2>6. TypeOK'
    <3>1. line' \in Nat \ {0}
      BY <1>1, <2>1 DEF TypeOK, MeasureLine
    <3> QED BY <1>1, <2>1, <2>3, <2>4, <2>5, <3>1 DEF TypeOK, MeasureLine
  <2>7. OrgsHaveBlobs'
    <3>1. \A i \in DOMAIN source : i < line + 1 => i < line \/ i = line
      BY <1>1, AssemblerAssumption, LenProperties DEF TypeOK
    <3>2. SUFFICES ASSUME NEW i \in DOMAIN source, Kind(i) = "org", i < line + 1
                   PROVE  \E b \in DOMAIN blobs' : blobs'[b].start = source[i].body.start
      BY <2>1 DEF OrgsHaveBlobs, MeasureLine, Kind
    <3>3. CASE i = line
      BY <2>3, <2>4, <3>3 DEF body
    <3>4. CASE i < line
      BY <1>1, <2>3, <3>2, <3>4 DEF OrgsHaveBlobs
    <3> QED BY <3>1, <3>2, <3>3, <3>4
  <2> QED BY <2>6, <2>7 DEF Inv
<1>3. CASE MeasureVariable
  <2> DEFINE variable == NewSymbol(body.name, ValueOf(body.value), "variable")
  <2>1. line <= Len(source) /\ body.kind = "variable" /\ MeasureLine
    BY <1>3 DEF MeasureVariable, At, body
  <2>2. variable \in Symbol /\ Labelled \in Seq(Symbol) /\ LabelErrors \in Nat
    BY <1>1, <2>1, VariableType, LabelledType
  <2>3. table' \in Seq(Symbol)
    BY <1>3, <2>2, AddType DEF MeasureVariable
  <2>4. errors' \in Nat
    BY <1>1, <1>3, <2>2, CountType DEF MeasureVariable
  <2> QED BY <1>1, <1>3, <2>1, <2>3, <2>4, MeasuredInv DEF MeasureVariable
<1>4. CASE MeasureCode
  <2>1. line <= Len(source) /\ body.kind = "code" /\ MeasureLine
    BY <1>4 DEF MeasureCode, At, body
  <2>2. Labelled \in Seq(Symbol) /\ LabelErrors \in Nat
    BY <1>1, <2>1, LabelledType
  <2>3. table' \in Seq(Symbol) /\ errors' \in Nat
    BY <1>1, <1>4, <2>2 DEF MeasureCode
  <2>4. address' \in Word
    BY <1>1, <1>4, <2>1, <2>2, CodeType DEF MeasureCode
  <2> QED BY <1>4, <2>1, <2>3, <2>4, MeasuredInv DEF MeasureCode
<1>5. CASE MeasureOther
  <2>1. line <= Len(source) /\ body.kind # "org" /\ MeasureLine
    BY <1>5 DEF MeasureOther, At, body
  <2>2. Labelled \in Seq(Symbol) /\ LabelErrors \in Nat
    BY <1>1, <2>1, LabelledType
  <2>3. table' \in Seq(Symbol) /\ errors' \in Nat /\ address' \in Word
    BY <1>1, <1>5, <2>2 DEF MeasureOther
  <2> QED BY <1>5, <2>1, <2>3, MeasuredInv DEF MeasureOther
<1>6. CASE Rewind
  <2>1. 0 \in Word
    BY WordBounds, Words
  <2>2. TypeOK'
    BY <1>1, <1>6, <2>1 DEF Rewind, TypeOK
  <2>3. \A i \in DOMAIN source : i < line
    BY <1>1, <1>6, AssemblerAssumption, LenProperties DEF Rewind, TypeOK
  <2>4. OrgsHaveBlobs'
    BY <1>1, <1>6, <2>3 DEF Rewind, OrgsHaveBlobs, Kind
  <2> QED BY <2>2, <2>4 DEF Inv
<1>7. CASE EmitOrg
  <2>1. line <= Len(source) /\ body.kind = "org" /\ pass = "emit" /\ Emit(<<>>)
    BY <1>7 DEF EmitOrg, At, body
  <2>2. line \in DOMAIN source
    BY <1>1, <2>1, LineType
  <2>3. \E b \in DOMAIN blobs : blobs[b].start = body.start
    BY <1>1, <2>1, <2>2 DEF OrgsHaveBlobs, Kind, body
  <2>4. FirstBlobAt(body.start) \in DOMAIN blobs
    BY <1>1, <2>3, FirstBlobFound
  <2>5. currentBlob' \in DOMAIN blobs /\ errors' \in Nat /\ address' \in Word
    BY <1>1, <1>7, <2>4 DEF EmitOrg
  <2> QED BY <2>1, <2>5, EmptyBytes, EmittedInv
<1>8. CASE EmitEnd
  <2>1. 1 \in DOMAIN blobs
    BY <1>1, BlobType
  <2>2. currentBlob' \in DOMAIN blobs /\ errors' \in Nat /\ address' \in Word
    BY <1>1, <1>8, <2>1 DEF EmitEnd
  <2>3. pass = "emit" /\ Emit(<<>>)
    BY <1>8 DEF EmitEnd, At
  <2> QED BY <2>2, <2>3, EmptyBytes, EmittedInv
<1>9. CASE EmitData
  <2>1. line <= Len(source) /\ body.kind \in {"byte", "asciiz"} /\ pass = "emit"
    BY <1>9 DEF EmitData, At, body
  <2>2. DataOf(body) \in Seq(Byte)
    BY <1>1, <2>1, LineType, DataOfType
  <2>3. currentBlob' \in DOMAIN blobs /\ errors' \in Nat /\ address' \in Word
    BY <1>1, <1>9, BlobType DEF EmitData
  <2> QED BY <1>9, <2>1, <2>2, <2>3, EmittedInv DEF EmitData
<1>10. CASE EmitCode
  <2> DEFINE bytes == LineBytes(table, body.op, body.operand, address)
  <2>1. line <= Len(source) /\ body.kind = "code" /\ pass = "emit"
    BY <1>10 DEF EmitCode, At, body
  <2>2. bytes \in Seq(Byte) /\ (address + Len(bytes)) % WordCount \in Word
    BY <1>1, <2>1, CodeType
  <2>3. currentBlob' \in DOMAIN blobs /\ errors' \in Nat /\ address' \in Word
    BY <1>1, <1>10, <2>2, BlobType, CountType DEF EmitCode
  <2>4. Emit(bytes)
    BY <1>10 DEF EmitCode
  <2> HIDE DEF bytes
  <2> QED BY <2>1, <2>2, <2>3, <2>4, EmittedInv
<1>11. CASE EmitNothing
  <2>1. currentBlob' \in DOMAIN blobs /\ errors' \in Nat /\ address' \in Word
    BY <1>1, <1>11, BlobType DEF EmitNothing
  <2>2. pass = "emit" /\ Emit(<<>>)
    BY <1>11 DEF EmitNothing, At
  <2> QED BY <2>1, <2>2, EmptyBytes, EmittedInv
<1>12. CASE Overfill
  <2>1. pass # "measure" /\ pass' = "fatal"
    BY <1>12 DEF Overfill, At
  <2>2. UNCHANGED <<source, line, address, currentBlob, blobs, table, errors, output, placed>>
    BY <1>12 DEF Overfill
  <2>3. TypeOK'
    BY <1>1, <2>1, <2>2 DEF TypeOK
  <2>4. OrgsHaveBlobs'
    BY <1>1, <2>1, <2>2 DEF OrgsHaveBlobs, Kind
  <2> QED BY <2>3, <2>4 DEF Inv
<1>13. CASE WriteFlatFile
  <2>1. blobs[Len(blobs)].data \in Seq(Byte)
    <3>1. Len(blobs) \in 1 .. Len(blobs) /\ blobs \in Seq(Blob)
      BY <1>1, BlobType
    <3>2. blobs[Len(blobs)] \in Blob
      BY <3>1, ElementOfSeq
    <3> QED BY <3>2 DEF Blob
  <2>2. TypeOK'
    <3>1. UNCHANGED <<source, line, address, currentBlob, blobs, table, errors, placed>>
      BY <1>13 DEF WriteFlatFile
    <3>2. output' \in Seq(Byte) /\ pass' = "done"
      BY <1>13, <2>1 DEF WriteFlatFile
    <3> QED BY <1>1, <3>1, <3>2 DEF TypeOK
  <2>3. OrgsHaveBlobs'
    BY <1>1, <1>13 DEF WriteFlatFile, OrgsHaveBlobs, Kind
  <2> QED BY <2>2, <2>3 DEF Inv
<1>14. CASE UNCHANGED vars
  BY <1>1, <1>14 DEF vars, Inv, TypeOK, OrgsHaveBlobs, Kind
<1> QED
  BY <1>2, <1>3, <1>4, <1>5, <1>6, <1>7, <1>8, <1>9, <1>10, <1>11, <1>12, <1>13, <1>14
  DEF Next, Measure, Fill

\* Every reachable state of the assembler is well typed: addresses stay words, blobs
\* hold bytes, and the second pass always finds the blob of an .org.
THEOREM TypeCorrect == Spec => []TypeOK
<1>1. Inv => TypeOK
  BY DEF Inv
<1> QED
  BY InitInv, NextInv, <1>1, PTL DEF Spec

-----------------------------------------------------------------------------
(* Consistency of the symbol table *)

LEMMA LabelledConsistent ==
  ASSUME TypeOK, line <= Len(source), TableIsConsistent
  PROVE  Ordered(Labelled) /\ OneAddress(Labelled)
<1>1. table \in Seq(Symbol)
  BY DEF TypeOK
<1> QED
  BY <1>1, LabelledType, AddOrdered, AddOneAddress DEF Labelled, TableIsConsistent

LEMMA NextConsistent == Inv /\ TableIsConsistent /\ [Next]_vars => TableIsConsistent'
<1> SUFFICES ASSUME Inv, TableIsConsistent, [Next]_vars PROVE TableIsConsistent'
  OBVIOUS
<1>1. TypeOK
  BY DEF Inv
<1>2. CASE MeasureOrg \/ MeasureCode \/ MeasureOther
  <2>1. line <= Len(source) /\ table' = Labelled
    BY <1>2 DEF MeasureOrg, MeasureCode, MeasureOther, At
  <2> QED BY <1>1, <2>1, LabelledConsistent DEF TableIsConsistent
<1>3. CASE MeasureVariable
  <2> DEFINE variable == NewSymbol(body.name, ValueOf(body.value), "variable")
  <2>1. line <= Len(source) /\ body.kind = "variable" /\ table' = AddSymbol(Labelled, variable)
    BY <1>3 DEF MeasureVariable, At, body
  <2>2. variable \in Symbol /\ Labelled \in Seq(Symbol)
    BY <1>1, <2>1, VariableType, LabelledType
  <2>3. Ordered(Labelled) /\ OneAddress(Labelled)
    BY <1>1, <2>1, LabelledConsistent
  <2> HIDE DEF variable
  <2> QED BY <2>1, <2>2, <2>3, AddOrdered, AddOneAddress DEF TableIsConsistent
<1>4. CASE UNCHANGED table
  BY <1>4 DEF TableIsConsistent
<1>5. Rewind \/ Fill \/ UNCHANGED vars => UNCHANGED table
  BY DEF Rewind, Fill, EmitOrg, EmitEnd, EmitData, EmitCode, EmitNothing, Emit, Overfill,
         WriteFlatFile, vars
<1> QED
  BY <1>2, <1>3, <1>4, <1>5 DEF Next, Measure

\* No source, whatever it declares and however often, gets a name two addresses or a
\* table out of order.
THEOREM TableStaysConsistent == Spec => []TableIsConsistent
<1>1. Init => TableIsConsistent
  BY DEF Init, TableIsConsistent, Ordered, OneAddress
<1> QED
  BY InitInv, NextInv, NextConsistent, <1>1, PTL DEF Spec

\* The script that as6502 -S writes for a finished file makes the debugger's table equal
\* to the assembler's but for the lines, whatever the file declares.
THEOREM ScriptsLoad == Spec => []ScriptLoadsTable
<1>1. TypeOK /\ TableIsConsistent => ScriptLoadsTable
  BY LoadedSame DEF TypeOK, TableIsConsistent, ScriptLoadsTable
<1> QED
  BY TypeCorrect, TableStaysConsistent, <1>1, PTL

-----------------------------------------------------------------------------
(* The trace of the first pass *)

IsOrg(j) == Kind(j) = "org"
OrgBefore(k) == \E j \in 1 .. k - 1 : IsOrg(j)

\* The lines that the first pass has read are those before
Reach == IF pass = "measure" THEN line ELSE Len(source) + 1

\* What the first pass knew before it read a line, for every line that it has read and
\* for the next
Trace == [1 .. Len(source) + 1 -> [offset : Nat, blob : Nat, table : Seq(Symbol)]]

\* It was in the first blob, or behind an .org in one that has room above its start
BlobAt(h, k) == h[k].blob \in DOMAIN blobs /\ h[k].offset <= 3 * (k - 1)

MadeByOrg(h, b) == \E j \in 1 .. Reach - 1 : IsOrg(j) /\ b = h[j + 1].blob

RoomAt(h, k) ==
  OrgBefore(k) => /\ 256 <= blobs[h[k].blob].start
                  /\ blobs[h[k].blob].start + 3 * Len(source) < WordCount

BlobsAgree(h) ==
  /\ blobs[1].start = 0
  /\ \A k \in 1 .. Reach : BlobAt(h, k)
  /\ \A b \in DOMAIN blobs : b = 1 \/ MadeByOrg(h, b)
  /\ \A k \in 1 .. Reach : RoomAt(h, k)

\* What it did with each line
StepAt(h, k) ==
  /\ IsOrg(k) => h[k + 1].offset = 0 /\ blobs[h[k + 1].blob].start = source[k].body.start
  /\ ~ IsOrg(k) => h[k + 1].blob = h[k].blob
  /\ Kind(k) = "code" =>
       h[k + 1].offset = h[k].offset
         + LineLength(h[k + 1].table, source[k].body.op, source[k].body.operand, h[k].offset)
  /\ ~ IsOrg(k) /\ Kind(k) # "code" => h[k + 1].offset = h[k].offset

StepsAgree(h) == \A k \in 1 .. Reach - 1 : StepAt(h, k)

\* Where a symbol comes from: a label from the address at which its line was measured
Declared(h, symbol) ==
  LET l == symbol.line IN
  /\ l \in 1 .. Reach - 1
  /\ symbol.type = "label" => /\ source[l].label = symbol.name
                              /\ symbol.address = h[l].offset + blobs[h[l].blob].start
  /\ symbol.type = "variable" => IsVariableAt(l, symbol.name)

KeptAt(h, k) == \A i \in DOMAIN h[k].table : \E j \in DOMAIN table : table[j] = h[k].table[i]

NamedAt(h, k) ==
  \A j \in 1 .. k - 1 : \A name \in Name : Declares(j, name) => IsNamed(h[k].table, name)

Entries == {table[i] : i \in DOMAIN table}

TablesAgree(h) ==
  /\ \A s \in Entries : Declared(h, s)
  /\ \A k \in 1 .. Reach : KeptAt(h, k) /\ NamedAt(h, k)

\* Where it is
NowAgrees(h) ==
  pass = "measure" =>
    /\ line <= Len(source) + 1
    /\ h[line] = [offset |-> address, blob |-> currentBlob, table |-> table]
    /\ \A b \in DOMAIN blobs : blobs[b].data = <<>>
    /\ currentBlob = Len(blobs)
    /\ placed = <<>>

Measured(h) ==
  h \in Trace /\ BlobsAgree(h) /\ StepsAgree(h) /\ TablesAgree(h) /\ NowAgrees(h)

\* A line of the first pass, of any kind
Reads ==
  /\ pass = "measure" /\ line \in DOMAIN source /\ MeasureLine
  /\ \A b \in DOMAIN blobs : b \in DOMAIN blobs' /\ blobs'[b] = blobs[b]
  /\ \A b \in DOMAIN blobs' : b \in DOMAIN blobs \/ (IsOrg(line) /\ b = currentBlob')
  /\ currentBlob' \in DOMAIN blobs' /\ currentBlob' = Len(blobs')
  /\ IsOrg(line) => /\ blobs'[currentBlob'] = [start |-> body.start, data |-> <<>>]
                    /\ address' = 0
  /\ ~ IsOrg(line) => currentBlob' = currentBlob
  /\ Kind(line) = "code" => address' = address + LineLength(table', body.op, body.operand, address)
  /\ ~ IsOrg(line) /\ Kind(line) # "code" => address' = address
  /\ table' \in Seq(Symbol)
  /\ \A i \in DOMAIN table : \E j \in DOMAIN table' : table'[j] = table[i]
  /\ \A j \in DOMAIN table' :
       \/ \E i \in DOMAIN table : table'[j] = table[i]
       \/ /\ table'[j].line = line
          /\ table'[j].type = "label" => /\ source[line].label = table'[j].name
                                         /\ table'[j].address = address + blobs[currentBlob].start
          /\ table'[j].type = "variable" => IsVariableAt(line, table'[j].name)
  /\ \A name \in Name : Declares(line, name) => IsNamed(table', name)

LEMMA SectionBounds ==
  ASSUME NEW n, NEW m \in Nat, n \in 256 .. 65535 - 3 * m
  PROVE  n \in Nat /\ 256 <= n /\ n + 3 * m < WordCount
BY DEF WordCount

\* The lines of a source
LEMMA SourceType ==
  ASSUME TypeOK
  PROVE  /\ Len(source) \in Nat /\ DOMAIN source = 1 .. Len(source)
         /\ \A l \in 1 .. Len(source) : source[l] \in Lines /\ source[l].body \in Body
<1>1. source \in Seq(Lines)
  BY AssemblerAssumption DEF TypeOK
<1>2. Len(source) \in Nat /\ DOMAIN source = 1 .. Len(source)
  BY <1>1, LenProperties
<1>3. ASSUME NEW l \in 1 .. Len(source) PROVE source[l] \in Lines /\ source[l].body \in Body
  <2>1. source[l] \in Lines
    BY <1>1, ElementOfSeq
  <2> QED BY <2>1 DEF Lines
<1> QED
  BY <1>2, <1>3

\* The trace grows by what is known behind the line
LEMMA ReadsMeasured ==
  ASSUME Inv, Inv', Disciplined, Reads, NEW h, Measured(h)
  PROVE  \E g : Measured(g)'
<1> DEFINE new == [offset |-> address', blob |-> currentBlob', table |-> table']
           L == Len(source)
           Records == [offset : Nat, blob : Nat, table : Seq(Symbol)]
<1>1. /\ TypeOK /\ pass = "measure" /\ pass' = "measure" /\ line' = line + 1
      /\ source' = source /\ placed' = placed
  BY DEF Inv, Reads, MeasureLine
<1>2. L \in Nat /\ DOMAIN source = 1 .. L /\ line \in 1 .. L /\ line \in Nat
  BY <1>1, SourceType DEF Reads, TypeOK
<1>3. Reach = line /\ Reach' = line + 1 /\ Reach' - 1 = line
  BY <1>1, <1>2 DEF Reach
<1>4. /\ h \in Trace /\ BlobsAgree(h) /\ StepsAgree(h) /\ TablesAgree(h) /\ NowAgrees(h)
  BY DEF Measured
<1>5. /\ h \in [1 .. L + 1 -> Records]
      /\ h[line].offset = address /\ h[line].blob = currentBlob /\ h[line].table = table
  BY <1>1, <1>4 DEF Trace, NowAgrees
<1>6. address \in Nat /\ address <= 3 * (line - 1)
  <2>1. line \in 1 .. Reach
    BY <1>2, <1>3
  <2>2. h[line].offset <= 3 * (line - 1)
    BY <1>4, <2>1 DEF BlobsAgree, BlobAt
  <2>3. address \in Word
    BY <1>1 DEF TypeOK
  <2> QED BY <1>5, <2>2, <2>3, WordBounds
<1>7. address' \in Nat /\ address' <= 3 * line
  <2>1. CASE IsOrg(line)
    BY <1>2, <2>1 DEF Reads
  <2>2. CASE Kind(line) = "code"
    <3> DEFINE n == LineLength(table', body.op, body.operand, address)
    <3>1. body.operand \in Operand
      <4>1. body \in Body
        BY <1>1, <1>2, SourceType DEF body
      <4> QED BY <2>2, <4>1, BodyType DEF Kind, body
    <3>2. n \in 1 .. 3
      BY <1>1, <3>1, EncodedType DEF Reads, TypeOK
    <3>3. address' = address + n
      BY <2>2 DEF Reads
    <3> HIDE DEF n
    <3> QED BY <1>2, <1>6, <3>2, <3>3
  <2>3. CASE ~ IsOrg(line) /\ Kind(line) # "code"
    <3>1. address' = address
      BY <2>3 DEF Reads
    <3> QED BY <1>2, <1>6, <3>1
  <2> QED BY <2>1, <2>2, <2>3 DEF IsOrg
<1>8. new \in Records /\ new.offset = address' /\ new.blob = currentBlob' /\ new.table = table'
  <2>1. currentBlob' \in Nat
    <3>1. blobs' \in Seq(Blob)
      BY DEF Inv, TypeOK
    <3> QED BY <3>1, LenProperties DEF Reads
  <2> QED BY <1>7, <2>1 DEF Reads
<1> HIDE DEF new, L
<1>9. PICK g : g = [h EXCEPT ![line + 1] = new]
  OBVIOUS
<1>10. /\ g \in [1 .. L + 1 -> Records] /\ g[line + 1] = new
       /\ \A k \in 1 .. line : g[k] = h[k]
  <2> HIDE DEF Records
  <2>1. line + 1 \in 1 .. L + 1 /\ \A k \in 1 .. line : k \in 1 .. L + 1 /\ k # line + 1
    BY <1>2
  <2> QED BY <1>5, <1>8, <1>9, <2>1
<1>11. \A j : /\ Kind(j)' = Kind(j)
              /\ IsOrg(j)' <=> IsOrg(j)
              /\ OrgBefore(j)' <=> OrgBefore(j)
              /\ \A name : Declares(j, name)' <=> Declares(j, name)
              /\ \A name : IsVariableAt(j, name)' <=> IsVariableAt(j, name)
  BY <1>1 DEF Kind, IsOrg, OrgBefore, Declares, IsVariableAt
<1>12. \A k \in 1 .. line + 1 : k \in 1 .. line \/ k = line + 1
  BY <1>2
<1>13. BlobsAgree(g)'
  <2>1. /\ blobs[1].start = 0
        /\ \A k \in 1 .. line : h[k].blob \in DOMAIN blobs /\ h[k].offset <= 3 * (k - 1)
        /\ \A b \in DOMAIN blobs : b = 1 \/ \E j \in 1 .. line - 1 : IsOrg(j) /\ b = h[j + 1].blob
        /\ \A k \in 1 .. line : OrgBefore(k) =>
             /\ 256 <= blobs[h[k].blob].start
             /\ blobs[h[k].blob].start + 3 * L < WordCount
    BY <1>3, <1>4 DEF BlobsAgree, BlobAt, MadeByOrg, RoomAt, L
  <2>2. \A b \in DOMAIN blobs : b \in DOMAIN blobs' /\ blobs'[b] = blobs[b]
    BY DEF Reads
  <2>3. blobs'[1].start = 0
    <3>1. 1 \in DOMAIN blobs
      BY <1>1, BlobType
    <3> QED BY <2>1, <2>2, <3>1
  <2>4. \A k \in 1 .. line + 1 : g[k].blob \in DOMAIN blobs' /\ g[k].offset <= 3 * (k - 1)
    <3> TAKE k \in 1 .. line + 1
    <3>1. CASE k \in 1 .. line
      BY <1>10, <2>1, <2>2, <3>1
    <3>2. CASE k = line + 1
      <4>1. g[k].blob = currentBlob' /\ g[k].offset = address' /\ k - 1 = line
        BY <1>2, <1>8, <1>10, <3>2
      <4> QED BY <1>7, <4>1 DEF Reads
    <3> QED BY <1>12, <3>1, <3>2
  <2>5. \A b \in DOMAIN blobs' : b = 1 \/ \E j \in 1 .. line : IsOrg(j) /\ b = g[j + 1].blob
    <3> TAKE b \in DOMAIN blobs'
    <3>1. CASE b \in DOMAIN blobs
      <4>1. ASSUME NEW j \in 1 .. line - 1, b = h[j + 1].blob
            PROVE  j \in 1 .. line /\ b = g[j + 1].blob
        <5>1. j \in 1 .. line /\ j + 1 \in 1 .. line
          BY <1>2
        <5> QED BY <1>10, <4>1, <5>1
      <4> QED BY <2>1, <3>1, <4>1
    <3>2. CASE IsOrg(line) /\ b = currentBlob'
      <4>1. line \in 1 .. line /\ b = g[line + 1].blob
        BY <1>2, <1>8, <1>10, <3>2
      <4> QED BY <3>2, <4>1
    <3> QED BY <3>1, <3>2 DEF Reads
  <2>6. ASSUME NEW k \in 1 .. line + 1, OrgBefore(k)
        PROVE  /\ 256 <= blobs'[g[k].blob].start
               /\ blobs'[g[k].blob].start + 3 * L < WordCount
    <3>1. CASE k \in 1 .. line
      <4>1. g[k] = h[k] /\ blobs'[h[k].blob] = blobs[h[k].blob]
        BY <1>10, <2>1, <2>2, <3>1
      <4> QED BY <2>1, <2>6, <3>1, <4>1
    <3>2. CASE k = line + 1 /\ IsOrg(line)
      <4>1. blobs'[g[k].blob].start = body.start
        BY <1>8, <1>10, <3>2 DEF Reads
      <4>2. body.start \in 256 .. 65535 - 3 * L
        BY <1>2, <3>2 DEF Disciplined, Sectioned, IsOrg, body, L
      <4> QED BY <1>2, <4>1, <4>2, SectionBounds
    <3>3. CASE k = line + 1 /\ ~ IsOrg(line)
      <4>1. g[k].blob = h[line].blob
        BY <1>5, <1>8, <1>10, <3>3 DEF Reads
      <4>2. OrgBefore(line)
        <5>1. PICK j \in 1 .. k - 1 : IsOrg(j)
          BY <2>6 DEF OrgBefore
        <5>2. j # line /\ j \in 1 .. line
          BY <1>2, <3>3, <5>1
        <5>3. j \in 1 .. line - 1
          BY <1>2, <5>2
        <5> QED BY <5>1, <5>3 DEF OrgBefore
      <4>3. line \in 1 .. line /\ blobs'[h[line].blob] = blobs[h[line].blob]
        BY <1>2, <2>1, <2>2
      <4> QED BY <2>1, <4>1, <4>2, <4>3
    <3> QED BY <1>12, <3>1, <3>2, <3>3
  <2>8. \A k \in 1 .. Reach' : BlobAt(g, k)'
    BY <1>3, <2>4 DEF BlobAt
  <2>9. \A b \in DOMAIN blobs' : b = 1 \/ MadeByOrg(g, b)'
    BY <1>3, <1>11, <2>5 DEF MadeByOrg
  <2>10. \A k \in 1 .. Reach' : RoomAt(g, k)'
    BY <1>1, <1>3, <1>11, <2>6 DEF RoomAt, L
  <2> QED BY <2>3, <2>8, <2>9, <2>10 DEF BlobsAgree
<1>14. StepsAgree(g)'
  <2>1. \A k \in 1 .. line - 1 : StepAt(h, k)
    BY <1>3, <1>4 DEF StepsAgree
  <2>2. ASSUME NEW k \in 1 .. line PROVE StepAt(g, k)'
    <3>1. CASE k \in 1 .. line - 1
      <4>1. k \in 1 .. line /\ k + 1 \in 1 .. line
        BY <1>2, <3>1
      <4>2. g[k] = h[k] /\ g[k + 1] = h[k + 1]
        BY <1>10, <4>1
      <4>3. blobs'[h[k + 1].blob] = blobs[h[k + 1].blob]
        <5>1. h[k + 1].blob \in DOMAIN blobs
          BY <1>3, <1>4, <4>1 DEF BlobsAgree, BlobAt
        <5> QED BY <5>1 DEF Reads
      <4> QED BY <1>1, <1>11, <2>1, <3>1, <4>2, <4>3 DEF StepAt
    <3>2. CASE k = line
      <4>1. /\ g[k + 1].offset = address' /\ g[k + 1].blob = currentBlob' /\ g[k + 1].table = table'
            /\ g[k].offset = address /\ g[k].blob = currentBlob
        BY <1>2, <1>5, <1>8, <1>10, <3>2
      <4> QED BY <1>1, <1>11, <3>2, <4>1 DEF Reads, body, StepAt
    <3> QED BY <1>2, <3>1, <3>2
  <2> QED BY <1>3, <2>2 DEF StepsAgree
<1>15. TablesAgree(g)'
  <2>1. /\ \A s \in Entries : Declared(h, s)
        /\ \A k \in 1 .. line : KeptAt(h, k) /\ NamedAt(h, k)
    BY <1>3, <1>4 DEF TablesAgree
  <2>2. /\ \A i \in DOMAIN table : \E j \in DOMAIN table' : table'[j] = table[i]
        /\ \A name \in Name : Declares(line, name) => IsNamed(table', name)
    BY DEF Reads
  <2>3. ASSUME NEW s \in Entries' PROVE Declared(g, s)'
    <3>0. PICK j \in DOMAIN table' : s = table'[j]
      BY DEF Entries
    <3>1. CASE s \in Entries
      <4>2. Declared(h, s)
        BY <2>1, <3>1
      <4>3. s.line \in 1 .. line - 1
        BY <1>3, <4>2 DEF Declared
      <4>9. \A l \in 1 .. line - 1 : l \in 1 .. line
        BY <1>2
      <4>4. s.line \in 1 .. line /\ g[s.line] = h[s.line]
        <5>1. s.line \in 1 .. line
          BY <4>3, <4>9
        <5>2. \A k \in 1 .. line : g[k] = h[k]
          BY <1>10
        <5> QED BY <5>1, <5>2
      <4>5. blobs'[h[s.line].blob] = blobs[h[s.line].blob]
        <5>1. h[s.line].blob \in DOMAIN blobs
          BY <1>3, <1>4, <4>4 DEF BlobsAgree, BlobAt
        <5> QED BY <5>1 DEF Reads
      <4> QED BY <1>1, <1>3, <1>11, <4>2, <4>4, <4>5 DEF Declared
    <3>2. CASE s \notin Entries
      <4>1. /\ s.line = line
            /\ s.type = "label" => /\ source[line].label = s.name
                                   /\ s.address = address + blobs[currentBlob].start
            /\ s.type = "variable" => IsVariableAt(line, s.name)
        BY <3>0, <3>2 DEF Reads, Entries
      <4>2. /\ line \in 1 .. line /\ g[line].offset = address /\ g[line].blob = currentBlob
        <5>1. line \in 1 .. line
          BY <1>2
        <5>2. g[line] = h[line]
          BY <1>10, <5>1
        <5> QED BY <1>5, <5>1, <5>2
      <4>3. blobs'[currentBlob] = blobs[currentBlob]
        BY <1>1, BlobType DEF Reads
      <4> QED BY <1>1, <1>3, <1>11, <4>1, <4>2, <4>3 DEF Declared
    <3> QED BY <3>1, <3>2
  <2>4. ASSUME NEW k \in 1 .. line + 1 PROVE KeptAt(g, k)' /\ NamedAt(g, k)'
    <3>1. CASE k \in 1 .. line
      <4>1. g[k] = h[k] /\ KeptAt(h, k) /\ NamedAt(h, k)
        BY <1>10, <2>1, <3>1
      <4>2. ASSUME NEW i \in DOMAIN h[k].table PROVE \E j \in DOMAIN table' : table'[j] = h[k].table[i]
        <5>1. PICK j \in DOMAIN table : table[j] = h[k].table[i]
          BY <4>1 DEF KeptAt
        <5> QED BY <2>2, <5>1
      <4>3. KeptAt(g, k)'
        BY <4>1, <4>2 DEF KeptAt
      <4>4. NamedAt(g, k)'
        BY <1>11, <4>1 DEF NamedAt
      <4> QED BY <4>3, <4>4
    <3>2. CASE k = line + 1
      <4>1. g[k].table = table'
        BY <1>8, <1>10, <3>2
      <4>2. KeptAt(g, k)'
        BY <4>1 DEF KeptAt
      <4>3. ASSUME NEW j \in 1 .. k - 1, NEW name \in Name, Declares(j, name)
            PROVE  IsNamed(table', name)
        <5>1. CASE j = line
          BY <2>2, <4>3, <5>1
        <5>2. CASE j # line
          <6>1. j \in 1 .. line - 1 /\ line \in 1 .. line
            BY <1>2, <3>2, <5>2
          <6>2. IsNamed(table, name)
            BY <1>5, <2>1, <4>3, <6>1 DEF NamedAt
          <6>3. PICK i \in DOMAIN table : table[i].name = name
            BY <6>2 DEF IsNamed
          <6> QED BY <2>2, <6>3 DEF IsNamed
        <5> QED BY <5>1, <5>2
      <4>4. NamedAt(g, k)'
        BY <1>11, <4>1, <4>3 DEF NamedAt
      <4> QED BY <4>2, <4>4
    <3> QED BY <1>12, <3>1, <3>2
  <2> QED BY <1>3, <2>3, <2>4 DEF TablesAgree
<1>16. NowAgrees(g)'
  <2>1. line + 1 <= Len(source)' + 1
    BY <1>1, <1>2 DEF L
  <2>2. g[line + 1] = [offset |-> address', blob |-> currentBlob', table |-> table']
    BY <1>10 DEF new
  <2>3. ASSUME NEW b \in DOMAIN blobs' PROVE blobs'[b].data = <<>>
    <3>1. CASE b \in DOMAIN blobs
      BY <1>1, <1>4, <3>1 DEF NowAgrees, Reads
    <3>2. CASE b \notin DOMAIN blobs
      BY <2>3, <3>2 DEF Reads
    <3> QED BY <3>1, <3>2
  <2>4. currentBlob' = Len(blobs')
    BY DEF Reads
  <2>5. placed' = <<>>
    BY <1>1, <1>4 DEF NowAgrees
  <2> QED BY <1>1, <2>1, <2>2, <2>3, <2>4, <2>5 DEF NowAgrees
<1>17. g \in Trace'
  BY <1>1, <1>10 DEF Trace, L
<1> QED
  BY <1>13, <1>14, <1>15, <1>16, <1>17 DEF Measured

\* A count below the width of a word is not cut.
LEMMA NoWrap == ASSUME NEW n \in Nat, n < WordCount PROVE n % WordCount = n
BY DEF WordCount

\* Nothing wraps on a line that places something: it stands in a section, which has room
LEMMA RoomForLine ==
  ASSUME Inv, Disciplined, NEW h, Measured(h), pass = "measure", line <= Len(source),
         IsPlaced(line)
  PROVE  /\ address + blobs[currentBlob].start \in Nat
         /\ address + blobs[currentBlob].start < WordCount
         /\ address + 3 < WordCount
<1> DEFINE start == blobs[currentBlob].start
           L == Len(source)
<1>1. TypeOK
  BY DEF Inv
<1>2. L \in Nat /\ line \in DOMAIN source /\ line \in 1 .. L /\ Reach = line /\ line \in 1 .. Reach
  BY <1>1, LineType, SourceType DEF Reach
<1>3. OrgBefore(line)
  BY <1>2 DEF Disciplined, Sectioned, OrgBefore, IsOrg
<1>4. h[line].offset = address /\ h[line].blob = currentBlob
  BY DEF Measured, NowAgrees
<1>5. address <= 3 * (line - 1)
  BY <1>2, <1>4 DEF Measured, BlobsAgree, BlobAt
<1>6. 256 <= start /\ start + 3 * L < WordCount
  BY <1>2, <1>3, <1>4 DEF Measured, BlobsAgree, RoomAt
<1>7. start \in Nat /\ address \in Nat
  <2>1. start \in Word /\ address \in Word
    BY <1>1, BlobType DEF TypeOK
  <2> QED BY <2>1, WordBounds
<1>8. WordCount \in Nat
  BY DEF WordCount
<1> HIDE DEF start, L
<1>9. address + start \in Nat /\ address + start < WordCount /\ address + 3 < WordCount
  BY <1>2, <1>5, <1>6, <1>7, <1>8
<1> QED BY <1>9 DEF start

\* What the table holds behind the label of a line
LEMMA LabelledKeeps ==
  ASSUME Inv, Disciplined, NEW h, Measured(h), pass = "measure", line <= Len(source)
  PROVE  /\ Labelled \in Seq(Symbol)
         /\ \A i \in DOMAIN table : \E j \in DOMAIN Labelled : Labelled[j] = table[i]
         /\ \A j \in DOMAIN Labelled :
              \/ \E i \in DOMAIN table : Labelled[j] = table[i]
              \/ /\ Labelled[j].line = line /\ Labelled[j].type = "label"
                 /\ Labelled[j].name = source[line].label
                 /\ Labelled[j].address = address + blobs[currentBlob].start
         /\ source[line].label \in Name => IsNamed(Labelled, source[line].label)
<1>1. TypeOK /\ table \in Seq(Symbol)
  BY DEF Inv, TypeOK
<1>2. CASE ~ HasLabel
  <2>1. Labelled = table
    BY <1>2 DEF Labelled
  <2>2. source[line].label \notin Name
    BY <1>2, AssemblerAssumption DEF HasLabel
  <2> QED BY <1>1, <2>1, <2>2
<1>3. CASE HasLabel
  <2> DEFINE new == LabelHere
  <2>1. new \in Symbol
    BY <1>1, <1>3, LabelledType
  <2>2. address + blobs[currentBlob].start \in Nat /\ address + blobs[currentBlob].start < WordCount
    BY <1>3, RoomForLine DEF HasLabel, IsPlaced
  <2>3. (address + blobs[currentBlob].start) % WordCount = address + blobs[currentBlob].start
    BY <2>2, NoWrap
  <2>4. /\ new.line = line /\ new.type = "label" /\ new.name = source[line].label
        /\ new.address = address + blobs[currentBlob].start
    BY <2>3 DEF LabelHere, NewSymbol
  <2>5. Labelled = AddSymbol(table, new)
    BY <1>3 DEF Labelled
  <2> HIDE DEF new
  <2> QED BY <1>1, <2>1, <2>4, <2>5, AddKeeps
<1> QED BY <1>2, <1>3

\* Its body
LEMMA AtLine ==
  ASSUME TypeOK, NEW kinds, At("measure", kinds)
  PROVE  /\ pass = "measure" /\ line <= Len(source) /\ line \in DOMAIN source
         /\ Kind(line) \in kinds /\ body = source[line].body
         /\ currentBlob \in DOMAIN blobs
<1>1. pass = "measure" /\ line <= Len(source) /\ source[line].body.kind \in kinds
  BY DEF At
<1> QED BY <1>1, LineType DEF TypeOK, Kind, body

\* What the lines that only declare their labels do to the table
LEMMA LabelledReads ==
  ASSUME Inv, Disciplined, NEW h, Measured(h), pass = "measure", line <= Len(source),
         Kind(line) # "variable", table' = Labelled
  PROVE  /\ table' \in Seq(Symbol)
         /\ \A i \in DOMAIN table : \E j \in DOMAIN table' : table'[j] = table[i]
         /\ \A j \in DOMAIN table' :
              \/ \E i \in DOMAIN table : table'[j] = table[i]
              \/ /\ table'[j].line = line
                 /\ table'[j].type = "label" => /\ source[line].label = table'[j].name
                                                /\ table'[j].address = address + blobs[currentBlob].start
                 /\ table'[j].type = "variable" => IsVariableAt(line, table'[j].name)
         /\ \A name \in Name : Declares(line, name) => IsNamed(table', name)
<1>1. ASSUME NEW name \in Name, Declares(line, name) PROVE source[line].label = name
  BY <1>1 DEF Declares, IsVariableAt
<1> QED
  BY <1>1, LabelledKeeps

LEMMA BlobsStay ==
  ASSUME Inv, NEW h, Measured(h), pass = "measure", UNCHANGED <<currentBlob, blobs>>
  PROVE  /\ \A b \in DOMAIN blobs : b \in DOMAIN blobs' /\ blobs'[b] = blobs[b]
         /\ \A b \in DOMAIN blobs' : b \in DOMAIN blobs
         /\ currentBlob' \in DOMAIN blobs' /\ currentBlob' = Len(blobs')
         /\ currentBlob' = currentBlob
BY DEF Inv, TypeOK, Measured, NowAgrees

LEMMA MeasureOrgReads ==
  ASSUME Inv, Disciplined, NEW h, Measured(h), MeasureOrg PROVE Reads
<1>1. TypeOK
  BY DEF Inv
<1>2. /\ pass = "measure" /\ line <= Len(source) /\ line \in DOMAIN source
      /\ Kind(line) = "org" /\ body = source[line].body
  BY <1>1, AtLine DEF MeasureOrg
<1>3. currentBlob = Len(blobs)
  BY <1>2 DEF Measured, NowAgrees
<1>4. body.start \in Word
  BY <1>1, <1>2, LineType, BodyType DEF Kind
<1>5. /\ currentBlob' = currentBlob + 1 /\ address' = 0 /\ MeasureLine /\ table' = Labelled
      /\ blobs' = Append(blobs, [start |-> body.start, data |-> <<>>])
  BY DEF MeasureOrg
<1>6. /\ DOMAIN blobs' = 1 .. Len(blobs) + 1
      /\ \A b \in DOMAIN blobs : b \in DOMAIN blobs' /\ blobs'[b] = blobs[b]
  BY <1>1, <1>4, <1>5, NewBlobType
<1>7. Len(blobs) \in Nat /\ DOMAIN blobs = 1 .. Len(blobs) /\ blobs \in Seq(Blob)
  BY <1>1, BlobType
<1>8. blobs'[currentBlob'] = [start |-> body.start, data |-> <<>>] /\ Len(blobs') = Len(blobs) + 1
  <2> DEFINE new == [start |-> body.start, data |-> <<>>]
  <2>1. blobs' = Append(blobs, new)
    BY <1>5
  <2> HIDE DEF new
  <2>2. blobs'[Len(blobs) + 1] = new /\ Len(blobs') = Len(blobs) + 1
    BY <1>7, <2>1, AppendProperties
  <2> QED BY <1>3, <1>5, <2>2 DEF new
<1>9. /\ currentBlob' \in DOMAIN blobs' /\ currentBlob' = Len(blobs')
      /\ \A b \in DOMAIN blobs' : b \in DOMAIN blobs \/ b = currentBlob'
  BY <1>3, <1>5, <1>6, <1>7, <1>8
<1> QED
  BY <1>2, <1>5, <1>6, <1>8, <1>9, LabelledReads DEF Reads, IsOrg

LEMMA MeasureCodeReads ==
  ASSUME Inv, Disciplined, NEW h, Measured(h), MeasureCode PROVE Reads
<1>1. TypeOK
  BY DEF Inv
<1>2. /\ pass = "measure" /\ line <= Len(source) /\ line \in DOMAIN source
      /\ Kind(line) = "code" /\ body = source[line].body
  BY <1>1, AtLine DEF MeasureCode
<1>3. /\ table' = Labelled /\ MeasureLine /\ UNCHANGED <<currentBlob, blobs>>
      /\ address' = (address + LineLength(table', body.op, body.operand, address)) % WordCount
  BY DEF MeasureCode
<1>4. address' = address + LineLength(table', body.op, body.operand, address)
  <2> DEFINE n == LineLength(table', body.op, body.operand, address)
  <2>1. body.kind = "code" /\ table' \in Seq(Symbol)
    BY <1>1, <1>2, <1>3, LabelledType DEF Kind
  <2>2. n \in 1 .. 3
    BY <1>1, <1>2, <2>1, CodeType
  <2>3. address + 3 < WordCount
    BY <1>2, RoomForLine DEF IsPlaced
  <2>4. address \in Nat /\ WordCount \in Nat
    BY <1>1, WordBounds DEF TypeOK, WordCount
  <2>5. address' = (address + n) % WordCount
    BY <1>3
  <2> HIDE DEF n
  <2>6. address + n \in Nat /\ address + n < WordCount
    BY <2>2, <2>3, <2>4
  <2>7. address' = address + n
    BY <2>5, <2>6, NoWrap
  <2> QED BY <2>7 DEF n
<1> QED
  BY <1>2, <1>3, <1>4, LabelledReads, BlobsStay DEF Reads, IsOrg

LEMMA MeasureOtherReads ==
  ASSUME Inv, Disciplined, NEW h, Measured(h), MeasureOther PROVE Reads
<1>1. TypeOK
  BY DEF Inv
<1>2. /\ pass = "measure" /\ line <= Len(source) /\ line \in DOMAIN source
      /\ Kind(line) \in {"blank", "end", "byte", "asciiz"} /\ body = source[line].body
  BY <1>1, AtLine DEF MeasureOther
<1>3. /\ table' = Labelled /\ MeasureLine /\ UNCHANGED <<currentBlob, blobs>>
      /\ address' = address
  BY DEF MeasureOther
<1> QED
  BY <1>2, <1>3, LabelledReads, BlobsStay DEF Reads, IsOrg

LEMMA MeasureVariableReads ==
  ASSUME Inv, Disciplined, NEW h, Measured(h), MeasureVariable PROVE Reads
<1>1. TypeOK
  BY DEF Inv
<1>2. /\ pass = "measure" /\ line <= Len(source) /\ line \in DOMAIN source
      /\ Kind(line) = "variable" /\ body = source[line].body
  BY <1>1, AtLine DEF MeasureVariable
<1> DEFINE new == NewSymbol(body.name, ValueOf(body.value), "variable")
<1>3. /\ table' = AddSymbol(Labelled, new) /\ MeasureLine /\ UNCHANGED <<currentBlob, blobs>>
      /\ address' = address
  BY DEF MeasureVariable
<1>4. new \in Symbol
  BY <1>1, <1>2, VariableType DEF Kind
<1>5. new.line = line /\ new.type = "variable" /\ IsVariableAt(line, new.name)
      /\ new.name = source[line].body.name
  BY <1>2 DEF NewSymbol, IsVariableAt
<1> HIDE DEF new
<1>6. /\ Labelled \in Seq(Symbol)
      /\ \A i \in DOMAIN table : \E j \in DOMAIN Labelled : Labelled[j] = table[i]
      /\ \A j \in DOMAIN Labelled :
           \/ \E i \in DOMAIN table : Labelled[j] = table[i]
           \/ /\ Labelled[j].line = line /\ Labelled[j].type = "label"
              /\ Labelled[j].name = source[line].label
              /\ Labelled[j].address = address + blobs[currentBlob].start
      /\ source[line].label \in Name => IsNamed(Labelled, source[line].label)
  BY <1>2, LabelledKeeps
<1>7. /\ table' \in Seq(Symbol)
      /\ \A i \in DOMAIN Labelled : \E j \in DOMAIN table' : table'[j] = Labelled[i]
      /\ \A j \in DOMAIN table' : table'[j] = new \/ \E i \in DOMAIN Labelled : table'[j] = Labelled[i]
      /\ IsNamed(table', new.name)
  BY <1>3, <1>4, <1>6, AddKeeps
<1>8. \A i \in DOMAIN table : \E j \in DOMAIN table' : table'[j] = table[i]
  BY <1>6, <1>7
<1>9. ASSUME NEW j \in DOMAIN table'
      PROVE  \/ \E i \in DOMAIN table : table'[j] = table[i]
             \/ /\ table'[j].line = line
                /\ table'[j].type = "label" => /\ source[line].label = table'[j].name
                                               /\ table'[j].address = address + blobs[currentBlob].start
                /\ table'[j].type = "variable" => IsVariableAt(line, table'[j].name)
  <2>1. CASE table'[j] = new
    BY <1>5, <2>1
  <2>2. CASE \E i \in DOMAIN Labelled : table'[j] = Labelled[i]
    BY <1>6, <2>2
  <2> QED BY <1>7, <2>1, <2>2
<1>10. ASSUME NEW name \in Name, Declares(line, name) PROVE IsNamed(table', name)
  <2>1. CASE source[line].label = name
    <3>1. PICK i \in DOMAIN Labelled : Labelled[i].name = name
      BY <1>6, <2>1 DEF IsNamed
    <3> QED BY <1>7, <3>1 DEF IsNamed
  <2>2. CASE IsVariableAt(line, name)
    <3>1. name = new.name
      BY <1>5, <2>2 DEF IsVariableAt
    <3> QED BY <1>7, <3>1
  <2> QED BY <1>10, <2>1, <2>2 DEF Declares
<1> QED
  BY <1>2, <1>3, <1>7, <1>8, <1>9, <1>10, BlobsStay DEF Reads, IsOrg

-----------------------------------------------------------------------------
(* The second pass *)

\* What the first pass knew stays true when blobs only fill
LEMMA MeasuredStays ==
  ASSUME NEW h, Measured(h), UNCHANGED <<source, table>>, Reach' = Reach, pass' # "measure",
         DOMAIN blobs' = DOMAIN blobs, \A b \in DOMAIN blobs : blobs'[b].start = blobs[b].start,
         1 \in DOMAIN blobs, Len(source) \in Nat, Reach \in Nat
  PROVE  Measured(h)'
<1>1. \A j : /\ Kind(j)' = Kind(j)
             /\ IsOrg(j)' <=> IsOrg(j)
             /\ OrgBefore(j)' <=> OrgBefore(j)
             /\ \A name : Declares(j, name)' <=> Declares(j, name)
             /\ \A name : IsVariableAt(j, name)' <=> IsVariableAt(j, name)
  BY DEF Kind, IsOrg, OrgBefore, Declares, IsVariableAt
<1>2. BlobsAgree(h) /\ StepsAgree(h) /\ TablesAgree(h) /\ h \in Trace
  BY DEF Measured
<1>3. \A k \in 1 .. Reach : h[k].blob \in DOMAIN blobs
  BY <1>2 DEF BlobsAgree, BlobAt
<1>4. BlobsAgree(h)'
  <2>1. blobs'[1].start = 0
    BY <1>2 DEF BlobsAgree
  <2>2. \A k \in 1 .. Reach' : BlobAt(h, k)'
    BY <1>2 DEF BlobsAgree, BlobAt
  <2>3. \A b \in DOMAIN blobs' : b = 1 \/ MadeByOrg(h, b)'
    BY <1>1, <1>2 DEF BlobsAgree, MadeByOrg
  <2>4. \A k \in 1 .. Reach' : RoomAt(h, k)'
    BY <1>1, <1>2, <1>3 DEF BlobsAgree, RoomAt
  <2> QED BY <2>1, <2>2, <2>3, <2>4 DEF BlobsAgree
<1>5. StepsAgree(h)'
  <2>1. ASSUME NEW k \in 1 .. Reach - 1 PROVE StepAt(h, k)'
    <3>1. k + 1 \in 1 .. Reach
      OBVIOUS
    <3>2. blobs'[h[k + 1].blob].start = blobs[h[k + 1].blob].start
      BY <1>3, <3>1
    <3>3. StepAt(h, k)
      BY <1>2 DEF StepsAgree
    <3> QED BY <1>1, <3>2, <3>3 DEF StepAt
  <2> QED BY <2>1 DEF StepsAgree
<1>6. TablesAgree(h)'
  <2>1. ASSUME NEW s \in Entries' PROVE Declared(h, s)'
    <3>1. s \in Entries
      BY DEF Entries
    <3>2. Declared(h, s)
      BY <1>2, <3>1 DEF TablesAgree
    <3>3. s.line \in 1 .. Reach
      BY <3>2 DEF Declared
    <3>4. blobs'[h[s.line].blob].start = blobs[h[s.line].blob].start
      BY <1>3, <3>3
    <3> QED BY <1>1, <3>2, <3>4 DEF Declared
  <2>2. ASSUME NEW k \in 1 .. Reach PROVE KeptAt(h, k)' /\ NamedAt(h, k)'
    <3>1. KeptAt(h, k) /\ NamedAt(h, k)
      BY <1>2 DEF TablesAgree
    <3>2. KeptAt(h, k)'
      BY <3>1 DEF KeptAt
    <3>3. NamedAt(h, k)'
      BY <1>1, <3>1 DEF NamedAt
    <3> QED BY <3>2, <3>3
  <2> QED BY <2>1, <2>2 DEF TablesAgree
<1>7. h \in Trace'
  BY <1>2 DEF Trace
<1>8. NowAgrees(h)'
  BY DEF NowAgrees
<1> QED
  BY <1>2, <1>4, <1>5, <1>6, <1>7, <1>8 DEF Measured

\* No data stands between the last .org and the line, and there is one
Clean(k) ==
  /\ OrgBefore(k)
  /\ \A i \in 1 .. k - 1 : Kind(i) \in {"byte", "asciiz", "end"} =>
       \E j \in i + 1 .. k - 1 : IsOrg(j)

\* The lines whose places count
Coded(l) == source[l].label # NoName \/ Kind(l) = "code"

PlacedSoFar == line <= Len(source) + 1 /\ Len(placed) = line - 1

\* Where it is, it was in the first pass
BackAt(h) ==
  Clean(line) => currentBlob = h[line].blob /\ Len(blobs[currentBlob].data) = h[line].offset

\* The blobs of the sections to come are empty, since the one in use is not theirs
EmptyAhead(h) ==
  \A j \in line .. Len(source) : IsOrg(j) => blobs[h[j + 1].blob].data = <<>>

InUse(h) == OrgBefore(line) => currentBlob = 1 \/ \E j \in 1 .. line - 1 : IsOrg(j) /\ currentBlob = h[j + 1].blob

Homes(h) ==
  \A l \in 1 .. line - 1 : Coded(l) => placed[l].blob = h[l].blob /\ placed[l].offset = h[l].offset

Filled(h) == PlacedSoFar /\ BackAt(h) /\ EmptyAhead(h) /\ InUse(h) /\ Homes(h)

\* A line of the second pass, of any kind
Emits(bytes) ==
  /\ pass = "emit" /\ line \in DOMAIN source /\ Emit(bytes)
  /\ bytes \in Seq(Byte) /\ (bytes # <<>> => Kind(line) \in {"code", "byte", "asciiz"})
  /\ IsOrg(line) => currentBlob' = FirstBlobAt(body.start)
  /\ Kind(line) = "end" => currentBlob' = 1
  /\ ~ IsOrg(line) /\ Kind(line) # "end" => currentBlob' = currentBlob
  /\ Kind(line) = "code" =>
       /\ bytes = LineBytes(table, body.op, body.operand, address)
       /\ address' = (address + Len(bytes)) % WordCount
       /\ errors' = errors + Count(IsError(table, body.op, body.operand, address))
  /\ Kind(line) # "code" => address' = address /\ errors' = errors

\* A line that counts stands behind an .org and not behind data
LEMMA CodedClean ==
  ASSUME TypeOK, Disciplined, NEW l \in DOMAIN source, Coded(l) PROVE Clean(l)
<1>1. Len(source) \in Nat /\ DOMAIN source = 1 .. Len(source)
  BY SourceType
<1>2. OrgBefore(l)
  BY DEF Disciplined, Sectioned, IsPlaced, Coded, OrgBefore, IsOrg
<1>3. ASSUME NEW i \in 1 .. l - 1, Kind(i) \in {"byte", "asciiz", "end"}
      PROVE  \E j \in i + 1 .. l - 1 : IsOrg(j)
  <2>1. i \in DOMAIN source /\ i < l
    BY <1>1
  <2> QED BY <1>3, <2>1 DEF Disciplined, DataLast, Coded, IsOrg
<1> QED BY <1>2, <1>3 DEF Clean

\* Two sections are two blobs, and neither is the first
LEMMA SectionsDiffer ==
  ASSUME TypeOK, Disciplined, NEW h, Measured(h), pass # "measure",
         NEW j \in DOMAIN source, IsOrg(j)
  PROVE  /\ j + 1 \in 1 .. Reach /\ h[j + 1].blob \in DOMAIN blobs
         /\ blobs[h[j + 1].blob].start = source[j].body.start
         /\ \A b \in DOMAIN blobs : blobs[b].start = source[j].body.start => b = h[j + 1].blob
         /\ h[j + 1].blob # 1
         /\ \A i \in DOMAIN source : IsOrg(i) /\ h[i + 1].blob = h[j + 1].blob => i = j
<1> DEFINE L == Len(source)
<1>1. L \in Nat /\ DOMAIN source = 1 .. L /\ Reach = L + 1 /\ Reach - 1 = L
  BY SourceType DEF Reach
<1>2. BlobsAgree(h) /\ StepsAgree(h)
  BY DEF Measured
<1>3. \A i \in 1 .. L : IsOrg(i) => blobs[h[i + 1].blob].start = source[i].body.start
  BY <1>1, <1>2 DEF StepsAgree, StepAt
<1>4. ASSUME NEW i \in 1 .. L, IsOrg(i), source[i].body.start = source[j].body.start PROVE i = j
  <2>1. i \in 1 .. j - 1 \/ i = j \/ j \in 1 .. i - 1
    BY <1>1
  <2> QED BY <1>1, <1>4, <2>1 DEF Disciplined, Sectioned, IsOrg
<1>5. source[j].body.start # 0
  <2>1. source[j].body.start \in 256 .. 65535 - 3 * L
    BY <1>1 DEF Disciplined, Sectioned, IsOrg
  <2>2. 256 <= source[j].body.start
    BY <1>1, <2>1, SectionBounds
  <2> QED BY <2>2
<1>6. j + 1 \in 1 .. Reach
  BY <1>1
<1>7. h[j + 1].blob \in DOMAIN blobs
  BY <1>2, <1>6 DEF BlobsAgree, BlobAt
<1> HIDE DEF L
<1>8. ASSUME NEW b \in DOMAIN blobs, blobs[b].start = source[j].body.start PROVE b = h[j + 1].blob
  <2>1. b # 1
    BY <1>2, <1>5, <1>8 DEF BlobsAgree
  <2>2. PICK i \in 1 .. L : IsOrg(i) /\ b = h[i + 1].blob
    BY <1>1, <1>2, <2>1 DEF BlobsAgree, MadeByOrg
  <2>3. i = j
    BY <1>3, <1>4, <1>8, <2>2
  <2> QED BY <2>2, <2>3
<1>9. h[j + 1].blob # 1
  BY <1>1, <1>2, <1>3, <1>5 DEF BlobsAgree
<1>10. \A i \in DOMAIN source : IsOrg(i) /\ h[i + 1].blob = h[j + 1].blob => i = j
  BY <1>1, <1>3, <1>4
<1> QED
  BY <1>1, <1>3, <1>6, <1>7, <1>8, <1>9, <1>10

\* An instruction is as long as it was measured
LEMMA MeasuredLength ==
  ASSUME Inv, TableIsConsistent, Disciplined, NEW h, Measured(h), pass # "measure",
         NEW l \in DOMAIN source, Kind(l) = "code", NEW f \in Word
  PROVE  /\ h[l].offset \in Word /\ h[l].offset \in Nat
         /\ h[l + 1].offset = h[l].offset + LineLength(table, source[l].body.op, source[l].body.operand, f)
         /\ h[l + 1].offset < WordCount
<1> DEFINE L == Len(source)
           op == source[l].body.op
           o == source[l].body.operand
           t == h[l + 1].table
<1>1. TypeOK /\ table \in Seq(Symbol)
  BY DEF Inv, TypeOK
<1>2. L \in Nat /\ DOMAIN source = 1 .. L /\ Reach = L + 1 /\ l \in 1 .. L /\ source[l].body \in Body
  BY <1>1, SourceType DEF Reach
<1>3. BlobsAgree(h) /\ StepsAgree(h) /\ TablesAgree(h) /\ h \in Trace
  BY DEF Measured
<1>4. l \in 1 .. Reach /\ l + 1 \in 1 .. Reach /\ l \in 1 .. Reach - 1
  BY <1>2
<1>5. t \in Seq(Symbol) /\ h[l].offset \in Nat /\ KeptAt(h, l + 1) /\ NamedAt(h, l + 1)
  <2>1. h[l] \in [offset : Nat, blob : Nat, table : Seq(Symbol)] /\ h[l + 1] \in [offset : Nat, blob : Nat, table : Seq(Symbol)]
    BY <1>2, <1>3, <1>4 DEF Trace
  <2> QED BY <1>3, <1>4, <2>1 DEF TablesAgree
<1>6. OrgBefore(l) /\ 256 <= blobs[h[l].blob].start /\ blobs[h[l].blob].start + 3 * L < WordCount
  <2>1. OrgBefore(l)
    BY DEF Disciplined, Sectioned, IsPlaced, OrgBefore, IsOrg
  <2> QED BY <1>3, <1>4, <2>1 DEF BlobsAgree, RoomAt
<1>7. h[l].offset \in Word /\ h[l].offset + 3 < WordCount
  <2>1. h[l].offset <= 3 * (l - 1)
    BY <1>3, <1>4 DEF BlobsAgree, BlobAt
  <2>2. h[l].blob \in DOMAIN blobs
    BY <1>3, <1>4 DEF BlobsAgree, BlobAt
  <2>3. blobs[h[l].blob].start \in Word
    <3>1. blobs[h[l].blob] \in Blob
      BY <1>1, <2>2, BlobType, ElementOfSeq
    <3> QED BY <3>1 DEF Blob
  <2>4. WordCount \in Nat /\ blobs[h[l].blob].start \in Nat
    BY <2>3, WordBounds DEF WordCount
  <2>5. h[l].offset + 3 < WordCount
    <3> DEFINE off == h[l].offset
               start == blobs[h[l].blob].start
    <3>1. off \in Nat /\ off <= 3 * (l - 1) /\ start \in Nat /\ start + 3 * L < WordCount
      BY <1>5, <1>6, <2>1, <2>4
    <3>2. L \in Nat /\ l \in 1 .. L
      BY <1>2
    <3> HIDE DEF off, start, L
    <3>3. off + 3 < WordCount
      BY <2>4, <3>1, <3>2
    <3> QED BY <3>3 DEF off
  <2> QED BY <1>5, <2>4, <2>5 DEF Word
<1>8. o \in Operand
  BY <1>2, BodyType DEF Kind
<1>9. \A s \in Entries : s.type \in {"label", "variable"}
  <2>1. ASSUME NEW i \in DOMAIN table PROVE table[i].type \in {"label", "variable"}
    <3>1. table[i] \in Symbol
      BY <1>1, LenProperties, ElementOfSeq
    <3> QED BY <3>1 DEF Symbol, SymbolType
  <2> QED BY <2>1 DEF Entries
<1>10. Learns(t, table, op, o)
  <2> SUFFICES ASSUME NEW i \in DOMAIN o.terms, ~ IsValue(o.terms[i])
               PROVE  LET name == o.terms[i].name IN
                      /\ IsNamed(t, name) => IsNamed(table, name) /\ AddressOf(table, name) = AddressOf(t, name)
                      /\ IsNamed(table, name) /\ ~ IsNamed(t, name) => Alone(o) /\ AddressOf(table, name) > 255
                      /\ op \in Branches => Alone(o)
    BY DEF Learns
  <2> DEFINE name == o.terms[i].name
  <2>1. name \in NamesAt(l)
    BY DEF NamesAt
  <2>2. /\ op \in Branches => Alone(o)
        /\ \/ \E j \in 1 .. l : Declares(j, name)
           \/ Alone(o) /\ \A j \in DOMAIN source : ~ IsVariableAt(j, name)
           \/ \A j \in DOMAIN source : ~ Declares(j, name)
    BY <2>1, Zenon DEF Disciplined, DeclaredFirst, IsSum, Alone
  <2>3. name \in Name
    <3>1. o.terms[i] \in Token
      <4>1. o.terms \in Seq(Token) /\ \A k \in 1 .. Len(o.terms) : o.terms[k] \in Token
        BY <1>8, OperandType
      <4>2. i \in 1 .. Len(o.terms)
        BY <4>1, LenProperties
      <4> QED BY <4>1, <4>2
    <3> QED BY <3>1, Zenon DEF Token, IsValue
  <2> HIDE DEF name
  <2>4. IsNamed(t, name) => IsNamed(table, name) /\ AddressOf(table, name) = AddressOf(t, name)
    <3>1. \A k \in DOMAIN t : \E j \in DOMAIN table : table[j] = t[k]
      BY <1>5 DEF KeptAt
    <3>2. OneAddress(table)
      BY DEF TableIsConsistent
    <3> QED BY <1>1, <1>5, <3>1, <3>2, NamedTwice
  <2>5. ASSUME IsNamed(table, name), ~ IsNamed(t, name) PROVE Alone(o) /\ AddressOf(table, name) > 255
    <3>1. PICK k \in DOMAIN table : k = SymbolForString(table, name) /\ table[k].name = name
      BY <1>1, <2>5, SymbolFound
    <3>2. AddressOf(table, name) = table[k].address /\ table[k] \in Entries
      BY <3>1 DEF AddressOf, Entries
    <3>3. Declared(h, table[k])
      BY <1>3, <3>2 DEF TablesAgree
    <3> DEFINE d == table[k].line
    <3>4. /\ d \in 1 .. L
          /\ table[k].type = "label" => /\ source[d].label = name
                                        /\ AddressOf(table, name) = h[d].offset + blobs[h[d].blob].start
          /\ table[k].type = "variable" => IsVariableAt(d, name)
      BY <1>2, <3>1, <3>2, <3>3 DEF Declared
    <3> HIDE DEF d
    <3>5. Declares(d, name) /\ d \in DOMAIN source
      BY <1>2, <1>9, <3>2, <3>4 DEF Declares
    <3>6. ~ \E j \in 1 .. l : Declares(j, name)
      <4>1. \A j \in 1 .. l : j \in 1 .. (l + 1) - 1
        BY <1>2
      <4>2. ASSUME NEW j \in 1 .. l, Declares(j, name) PROVE FALSE
        <5>1. j \in 1 .. (l + 1) - 1
          BY <4>1
        <5>2. IsNamed(t, name)
          BY <1>5, <2>3, <4>2, <5>1 DEF NamedAt
        <5> QED BY <2>5, <5>2
      <4> QED BY <4>2
    <3>7. Alone(o) /\ \A j \in DOMAIN source : ~ IsVariableAt(j, name)
      BY <2>2, <3>5, <3>6
    <3>8. source[d].label = name /\ AddressOf(table, name) = h[d].offset + blobs[h[d].blob].start
      BY <1>9, <3>2, <3>4, <3>5, <3>7
    <3>9. OrgBefore(d)
      <4>1. source[d].label # NoName
        BY <2>3, <3>8, AssemblerAssumption
      <4> QED BY <3>5, <4>1 DEF Disciplined, Sectioned, IsPlaced, OrgBefore, IsOrg
    <3>10. d \in 1 .. Reach /\ d \in 1 .. L + 1
      BY <1>2, <3>4
    <3>11. 256 <= blobs[h[d].blob].start
      BY <1>3, <3>9, <3>10 DEF BlobsAgree, RoomAt
    <3>12. h[d].offset \in Nat
      <4>1. h[d] \in [offset : Nat, blob : Nat, table : Seq(Symbol)]
        BY <1>3, <3>10 DEF Trace
      <4> QED BY <4>1
    <3>13. blobs[h[d].blob].start \in Nat
      <4>1. h[d].blob \in DOMAIN blobs
        BY <1>3, <3>10 DEF BlobsAgree, BlobAt
      <4>2. blobs[h[d].blob] \in Blob
        BY <1>1, <4>1, BlobType, ElementOfSeq
      <4>3. blobs[h[d].blob].start \in Word
        BY <4>2 DEF Blob
      <4> QED BY <4>3, WordBounds
    <3>14. AddressOf(table, name) > 255
      BY <3>8, <3>11, <3>12, <3>13
    <3> QED BY <3>7, <3>14
  <2> QED BY <2>2, <2>4, <2>5 DEF name
<1>11. LineLength(t, op, o, h[l].offset) = LineLength(table, op, o, f)
  BY <1>1, <1>5, <1>7, <1>8, <1>10, LengthStable
<1>12. h[l + 1].offset = h[l].offset + LineLength(t, op, o, h[l].offset)
  BY <1>3, <1>4 DEF StepsAgree, StepAt
<1>13. LineLength(table, op, o, f) \in 1 .. 3
  BY <1>1, <1>8, EncodedType
<1> HIDE DEF op, o, t
<1> DEFINE n == LineLength(table, op, o, f)
<1>14. h[l + 1].offset = h[l].offset + n /\ n \in 1 .. 3
  BY <1>11, <1>12, <1>13
<1> HIDE DEF n
<1>15. h[l + 1].offset < WordCount
  <2>1. WordCount \in Nat
    BY DEF WordCount
  <2> QED BY <1>5, <1>7, <1>14, <2>1
<1> QED
  BY <1>5, <1>7, <1>14, <1>15 DEF n, op, o

\* What an emitted line does to the blobs
LEMMA EmitsBlobs ==
  ASSUME TypeOK, NEW bytes, Emits(bytes)
  PROVE  /\ DOMAIN blobs' = DOMAIN blobs /\ 1 \in DOMAIN blobs
         /\ \A b \in DOMAIN blobs : blobs'[b].start = blobs[b].start
         /\ \A b \in DOMAIN blobs : b # currentBlob => blobs'[b].data = blobs[b].data
         /\ blobs'[currentBlob].data = blobs[currentBlob].data \o bytes
         /\ bytes = <<>> => \A b \in DOMAIN blobs : blobs'[b].data = blobs[b].data
         /\ Len(blobs'[currentBlob].data) = Len(blobs[currentBlob].data) + Len(bytes)
         /\ currentBlob \in DOMAIN blobs /\ Len(blobs[currentBlob].data) \in Nat /\ Len(bytes) \in Nat
<1> DEFINE data == blobs[currentBlob].data
           blob == [blobs[currentBlob] EXCEPT !.data = @ \o bytes]
<1>1. blobs' = [blobs EXCEPT ![currentBlob].data = @ \o bytes] /\ bytes \in Seq(Byte)
  BY DEF Emits, Emit
<1>2. DOMAIN blobs' = DOMAIN blobs /\ \A b \in DOMAIN blobs : blobs'[b].start = blobs[b].start
  BY <1>1, FilledType
<1>3. /\ 1 \in DOMAIN blobs /\ currentBlob \in DOMAIN blobs /\ blobs[currentBlob] \in Blob
      /\ data \in Seq(Byte) /\ blobs \in Seq(Blob)
  BY BlobType, ElementOfSeq
<1>4. blobs' = [blobs EXCEPT ![currentBlob] = blob]
  BY <1>1
<1>5. blob.data = data \o bytes
  BY <1>3 DEF Blob
<1> HIDE DEF blob
<1>6. /\ \A b \in DOMAIN blobs : b # currentBlob => blobs'[b] = blobs[b]
      /\ blobs'[currentBlob] = blob
  BY <1>3, <1>4
<1>7. /\ Len(data \o bytes) = Len(data) + Len(bytes) /\ Len(data) \in Nat /\ Len(bytes) \in Nat
      /\ bytes = <<>> => data \o bytes = data
  BY <1>1, <1>3, ConcatProperties, LenProperties
<1> QED
  BY <1>2, <1>3, <1>5, <1>6, <1>7

\* Without an .org, what is clean behind a line was clean before it
LEMMA CleanBack ==
  ASSUME TypeOK, line \in DOMAIN source, ~ IsOrg(line), Clean(line + 1) PROVE Clean(line)
<1>1. line \in Nat /\ (line + 1) - 1 = line
  BY DEF TypeOK
<1>2. OrgBefore(line)
  <2>1. PICK j \in 1 .. (line + 1) - 1 : IsOrg(j)
    BY DEF Clean, OrgBefore
  <2>2. j # line /\ j \in 1 .. line
    BY <1>1, <2>1
  <2>3. j \in 1 .. line - 1
    BY <1>1, <2>2
  <2> QED BY <2>1, <2>3 DEF OrgBefore
<1>3. ASSUME NEW i \in 1 .. line - 1, Kind(i) \in {"byte", "asciiz", "end"}
      PROVE  \E j \in i + 1 .. line - 1 : IsOrg(j)
  <2>1. i \in 1 .. (line + 1) - 1
    BY <1>1
  <2>2. PICK j \in i + 1 .. (line + 1) - 1 : IsOrg(j)
    BY <1>3, <2>1, Zenon DEF Clean
  <2>3. j # line
    BY <2>2
  <2>4. j \in i + 1 .. line - 1
    BY <1>1, <2>3
  <2> QED BY <2>2, <2>4
<1> QED
  BY <1>2, <1>3 DEF Clean

\* A line of the second pass leads to where the first pass was
LEMMA EmitsFilled ==
  ASSUME Inv, Inv', TableIsConsistent, Disciplined, NEW h, Measured(h), Filled(h),
         NEW bytes, Emits(bytes)
  PROVE  Measured(h)' /\ Filled(h)'
<1> DEFINE L == Len(source)
<1>1. TypeOK /\ TypeOK'
  BY DEF Inv
<1>2. /\ pass = "emit" /\ pass' = "emit" /\ line' = line + 1 /\ source' = source /\ table' = table
      /\ line \in DOMAIN source /\ bytes \in Seq(Byte)
      /\ placed' = Append(placed, [blob |-> currentBlob, offset |-> Len(blobs[currentBlob].data),
                                   bytes |-> bytes])
  BY DEF Emits, Emit
<1>3. L \in Nat /\ DOMAIN source = 1 .. L /\ line \in 1 .. L /\ line \in Nat /\ Reach = L + 1 /\ Reach' = L + 1
  BY <1>1, <1>2, SourceType DEF Reach
<1>4. /\ DOMAIN blobs' = DOMAIN blobs /\ 1 \in DOMAIN blobs
      /\ \A b \in DOMAIN blobs : blobs'[b].start = blobs[b].start
      /\ \A b \in DOMAIN blobs : b # currentBlob => blobs'[b].data = blobs[b].data
      /\ bytes = <<>> => \A b \in DOMAIN blobs : blobs'[b].data = blobs[b].data
      /\ Len(blobs'[currentBlob].data) = Len(blobs[currentBlob].data) + Len(bytes)
      /\ currentBlob \in DOMAIN blobs /\ Len(blobs[currentBlob].data) \in Nat /\ Len(bytes) \in Nat
  BY <1>1, EmitsBlobs
<1>5. Measured(h)'
  BY <1>2, <1>3, <1>4, MeasuredStays
<1>6. \A j : /\ Kind(j)' = Kind(j)
             /\ IsOrg(j)' <=> IsOrg(j)
             /\ OrgBefore(j)' <=> OrgBefore(j)
             /\ Clean(j)' <=> Clean(j)
             /\ Coded(j)' <=> Coded(j)
  BY <1>2 DEF Kind, IsOrg, OrgBefore, Clean, Coded
<1>7. PlacedSoFar /\ BackAt(h) /\ EmptyAhead(h) /\ InUse(h) /\ Homes(h)
  BY DEF Filled
<1>8. /\ Len(placed) = line - 1 /\ Len(placed') = line
      /\ placed'[line] = [blob |-> currentBlob, offset |-> Len(blobs[currentBlob].data), bytes |-> bytes]
      /\ \A l \in 1 .. line - 1 : placed'[l] = placed[l]
  <2> DEFINE Places == [blob : Nat, offset : Nat, bytes : Seq(Byte)]
             new == [blob |-> currentBlob, offset |-> Len(blobs[currentBlob].data), bytes |-> bytes]
  <2>1. placed \in Seq(Places) /\ Len(placed) = line - 1
    BY <1>1, <1>7 DEF TypeOK, PlacedSoFar
  <2>2. placed' = Append(placed, new)
    BY <1>2
  <2> HIDE DEF Places, new
  <2>3. Len(placed') = Len(placed) + 1 /\ placed'[Len(placed) + 1] = new
        /\ \A l \in 1 .. Len(placed) : placed'[l] = placed[l]
    BY <2>1, <2>2, AppendProperties
  <2>4. line - 1 + 1 = line
    BY <1>3
  <2> QED BY <2>1, <2>3, <2>4 DEF new
<1>9. /\ (line + 1) - 1 = line /\ line' - 1 = line
      /\ \A j \in 1 .. line : j \in 1 .. line - 1 \/ j = line
  BY <1>2, <1>3
<1>10. OrgBefore(line + 1) => OrgBefore(line) \/ IsOrg(line)
  <2>1. OrgBefore(line + 1) <=> \E j \in 1 .. line : IsOrg(j)
    <3>1. OrgBefore(line + 1) <=> \E j \in 1 .. (line + 1) - 1 : IsOrg(j)
      BY DEF OrgBefore
    <3> QED BY <1>9, <3>1
  <2> QED BY <1>9, <2>1 DEF OrgBefore
<1>11. /\ IsOrg(line) => currentBlob' = FirstBlobAt(body.start)
       /\ Kind(line) = "end" => currentBlob' = 1
       /\ ~ IsOrg(line) /\ Kind(line) # "end" => currentBlob' = currentBlob
       /\ Kind(line) = "code" => bytes = LineBytes(table, body.op, body.operand, address)
       /\ bytes # <<>> => Kind(line) \in {"code", "byte", "asciiz"}
  BY DEF Emits
<1>12. IsOrg(line) => currentBlob' = h[line + 1].blob
  <2> SUFFICES ASSUME IsOrg(line) PROVE currentBlob' = h[line + 1].blob
    OBVIOUS
  <2> DEFINE start == source[line].body.start
  <2>1. /\ h[line + 1].blob \in DOMAIN blobs /\ blobs[h[line + 1].blob].start = start
        /\ \A b \in DOMAIN blobs : blobs[b].start = start => b = h[line + 1].blob
    BY <1>1, <1>2, SectionsDiffer
  <2>2. FirstBlobAt(start) \in DOMAIN blobs /\ blobs[FirstBlobAt(start)].start = start
    BY <1>1, <2>1, FirstBlobFound
  <2> QED BY <1>11, <2>1, <2>2 DEF body
<1>13. StepAt(h, line)
  BY <1>3 DEF Measured, StepsAgree
<1>14. PlacedSoFar'
  BY <1>2, <1>3, <1>8 DEF PlacedSoFar
<1>15. BackAt(h)'
  <2> SUFFICES ASSUME Clean(line + 1)
               PROVE  currentBlob' = h[line + 1].blob /\ Len(blobs'[currentBlob'].data) = h[line + 1].offset
    BY <1>2, <1>6 DEF BackAt
  <2>1. CASE IsOrg(line)
    <3>1. blobs[h[line + 1].blob].data = <<>> /\ h[line + 1].blob \in DOMAIN blobs
      <4>1. line \in line .. L
        BY <1>3
      <4> QED BY <1>1, <1>2, <1>7, <2>1, <4>1, SectionsDiffer DEF EmptyAhead
    <3>2. bytes = <<>>
      BY <1>11, <2>1 DEF IsOrg
    <3>3. blobs'[currentBlob'].data = <<>>
      BY <1>4, <1>12, <2>1, <3>1, <3>2
    <3>4. h[line + 1].offset = 0
      BY <1>13, <2>1 DEF StepAt
    <3> QED BY <1>12, <2>1, <3>3, <3>4
  <2>2. CASE ~ IsOrg(line)
    <3>1. Kind(line) \notin {"byte", "asciiz", "end"}
      <4>1. line \in 1 .. (line + 1) - 1 /\ \A j \in line + 1 .. (line + 1) - 1 : FALSE
        BY <1>3
      <4> QED BY <4>1 DEF Clean
    <3>2. Clean(line)
      BY <1>1, <1>2, <2>2, CleanBack
    <3>3. currentBlob = h[line].blob /\ Len(blobs[currentBlob].data) = h[line].offset
      BY <1>7, <3>2 DEF BackAt
    <3>4. currentBlob' = currentBlob /\ h[line + 1].blob = h[line].blob
      BY <1>11, <1>13, <2>2, <3>1 DEF StepAt
    <3>5. h[line + 1].offset = h[line].offset + Len(bytes)
      <4>1. CASE Kind(line) = "code"
        <5>1. address \in Word /\ table \in Seq(Symbol)
          BY <1>1 DEF TypeOK
        <5>2. body.operand \in Operand
          BY <1>1, <1>2, <1>3, <4>1, SourceType, BodyType DEF Kind, body
        <5>3. Len(bytes) = LineLength(table, body.op, body.operand, address)
          BY <1>11, <4>1, <5>1, <5>2, LineBytesType
        <5>4. h[line + 1].offset = h[line].offset + LineLength(table, source[line].body.op, source[line].body.operand, address)
          BY <1>2, <4>1, <5>1, MeasuredLength
        <5> QED BY <5>3, <5>4 DEF body
      <4>2. CASE Kind(line) # "code"
        <5>1. bytes = <<>>
          BY <1>11, <3>1, <4>2
        <5>2. h[line + 1].offset = h[line].offset /\ h[line].offset \in Nat
          BY <1>4, <1>13, <2>2, <3>3, <4>2 DEF StepAt
        <5> QED BY <5>1, <5>2
      <4> QED BY <4>1, <4>2
    <3> QED BY <1>4, <3>3, <3>4, <3>5
  <2> QED BY <2>1, <2>2
<1>16. EmptyAhead(h)'
  <2> SUFFICES ASSUME NEW j \in line + 1 .. L, IsOrg(j) PROVE blobs'[h[j + 1].blob].data = <<>>
    BY <1>2, <1>6 DEF EmptyAhead
  <2>1. j \in DOMAIN source /\ j \in line .. L /\ j # line /\ j \notin 1 .. line - 1
    BY <1>3
  <2>2. /\ blobs[h[j + 1].blob].data = <<>> /\ h[j + 1].blob \in DOMAIN blobs
        /\ h[j + 1].blob # 1
        /\ \A i \in DOMAIN source : IsOrg(i) /\ h[i + 1].blob = h[j + 1].blob => i = j
    BY <1>1, <1>2, <1>7, <2>1, SectionsDiffer DEF EmptyAhead
  <2>3. CASE bytes = <<>>
    BY <1>4, <2>2, <2>3
  <2>4. CASE bytes # <<>>
    <3>1. OrgBefore(line)
      <4>1. IsPlaced(line)
        BY <1>11, <2>4 DEF IsPlaced
      <4> QED BY <1>2, <4>1 DEF Disciplined, Sectioned, OrgBefore, IsOrg
    <3>2. currentBlob # h[j + 1].blob
      <4>1. CASE currentBlob = 1
        BY <2>2, <4>1
      <4>2. ASSUME NEW i \in 1 .. line - 1, IsOrg(i), currentBlob = h[i + 1].blob
            PROVE  currentBlob # h[j + 1].blob
        <5>1. i \in DOMAIN source /\ i # j
          BY <1>3, <2>1
        <5> QED BY <2>2, <4>2, <5>1
      <4> QED BY <1>7, <3>1, <4>1, <4>2 DEF InUse
    <3> QED BY <1>4, <2>2, <3>2
  <2> QED BY <2>3, <2>4
<1>17. InUse(h)'
  <2> SUFFICES ASSUME OrgBefore(line + 1)
               PROVE  currentBlob' = 1 \/ \E j \in 1 .. line : IsOrg(j) /\ currentBlob' = h[j + 1].blob
    <3>1. InUse(h)' <=> ((\E j \in 1 .. line' - 1 : IsOrg(j)') =>
            currentBlob' = 1 \/ \E j \in 1 .. line' - 1 : IsOrg(j)' /\ currentBlob' = h[j + 1].blob)
      BY DEF InUse, OrgBefore
    <3>2. (\E j \in 1 .. line : IsOrg(j)) => OrgBefore(line + 1)
      BY <1>9 DEF OrgBefore
    <3> QED BY <1>2, <1>6, <1>9, <3>1, <3>2
  <2>1. line \in 1 .. line /\ \A j \in 1 .. line - 1 : j \in 1 .. line
    BY <1>3
  <2>2. CASE IsOrg(line)
    BY <1>12, <2>1, <2>2
  <2>3. CASE Kind(line) = "end"
    BY <1>11, <2>3
  <2>4. CASE ~ IsOrg(line) /\ Kind(line) # "end"
    BY <1>7, <1>10, <1>11, <2>1, <2>4 DEF InUse
  <2> QED BY <2>2, <2>3, <2>4
<1>18. Homes(h)'
  <2> SUFFICES ASSUME NEW l \in 1 .. line, Coded(l)
               PROVE  placed'[l].blob = h[l].blob /\ placed'[l].offset = h[l].offset
    <3>1. Homes(h)' <=> \A l \in 1 .. line' - 1 : Coded(l)' =>
            placed'[l].blob = h[l].blob /\ placed'[l].offset = h[l].offset
      BY DEF Homes
    <3> QED BY <1>2, <1>6, <1>9, <3>1
  <2>1. CASE l \in 1 .. line - 1
    BY <1>7, <1>8, <2>1 DEF Homes
  <2>2. CASE l = line
    <3>1. Clean(line)
      BY <1>1, <1>2, <2>2, CodedClean
    <3>2. currentBlob = h[line].blob /\ Len(blobs[currentBlob].data) = h[line].offset
      BY <1>7, <3>1 DEF BackAt
    <3> QED BY <1>8, <2>2, <3>2
  <2> QED BY <1>9, <2>1, <2>2
<1> QED
  BY <1>5, <1>14, <1>15, <1>16, <1>17, <1>18 DEF Filled

LEMMA LineEmits ==
  ASSUME TypeOK, EmitOrg \/ EmitEnd \/ EmitData \/ EmitCode \/ EmitNothing
  PROVE  \E bytes : Emits(bytes)
<1>1. ASSUME NEW kinds, At("emit", kinds)
      PROVE  /\ pass = "emit" /\ line \in DOMAIN source /\ Kind(line) \in kinds
             /\ body \in Body /\ body.kind = Kind(line) /\ table \in Seq(Symbol) /\ address \in Word
  <2>1. pass = "emit" /\ line <= Len(source) /\ source[line].body.kind \in kinds
    BY <1>1 DEF At
  <2> QED BY <2>1, LineType DEF TypeOK, Kind, body
<1>2. CASE EmitOrg
  <2>1. At("emit", {"org"}) /\ Emit(<<>>) /\ currentBlob' = FirstBlobAt(body.start) /\ UNCHANGED <<address, errors>>
    BY <1>2 DEF EmitOrg
  <2>2. pass = "emit" /\ line \in DOMAIN source /\ Kind(line) = "org"
    BY <1>1, <2>1
  <2>3. Emits(<<>>)
    BY <2>1, <2>2, EmptyBytes DEF Emits, IsOrg
  <2> QED BY <2>3
<1>3. CASE EmitEnd
  <2>1. At("emit", {"end"}) /\ Emit(<<>>) /\ currentBlob' = 1 /\ UNCHANGED <<address, errors>>
    BY <1>3 DEF EmitEnd
  <2>2. pass = "emit" /\ line \in DOMAIN source /\ Kind(line) = "end"
    BY <1>1, <2>1
  <2>3. Emits(<<>>)
    BY <2>1, <2>2, EmptyBytes DEF Emits, IsOrg
  <2> QED BY <2>3
<1>4. CASE EmitData
  <2>1. At("emit", {"byte", "asciiz"}) /\ Emit(DataOf(body)) /\ UNCHANGED <<address, currentBlob, errors>>
    BY <1>4 DEF EmitData
  <2>2. /\ pass = "emit" /\ line \in DOMAIN source /\ Kind(line) \in {"byte", "asciiz"}
        /\ body \in Body /\ body.kind = Kind(line)
    BY <1>1, <2>1
  <2>3. DataOf(body) \in Seq(Byte)
    BY <2>2, DataOfType
  <2>4. Emits(DataOf(body))
    BY <2>1, <2>2, <2>3 DEF Emits, IsOrg
  <2> QED BY <2>4
<1>5. CASE EmitCode
  <2> DEFINE bytes == LineBytes(table, body.op, body.operand, address)
  <2>1. /\ At("emit", {"code"}) /\ Emit(bytes) /\ currentBlob' = currentBlob
        /\ address' = (address + Len(bytes)) % WordCount
        /\ errors' = errors + Count(IsError(table, body.op, body.operand, address))
    BY <1>5 DEF EmitCode
  <2>2. /\ pass = "emit" /\ line \in DOMAIN source /\ Kind(line) = "code"
        /\ body \in Body /\ body.kind = "code" /\ table \in Seq(Symbol) /\ address \in Word
    BY <1>1, <2>1
  <2>3. bytes \in Seq(Byte)
    BY <2>2, BodyType, LineBytesType
  <2>4. Emits(bytes)
    BY <2>1, <2>2, <2>3 DEF Emits, IsOrg
  <2> QED BY <2>4
<1>6. CASE EmitNothing
  <2>1. At("emit", {"blank", "variable"}) /\ Emit(<<>>) /\ UNCHANGED <<address, currentBlob, errors>>
    BY <1>6 DEF EmitNothing
  <2>2. pass = "emit" /\ line \in DOMAIN source /\ Kind(line) \in {"blank", "variable"}
    BY <1>1, <2>1
  <2>3. Emits(<<>>)
    BY <2>1, <2>2, EmptyBytes DEF Emits, IsOrg
  <2> QED BY <2>3
<1> QED
  BY <1>2, <1>3, <1>4, <1>5, <1>6

\* Under OnePage the bytes that are counted are those behind the one .org
Followed(h) ==
  OnePage =>
    /\ ~ OrgBefore(line) => address = 0
    /\ Clean(line) => address = h[line].offset
    /\ \A l \in 1 .. line - 1 : Kind(l) = "code" =>
         /\ placed[l].bytes = LineBytes(table, source[l].body.op, source[l].body.operand, h[l].offset)
         /\ errors = 0 => ~ IsError(table, source[l].body.op, source[l].body.operand, h[l].offset)

LEMMA EmitsFollowed ==
  ASSUME Inv, Inv', TableIsConsistent, Disciplined, NEW h, Measured(h), Filled(h), Followed(h),
         NEW bytes, Emits(bytes)
  PROVE  Followed(h)'
<1> DEFINE L == Len(source)
           Bytes_(l, f) == LineBytes(table, source[l].body.op, source[l].body.operand, f)
           Error(l, f) == IsError(table, source[l].body.op, source[l].body.operand, f)
<1>1. TypeOK /\ TypeOK'
  BY DEF Inv
<1>2. /\ pass = "emit" /\ pass' = "emit" /\ line' = line + 1 /\ source' = source /\ table' = table
      /\ line \in DOMAIN source /\ bytes \in Seq(Byte)
      /\ placed' = Append(placed, [blob |-> currentBlob, offset |-> Len(blobs[currentBlob].data),
                                   bytes |-> bytes])
  BY DEF Emits, Emit
<1>3. L \in Nat /\ DOMAIN source = 1 .. L /\ line \in 1 .. L /\ line \in Nat
  BY <1>1, <1>2, SourceType
<1>4. OnePage' <=> OnePage
  BY <1>2 DEF OnePage, Kind
<1> SUFFICES ASSUME OnePage PROVE Followed(h)'
  BY <1>4 DEF Followed
<1>5. /\ ~ OrgBefore(line) => address = 0
      /\ Clean(line) => address = h[line].offset
      /\ \A l \in 1 .. line - 1 : Kind(l) = "code" =>
           placed[l].bytes = Bytes_(l, h[l].offset) /\ (errors = 0 => ~ Error(l, h[l].offset))
  BY DEF Followed
<1>6. /\ (line + 1) - 1 = line /\ line' - 1 = line
      /\ \A j \in 1 .. line : j \in 1 .. line - 1 \/ j = line
      /\ \A j \in 1 .. line - 1 : j \in 1 .. line
  BY <1>2, <1>3
<1>7. /\ placed'[line].bytes = bytes
      /\ \A l \in 1 .. line - 1 : placed'[l] = placed[l]
  <2> DEFINE Places == [blob : Nat, offset : Nat, bytes : Seq(Byte)]
             new == [blob |-> currentBlob, offset |-> Len(blobs[currentBlob].data), bytes |-> bytes]
  <2>1. placed \in Seq(Places) /\ Len(placed) = line - 1
    BY <1>1 DEF TypeOK, Filled, PlacedSoFar
  <2>2. placed' = Append(placed, new) /\ new.bytes = bytes
    BY <1>2
  <2> HIDE DEF Places, new
  <2>3. Len(placed') = Len(placed) + 1 /\ placed'[Len(placed) + 1] = new
        /\ \A l \in 1 .. Len(placed) : placed'[l] = placed[l]
    BY <2>1, <2>2, AppendProperties
  <2>4. line - 1 + 1 = line
    BY <1>3
  <2> QED BY <2>1, <2>2, <2>3, <2>4
<1>8. /\ Kind(line) = "code" =>
           /\ bytes = Bytes_(line, address)
           /\ address' = (address + Len(bytes)) % WordCount
           /\ errors' = errors + Count(Error(line, address))
      /\ Kind(line) # "code" => address' = address /\ errors' = errors
  BY DEF Emits, body
<1>9. StepAt(h, line)
  <2>1. Reach - 1 = L
    BY <1>2, <1>3 DEF Reach
  <2> QED BY <1>3, <2>1 DEF Measured, StepsAgree
<1> HIDE DEF Bytes_, Error
<1>10. \A j : IsOrg(j)' <=> IsOrg(j)
  BY <1>2 DEF IsOrg, Kind
<1>11. Kind(line) = "code" => address = h[line].offset /\ Clean(line)
  BY <1>1, <1>2, <1>5, CodedClean DEF Coded
<1>12. ASSUME ~ OrgBefore(line + 1) PROVE address' = 0
  <2>1. \A j \in 1 .. line : ~ IsOrg(j)
    BY <1>6, <1>12 DEF OrgBefore
  <2>2. ~ OrgBefore(line)
    BY <1>6, <2>1 DEF OrgBefore
  <2>3. Kind(line) # "code"
    BY <1>11, <2>2 DEF Clean
  <2> QED BY <1>5, <1>8, <2>2, <2>3
<1>13. ASSUME Clean(line + 1) PROVE address' = h[line + 1].offset
  <2>1. CASE IsOrg(line)
    <3>1. ~ OrgBefore(line)
      <4> SUFFICES ASSUME NEW j \in 1 .. line - 1, IsOrg(j) PROVE FALSE
        BY DEF OrgBefore
      <4>1. j \in DOMAIN source /\ j # line
        BY <1>3
      <4> QED BY <1>2, <2>1, <4>1 DEF OnePage, IsOrg
    <3>2. h[line + 1].offset = 0
      BY <1>9, <2>1 DEF StepAt
    <3> QED BY <1>5, <1>8, <2>1, <3>1, <3>2 DEF IsOrg
  <2>2. CASE Kind(line) = "code"
    <3>1. address = h[line].offset /\ address \in Word /\ table \in Seq(Symbol)
      BY <1>1, <1>11, <2>2 DEF TypeOK
    <3>2. body.operand \in Operand
      BY <1>1, <1>2, <1>3, <2>2, SourceType, BodyType DEF Kind, body
    <3>3. Len(bytes) = LineLength(table, body.op, body.operand, address)
      BY <1>8, <2>2, <3>1, <3>2, LineBytesType DEF Bytes_, body
    <3>4. /\ h[line + 1].offset = h[line].offset + LineLength(table, source[line].body.op, source[line].body.operand, address)
          /\ h[line + 1].offset < WordCount
      BY <1>2, <2>2, <3>1, MeasuredLength
    <3>5. address + Len(bytes) = h[line + 1].offset
      BY <3>1, <3>3, <3>4 DEF body
    <3>6. h[line + 1].offset \in Nat
      <4>1. Len(bytes) \in Nat /\ address \in Nat
        BY <1>2, <3>1, LenProperties, WordBounds
      <4> QED BY <3>5, <4>1
    <3> QED BY <1>8, <2>2, <3>4, <3>5, <3>6, NoWrap
  <2>3. CASE ~ IsOrg(line) /\ Kind(line) # "code"
    <3>1. Kind(line) \notin {"byte", "asciiz", "end"}
      <4>1. line \in 1 .. (line + 1) - 1 /\ \A j \in line + 1 .. (line + 1) - 1 : FALSE
        BY <1>3
      <4> QED BY <1>13, <4>1 DEF Clean
    <3>2. Clean(line)
      BY <1>1, <1>3, <1>13, <2>3, CleanBack
    <3> QED BY <1>5, <1>8, <1>9, <2>3, <3>2 DEF StepAt
  <2> QED BY <2>1, <2>2, <2>3 DEF IsOrg
<1>14. ASSUME NEW l \in 1 .. line, Kind(l) = "code"
       PROVE  /\ placed'[l].bytes = Bytes_(l, h[l].offset)
              /\ errors' = 0 => ~ Error(l, h[l].offset)
  <2>1. errors \in Nat /\ \A condition : Count(condition) \in Nat
    BY <1>1, CountType DEF TypeOK
  <2>2. errors' = 0 => errors = 0
    BY <1>8, <2>1
  <2>3. CASE l \in 1 .. line - 1
    BY <1>5, <1>7, <1>14, <2>2, <2>3
  <2>4. CASE l = line
    <3>1. errors' = 0 => Count(Error(line, address)) = 0
      <4>1. Count(Error(line, address)) \in Nat
        BY CountType
      <4> QED BY <1>8, <1>14, <2>1, <2>4, <4>1
    <3>2. errors' = 0 => ~ Error(line, address)
      BY <3>1 DEF Count
    <3> QED BY <1>7, <1>8, <1>11, <1>14, <2>4, <3>2
  <2> QED BY <1>6, <2>3, <2>4
<1>15. (~ OrgBefore(line))' => address' = 0
  <2>1. OrgBefore(line)' <=> \E j \in 1 .. line' - 1 : IsOrg(j)'
    BY DEF OrgBefore
  <2>2. OrgBefore(line)' <=> OrgBefore(line + 1)
    BY <1>6, <1>10, <2>1 DEF OrgBefore
  <2> QED BY <1>12, <2>2
<1>16. Clean(line)' => address' = h[line'].offset
  <2>1. \A j : Clean(j)' <=> Clean(j)
    BY <1>2 DEF Clean, OrgBefore, IsOrg, Kind
  <2>2. Clean(line)' <=> Clean(line + 1)
    BY <1>2 DEF Clean, OrgBefore, IsOrg, Kind
  <2> QED BY <1>2, <1>13, <2>2
<1>17. \A l \in 1 .. line' - 1 : Kind(l)' = "code" =>
         /\ placed'[l].bytes = LineBytes(table', source'[l].body.op, source'[l].body.operand, h[l].offset)
         /\ errors' = 0 => ~ IsError(table', source'[l].body.op, source'[l].body.operand, h[l].offset)
  BY <1>2, <1>6, <1>14 DEF Bytes_, Error, Kind
<1> QED
  BY <1>15, <1>16, <1>17 DEF Followed

\* The trace of the first pass, and the second pass back on it
Traced ==
  Disciplined =>
    \E h : Measured(h) /\ (pass # "measure" => Filled(h) /\ Followed(h))

LEMMA InitTraced == Init => Traced
<1> SUFFICES ASSUME Init, Disciplined PROVE \E h : Measured(h) /\ pass = "measure"
  BY DEF Traced
<1> DEFINE now == [offset |-> 0, blob |-> 1, table |-> <<>>]
           L == Len(source)
           Records == [offset : Nat, blob : Nat, table : Seq(Symbol)]
<1>1. Inv
  BY InitInv
<1>2. TypeOK /\ L \in Nat /\ DOMAIN source = 1 .. L
  BY <1>1, SourceType DEF Inv
<1>3. /\ pass = "measure" /\ line = 1 /\ address = 0 /\ currentBlob = 1 /\ table = <<>> /\ placed = <<>>
      /\ blobs = <<[start |-> 0, data |-> <<>>]>>
  BY DEF Init
<1>4. now \in Records /\ now.offset = 0 /\ now.blob = 1 /\ now.table = <<>>
  <2>1. <<>> \in Seq(Symbol) /\ 0 \in Nat /\ 1 \in Nat
    OBVIOUS
  <2> QED BY <2>1
<1>5. DOMAIN blobs = {1} /\ Len(blobs) = 1 /\ blobs[1] = [start |-> 0, data |-> <<>>]
  BY <1>3
<1> HIDE DEF now, L, Records
<1>6. PICK h : h = [k \in 1 .. L + 1 |-> now]
  OBVIOUS
<1>7. h \in [1 .. L + 1 -> Records] /\ h[1] = now
  BY <1>2, <1>4, <1>6
<1>8. Reach = 1 /\ 1 .. Reach - 1 = {} /\ \A k \in 1 .. Reach : k = 1
  BY <1>3 DEF Reach
<1>9. BlobsAgree(h)
  <2>1. blobs[1].start = 0
    BY <1>5
  <2>2. BlobAt(h, 1)
    BY <1>4, <1>5, <1>7 DEF BlobAt
  <2>3. ~ OrgBefore(1)
    BY DEF OrgBefore
  <2> QED BY <1>5, <1>8, <2>1, <2>2, <2>3 DEF BlobsAgree, RoomAt
<1>10. StepsAgree(h)
  BY <1>8 DEF StepsAgree
<1>11. TablesAgree(h)
  <2>1. Entries = {}
    BY <1>3 DEF Entries
  <2>2. KeptAt(h, 1)
    BY <1>4, <1>7 DEF KeptAt
  <2>3. NamedAt(h, 1)
    BY DEF NamedAt
  <2> QED BY <1>8, <2>1, <2>2, <2>3 DEF TablesAgree
<1>12. NowAgrees(h)
  BY <1>2, <1>3, <1>5, <1>7 DEF NowAgrees, now, L
<1>13. h \in Trace
  BY <1>7 DEF Trace, L, Records
<1> QED
  BY <1>3, <1>9, <1>10, <1>11, <1>12, <1>13 DEF Measured

\* The second pass starts where the first did
LEMMA RewindTraced ==
  ASSUME Inv, NEW h, Measured(h), Rewind
  PROVE  Measured(h)' /\ Filled(h)' /\ Followed(h)'
<1> DEFINE L == Len(source)
<1>1. TypeOK /\ L \in Nat /\ DOMAIN source = 1 .. L /\ line \in Nat /\ DOMAIN blobs = 1 .. Len(blobs)
      /\ 1 \in DOMAIN blobs
  BY SourceType, BlobType DEF Inv, TypeOK
<1>2. /\ pass = "measure" /\ pass' = "emit" /\ line > L /\ line' = 1 /\ address' = 0
      /\ UNCHANGED <<source, currentBlob, blobs, table, errors, output, placed>>
  BY DEF Rewind
<1>3. /\ line <= L + 1 /\ \A b \in DOMAIN blobs : blobs[b].data = <<>>
      /\ placed = <<>>
  BY <1>2 DEF Measured, NowAgrees
<1>4. line = L + 1 /\ Reach = L + 1 /\ Reach' = L + 1
  BY <1>1, <1>2, <1>3 DEF Reach
<1>5. Measured(h)'
  BY <1>1, <1>2, <1>4, MeasuredStays
<1>6. ~ OrgBefore(line)'
  BY <1>2 DEF OrgBefore
<1>7. ~ Clean(line)'
  BY <1>6 DEF Clean
<1>8. PlacedSoFar'
  BY <1>1, <1>2, <1>3 DEF PlacedSoFar
<1>9. EmptyAhead(h)'
  <2> SUFFICES ASSUME NEW j \in 1 .. L PROVE blobs[h[j + 1].blob].data = <<>>
    BY <1>2 DEF EmptyAhead
  <2>1. j + 1 \in 1 .. Reach
    BY <1>1, <1>4
  <2> QED BY <1>3, <2>1 DEF Measured, BlobsAgree, BlobAt
<1>10. BackAt(h)' /\ InUse(h)'
  BY <1>6, <1>7 DEF BackAt, InUse
<1>11. \A l \in 1 .. line' - 1 : FALSE
  BY <1>2
<1>12. Homes(h)'
  BY <1>11 DEF Homes
<1>13. Followed(h)'
  BY <1>2, <1>7, <1>11 DEF Followed
<1> QED
  BY <1>5, <1>8, <1>9, <1>10, <1>12, <1>13 DEF Filled

LEMMA NextTraced == Inv /\ Inv' /\ TableIsConsistent /\ Traced /\ [Next]_vars => Traced'
<1> SUFFICES ASSUME Inv, Inv', TableIsConsistent, Traced, [Next]_vars, Disciplined'
             PROVE  (\E h : Measured(h) /\ (pass # "measure" => Filled(h) /\ Followed(h)))'
  BY DEF Traced
<1>1. source' = source
  BY DEF Next, Measure, Fill, MeasureOrg, MeasureVariable, MeasureCode, MeasureOther, MeasureLine,
         Rewind, EmitOrg, EmitEnd, EmitData, EmitCode, EmitNothing, Emit, Overfill,
         WriteFlatFile, vars
<1>2. Disciplined
  <2>1. \A i : IsSum(i)' <=> IsSum(i)
    BY <1>1, Zenon DEF IsSum
  <2>2. Sectioned
    BY <1>1 DEF Disciplined, Sectioned, IsPlaced, Kind
  <2>3. DataLast
    BY <1>1 DEF Disciplined, DataLast, Kind
  <2>4. /\ \A i : Kind(i)' = Kind(i) /\ NamesAt(i)' = NamesAt(i)
        /\ \A i, name : IsVariableAt(i, name)' <=> IsVariableAt(i, name)
    BY <1>1 DEF Kind, NamesAt, IsVariableAt
  <2>5. DeclaredFirst
    <3> SUFFICES ASSUME NEW i \in DOMAIN source, Kind(i) = "code", NEW name \in NamesAt(i)
                 PROVE  /\ source[i].body.op \in Branches => ~ IsSum(i)
                        /\ \/ \E j \in 1 .. i : Declares(j, name)
                           \/ ~ IsSum(i) /\ \A j \in DOMAIN source : ~ IsVariableAt(j, name)
                           \/ \A j \in DOMAIN source : ~ Declares(j, name)
      BY DEF DeclaredFirst
    <3>1. /\ i \in DOMAIN source' /\ Kind(i)' = "code" /\ name \in NamesAt(i)'
          /\ source'[i].body.op = source[i].body.op
      BY <1>1, <2>4
    <3>2. /\ source'[i].body.op \in Branches => ~ IsSum(i)'
          /\ \/ \E j \in 1 .. i : Declares(j, name)'
             \/ ~ IsSum(i)' /\ \A j \in DOMAIN source' : ~ IsVariableAt(j, name)'
             \/ \A j \in DOMAIN source' : ~ Declares(j, name)'
      BY <3>1, Zenon DEF Disciplined, DeclaredFirst
    <3>3. source[i].body.op \in Branches => ~ IsSum(i)
      BY <2>1, <3>1, <3>2
    <3>4. CASE \E j \in 1 .. i : Declares(j, name)'
      <4>1. \E j \in 1 .. i : Declares(j, name)
        BY <1>1, <3>4 DEF Declares, IsVariableAt, Kind
      <4> QED BY <3>3, <4>1
    <3>5. CASE ~ IsSum(i)' /\ \A j \in DOMAIN source' : ~ IsVariableAt(j, name)'
      <4>1. ~ IsSum(i) /\ \A j \in DOMAIN source : ~ IsVariableAt(j, name)
        BY <1>1, <2>1, <2>4, <3>5
      <4> QED BY <3>3, <4>1
    <3>6. CASE \A j \in DOMAIN source' : ~ Declares(j, name)'
      <4>1. \A j \in DOMAIN source : ~ Declares(j, name)
        BY <1>1, <3>6 DEF Declares, IsVariableAt, Kind
      <4> QED BY <3>3, <4>1
    <3> QED BY <3>2, <3>4, <3>5, <3>6
  <2> QED BY <2>2, <2>3, <2>5 DEF Disciplined
<1>3. PICK h : Measured(h) /\ (pass # "measure" => Filled(h) /\ Followed(h))
  BY <1>2 DEF Traced
<1>4. CASE MeasureOrg \/ MeasureVariable \/ MeasureCode \/ MeasureOther
  <2>1. Reads
    BY <1>2, <1>3, <1>4, MeasureOrgReads, MeasureVariableReads, MeasureCodeReads, MeasureOtherReads
  <2>2. PICK g : Measured(g)'
    BY <1>2, <1>3, <2>1, ReadsMeasured
  <2>3. pass' = "measure"
    BY <2>1 DEF Reads, MeasureLine
  <2> QED BY <2>2, <2>3
<1>5. CASE Rewind
  <2>1. Measured(h)' /\ Filled(h)' /\ Followed(h)'
    BY <1>3, <1>5, RewindTraced
  <2> QED BY <2>1
<1>6. CASE EmitOrg \/ EmitEnd \/ EmitData \/ EmitCode \/ EmitNothing
  <2>1. TypeOK
    BY DEF Inv
  <2>2. PICK bytes : Emits(bytes)
    BY <1>6, <2>1, LineEmits
  <2>3. Filled(h) /\ Followed(h)
    BY <1>3, <2>2 DEF Emits
  <2>4. Measured(h)' /\ Filled(h)' /\ Followed(h)'
    BY <1>2, <1>3, <2>2, <2>3, EmitsFilled, EmitsFollowed
  <2> QED BY <2>4
<1>7. CASE Overfill \/ WriteFlatFile
  <2>1. pass = "emit" /\ pass' # "measure" /\ UNCHANGED <<source, line, address, currentBlob, blobs, table, errors, placed>>
    BY <1>7 DEF Overfill, WriteFlatFile, At
  <2>2. /\ 1 \in DOMAIN blobs /\ Len(source) \in Nat
    BY BlobType, SourceType DEF Inv
  <2>3. Reach = Len(source) + 1 /\ Reach' = Reach
    BY <2>1 DEF Reach
  <2>4. Measured(h)'
    BY <1>3, <2>1, <2>2, <2>3, MeasuredStays
  <2>5. Filled(h) /\ Followed(h)
    BY <1>3, <2>1
  <2>6. Filled(h)'
    BY <2>1, <2>5 DEF Filled, PlacedSoFar, BackAt, EmptyAhead, InUse, Homes, Clean, OrgBefore, IsOrg,
                      Coded, Kind
  <2>7. Followed(h)'
    BY <2>1, <2>5 DEF Followed, OnePage, Clean, OrgBefore, IsOrg, Kind
  <2> QED BY <2>4, <2>6, <2>7
<1>8. CASE UNCHANGED vars
  <2>1. UNCHANGED <<source, pass, line, address, currentBlob, blobs, table, errors, placed>>
    BY <1>8 DEF vars
  <2>2. Measured(h)'
    BY <1>3, <2>1 DEF Measured, Trace, BlobsAgree, BlobAt, MadeByOrg, RoomAt, StepsAgree, StepAt,
      TablesAgree, Entries, Declared, KeptAt, NamedAt, NowAgrees, Reach, OrgBefore, IsOrg, Kind,
      Declares, IsVariableAt
  <2>3. Filled(h)' <=> Filled(h)
    BY <2>1 DEF Filled, PlacedSoFar, BackAt, EmptyAhead, InUse, Homes, Clean, OrgBefore, IsOrg,
                Coded, Kind
  <2>4. Followed(h)' <=> Followed(h)
    BY <2>1 DEF Followed, OnePage, Clean, OrgBefore, IsOrg, Kind
  <2> QED BY <1>3, <2>1, <2>2, <2>3, <2>4
<1> QED
  BY <1>4, <1>5, <1>6, <1>7, <1>8 DEF Next, Measure, Fill

\* There is a trace of the first pass in every state, with what it says of the second.
LEMMA TracedAlways == Spec => [](Inv /\ TableIsConsistent /\ Traced)
<1>1. Init => Inv /\ TableIsConsistent /\ Traced
  BY InitInv, InitTraced DEF Init, TableIsConsistent, Ordered, OneAddress
<1>2. Inv /\ TableIsConsistent /\ Traced /\ [Next]_vars => (Inv /\ TableIsConsistent /\ Traced)'
  BY NextInv, NextConsistent, NextTraced
<1> QED
  BY <1>1, <1>2, PTL DEF Spec

\* A symbol was declared where the trace was at its line, and there its bytes were put.
LEMMA TracedLabels ==
  ASSUME Inv, Traced PROVE LabelsNameTheirCode
<1> SUFFICES ASSUME Disciplined, NEW i \in DOMAIN table, table[i].type = "label",
                    table[i].line \in DOMAIN placed
             PROVE  table[i].address = Home(table[i].line)
  BY DEF LabelsNameTheirCode, LabelIsHome
<1> DEFINE l == table[i].line
<1>1. PICK h : Measured(h) /\ (pass # "measure" => Filled(h) /\ Followed(h))
  BY DEF Traced
<1>2. placed # <<>>
  OBVIOUS
<1>3. Filled(h)
  BY <1>1, <1>2 DEF Measured, NowAgrees
<1>4. table[i] \in Symbol
  BY LenProperties, ElementOfSeq DEF Inv, TypeOK
<1>5. Declared(h, table[i])
  BY <1>1 DEF Measured, TablesAgree, Entries
<1>6. source[l].label = table[i].name /\ table[i].address = h[l].offset + blobs[h[l].blob].start
  BY <1>5 DEF Declared
<1>7. Coded(l)
  <2>1. table[i].name # NoName
    BY <1>4, AssemblerAssumption DEF Symbol
  <2> QED BY <1>6, <2>1 DEF Coded
<1>8. l \in 1 .. line - 1
  <2>1. DOMAIN placed = 1 .. Len(placed)
    BY LenProperties DEF Inv, TypeOK
  <2> QED BY <1>3, <2>1 DEF Filled, PlacedSoFar
<1>9. placed[l].blob = h[l].blob /\ placed[l].offset = h[l].offset
  BY <1>3, <1>7, <1>8 DEF Filled, Homes
<1>10. h[l].offset \in Nat /\ blobs[h[l].blob].start \in Nat
  <2>1. l \in 1 .. Reach
    <3>1. Reach \in Nat
      BY SourceType DEF Reach, Inv, TypeOK
    <3>2. l \in 1 .. Reach - 1
      BY <1>5 DEF Declared
    <3> QED BY <3>1, <3>2
  <2>2. h[l].blob \in DOMAIN blobs
    BY <1>1, <2>1 DEF Measured, BlobsAgree, BlobAt
  <2>3. blobs[h[l].blob] \in Blob
    BY <2>2, BlobType, ElementOfSeq DEF Inv
  <2>4. blobs[h[l].blob].start \in Nat
    BY <2>3, WordBounds DEF Blob
  <2>5. placed[l] \in [blob : Nat, offset : Nat, bytes : Seq(Byte)]
    <3> DEFINE Places == [blob : Nat, offset : Nat, bytes : Seq(Byte)]
    <3>1. placed \in Seq(Places)
      BY DEF Inv, TypeOK
    <3> HIDE DEF Places
    <3>2. placed[l] \in Places
      BY <3>1, LenProperties, ElementOfSeq
    <3> QED BY <3>2 DEF Places
  <2> QED BY <1>9, <2>4, <2>5
<1> HIDE DEF l
<1>11. h[l].offset + blobs[h[l].blob].start = blobs[h[l].blob].start + h[l].offset
  BY <1>10
<1> QED
  BY <1>6, <1>9, <1>11 DEF Home, l

\* In a disciplined source of any length the address that the first pass gave to a label
\* is the one at which the second pass met its line: names that it did not know yet made
\* no instruction longer or shorter, whatever sections stand between (main.c 98-280).
THEOREM LabelsAreHome == Spec => []LabelsNameTheirCode
BY TracedAlways, TracedLabels, PTL

\* The offset of a branch leads back to where it was taken from.
LEMMA BranchArrives ==
  ASSUME NEW start \in Nat, start % 256 = 0, NEW f \in Nat, NEW a \in Nat
  PROVE  ((start + f) + 2 + ((a - (f + 2)) % 256)) % 256 = a % 256
<1> DEFINE d == a - (f + 2)
<1>1. PICK q \in Int : start = 256 * q
  <2>1. start = 256 * (start \div 256) /\ start \div 256 \in Int
    OBVIOUS
  <2> QED BY <2>1
<1>2. PICK p \in Int : d % 256 = d - 256 * p
  <2>1. d \in Int
    OBVIOUS
  <2> HIDE DEF d
  <2>2. d = 256 * (d \div 256) + (d % 256) /\ d \div 256 \in Int
    BY <2>1
  <2>3. d % 256 \in Int
    BY <2>1
  <2> QED BY <2>1, <2>2, <2>3
<1>3. (start + f) + 2 + (d % 256) = a + 256 * (q - p)
  BY <1>1, <1>2
<1>4. \A i \in Int : (a + 256 * i) % 256 = a % 256
  OBVIOUS
<1>5. q - p \in Int
  OBVIOUS
<1> QED
  BY <1>3, <1>4, <1>5

\* The one operand of such a line
LEMMA NamesOnlyOperand ==
  ASSUME NEW l, source[l].body \in Body, NamesOnly(l)
  PROVE  LET o == source[l].body.operand
         IN  o \in Operand /\ Alone(o) /\ HasTerms(o) /\ ~ IsValue(o.terms[1])
<1> DEFINE o == source[l].body.operand
<1>1. Kind(l) = "code" /\ ~ IsSum(l) /\ NamesAt(l) # {}
  BY DEF NamesOnly
<1>2. o \in Operand
  BY <1>1, BodyType DEF Kind
<1>3. Alone(o)
  BY <1>1, Zenon DEF IsSum, Alone
<1>4. PICK u \in DOMAIN o.terms : ~ IsValue(o.terms[u])
  BY <1>1 DEF NamesAt
<1> HIDE DEF o
<1>5. HasTerms(o)
  <2>1. CASE ~ HasTerms(o)
    <3>1. o.terms = <<>>
      BY <1>2, <2>1, Zenon DEF HasTerms, Operand
    <3>2. DOMAIN o.terms = {}
      BY <3>1, NoTuple
    <3> QED BY <1>4, <3>2
  <2> QED BY <2>1
<1>6. u = 1
  <2>1. Len(o.terms) = 1 /\ o.terms \in Seq(Token)
    BY <1>2, <1>3, <1>5, OpenOrClosed, OperandType
  <2> QED BY <2>1, LenProperties
<1> QED
  BY <1>2, <1>3, <1>4, <1>5, <1>6 DEF o

\* The bytes that the second pass made of a name stand where the trace says, and lead to it.
LEMMA TracedReferences ==
  ASSUME Inv, TableIsConsistent, Traced PROVE ReferencesReachTheirNames
<1> SUFFICES ASSUME Disciplined, OnePage, errors = 0, NEW l \in DOMAIN placed, NamesOnly(l),
                    IsNamed(table, source[l].body.operand.terms[1].name)
             PROVE  Reaches(l)
  BY DEF ReferencesReachTheirNames
<1>1. PICK h : Measured(h) /\ (pass # "measure" => Filled(h) /\ Followed(h))
  BY DEF Traced
<1> DEFINE op == source[l].body.op
           o == source[l].body.operand
           a == AddressOf(table, o.terms[1].name)
           f == h[l].offset
           start == blobs[h[l].blob].start
           bytes == placed[l].bytes
           L == Len(source)
<1>2. TypeOK /\ table \in Seq(Symbol)
  BY DEF Inv, TypeOK
<1>3. placed # <<>> /\ pass # "measure"
  BY <1>1 DEF Measured, NowAgrees
<1>4. Filled(h) /\ Followed(h)
  BY <1>1, <1>3
<1>5. l \in 1 .. line - 1
  <2>1. DOMAIN placed = 1 .. Len(placed)
    BY <1>2, LenProperties DEF TypeOK
  <2> QED BY <1>4, <2>1 DEF Filled, PlacedSoFar
<1>6. /\ L \in Nat /\ l \in 1 .. L /\ l \in DOMAIN source /\ source[l].body \in Body
      /\ Reach = L + 1 /\ l \in 1 .. Reach
  <2>1. L \in Nat /\ DOMAIN source = 1 .. L /\ Reach = L + 1 /\ line \in Nat /\ line <= L + 1
    BY <1>2, <1>3, <1>4, SourceType DEF Reach, Filled, PlacedSoFar, TypeOK
  <2>2. l \in 1 .. L
    BY <1>5, <2>1
  <2> QED BY <1>2, <2>1, <2>2, SourceType
<1>7. Kind(l) = "code" /\ o \in Operand /\ Alone(o) /\ HasTerms(o) /\ ~ IsValue(o.terms[1])
  BY <1>6, NamesOnlyOperand DEF NamesOnly
<1>8. placed[l].blob = h[l].blob /\ placed[l].offset = f
  BY <1>4, <1>5, <1>7 DEF Filled, Homes, Coded
<1>9. bytes = LineBytes(table, op, o, f) /\ ~ IsError(table, op, o, f)
  BY <1>4, <1>5, <1>7 DEF Followed
<1>10. f \in Word /\ f \in Nat
  <2>1. 0 \in Word
    BY WordBounds, Words
  <2> QED BY <1>1, <1>3, <1>6, <1>7, <2>1, MeasuredLength
<1>11. a \in Nat
  BY <1>2, SymbolFound, WordBounds
<1>12. start % 256 = 0 /\ start \in Nat
  <2>1. OrgBefore(l) /\ IsPlaced(l)
    BY <1>6, <1>7 DEF Disciplined, Sectioned, IsPlaced, OrgBefore, IsOrg
  <2>2. h[l].blob \in DOMAIN blobs
    BY <1>1, <1>6 DEF Measured, BlobsAgree, BlobAt
  <2>3. start \in Nat
    <3>1. blobs[h[l].blob] \in Blob
      BY <1>2, <2>2, BlobType, ElementOfSeq
    <3> QED BY <3>1, WordBounds DEF Blob
  <2>4. 256 <= start /\ blobs[1].start = 0
    BY <1>1, <1>6, <2>1 DEF Measured, BlobsAgree, RoomAt
  <2>5. h[l].blob # 1
    BY <2>4
  <2>6. PICK j \in 1 .. Reach - 1 : IsOrg(j) /\ h[l].blob = h[j + 1].blob
    BY <1>1, <2>2, <2>5 DEF Measured, BlobsAgree, MadeByOrg
  <2>7. start = source[j].body.start
    BY <1>1, <2>6 DEF Measured, StepsAgree, StepAt
  <2>8. j \in DOMAIN source
    BY <1>2, <1>6, <2>6, SourceType
  <2>9. source[j].body.start % 256 = 0
    BY <2>6, <2>8 DEF OnePage, IsOrg
  <2> QED BY <2>3, <2>7, <2>9
<1>13. /\ op \in Branches => Len(bytes) = 2 /\ bytes[2] = (a - (f + 2)) % 256
       /\ op \notin Branches => bytes[2] = a % 256
       /\ Len(bytes) = 3 => bytes[3] = a \div 256
  <2> HIDE DEF f, o, op, bytes
  <2>1. IsNamed(table, o.terms[1].name)
    BY DEF o
  <2> QED BY <1>2, <1>7, <1>9, <1>10, <2>1, NameBytes
<1>14. Home(l) = start + f
  BY <1>8 DEF Home
<1> HIDE DEF op, o, a, f, start, bytes
<1>15. op \in Branches => (Home(l) + Len(bytes) + bytes[2]) % 256 = a % 256
  <2> SUFFICES ASSUME op \in Branches PROVE (Home(l) + Len(bytes) + bytes[2]) % 256 = a % 256
    OBVIOUS
  <2>1. (start + f + 2 + ((a - (f + 2)) % 256)) % 256 = a % 256
    BY <1>10, <1>11, <1>12, BranchArrives
  <2> QED BY <1>13, <1>14, <2>1
<1> QED
  BY <1>13, <1>15 DEF Reaches, op, o, a, bytes

\* In a disciplined source of any length with one section that begins on a page, every
\* operand that is a name leads to what the table has for it: branches by their distance,
\* the others by their bytes (symbols.c 281-349, codegen.c, main.c 205-260).
THEOREM ReferencesArrive == Spec => []ReferencesReachTheirNames
BY TracedAlways, TracedReferences, PTL

=============================================================================
