------------------------------ MODULE RoundTrip ------------------------------
(***************************************************************************)
(* dis6502 and as6502 one after the other, as in circularAssemble of       *)
(* tests/Makefile: what the disassembler has printed is the source file of *)
(* the assembler.                                                          *)
(***************************************************************************)
EXTENDS Assembler, Disassembler

\* ld6502_readObjectFromFlatFile fills the blob of dis6502 with the call that ends as6502 at a
\* full one, and no counter of offsets is wider than a word
ASSUME RoundTripAssumption ==
  /\ \A b \in Binaries : b.format = "flat" => Len(b.data) <= BlobLimit
  /\ OffsetCount <= WordCount

assemblerVars == vars

allVars == <<disassemblerVars, assemblerVars>>

RoundTripInit ==
  /\ DisassemblerInit
  /\ source = <<>>
  /\ pass = "waiting"
  /\ line = 1
  /\ address = 0
  /\ currentBlob = 1
  /\ blobs = <<[start |-> 0, data |-> <<>>]>>
  /\ table = <<>>
  /\ errors = 0
  /\ output = <<>>
  /\ placed = <<>>

\* A listing that has nothing but what the model of the assembler reads
IsSource == \A i \in DOMAIN listing : listing[i].body.kind \notin {"illegal", "string"}

Disassemble == DisassemblerNext /\ UNCHANGED assemblerVars

\* as6502 is started on the file that dis6502 has written
Start ==
  /\ phase = "done" /\ pass = "waiting"
  /\ IsSource
  /\ source' = listing
  /\ pass' = "measure"
  /\ UNCHANGED <<disassemblerVars, line, address, currentBlob, blobs, table, errors, output,
                 placed>>

Assemble == Next /\ UNCHANGED disassemblerVars

RoundTripNext == Disassemble \/ Start \/ Assemble

RoundTripSpec == RoundTripInit /\ [][RoundTripNext]_allVars

\* Both programs run until they end
FairSpec == RoundTripSpec /\ WF_allVars(RoundTripNext)

-----------------------------------------------------------------------------
(* Properties *)

\* The file can be told from its listing: it lies beyond the zero page; each instruction
\* is one that the assembler knows and encodes as it should; the operand of the last is
\* not a single byte; jumps into the file lead to instructions; pointers lie elsewhere;
\* and there is a label, the last of the table not that of the end
Recoverable ==
  /\ Whole
  /\ start >= 256
  /\ \A o \in Instructions :
       /\ MnemonicOf[data[o + 1]] \notin {"illegal", "tya", "wai"}
       /\ ~ (o + 2 = Len(data) /\ LengthOf[data[o + 1]] = 2)
       /\ data[o + 1] \in Jumps /\ TargetOf(o) \in start .. Limit =>
            data[o + 1] # Encoding.jmp.ind /\ TargetOf(o) - start \in Starts
  /\ symbols # <<>> /\ symbols[Len(symbols)].address # Limit

\* What is assembled from the listing of a recoverable file is the file, byte by byte
\* (dis6502/main.c 91-165, reverse.c, as6502/main.c 98-280).
RoundTripIsExact ==
  phase \in {"rest", "done", "undefined"} /\ Recoverable =>
    /\ phase # "undefined" /\ pass # "fatal"
    /\ phase = "done" => IsSource
    /\ pass = "done" => output = data /\ errors = 0

\* The same for any file that is disassembled, as tests/Makefile:52 has it: "Making sure
\* a round trip of assembly -> disassembly -> assembly emits the same binary each time".
EmitsTheSameBinary == pass = "done" => output = data

\* The disassembler ends on every file that is shorter than the counter of offsets
\* by the length of an instruction, strings and bytes that are no instructions in it
\* included (dis6502/main.c 92-152, reverse.c 417).
DisassemblyEnds ==
  Len(data) <= OffsetCount - 3 => <>(phase \in {"done", "undefined"})

=============================================================================
