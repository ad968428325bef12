-------------------------------- MODULE Cpu --------------------------------
(***************************************************************************)
(* The processor of v6502/cpu.c at its real widths: 8-bit registers, a     *)
(* 16-bit program counter and the eight flags of the status register.      *)
(* Memory is what the host put there, zeros elsewhere; some addresses      *)
(* belong to devices, whose callbacks may answer a read with any byte they *)
(* have (the same one throughout a step) and keep a byte that is written.  *)
(* Hosts call v6502_step until the break flag is up.                       *)
(***************************************************************************)
EXTENDS Isa, Sequences

CONSTANTS
  MemorySize,  \* memory->size
  Readable,    \* the addresses with a read callback
  Writable,    \* the addresses with a write callback
  DeviceByte,  \* the bytes the read callbacks answer with
  Start,       \* what hosts start from: registers, flags and bytes, as they load and set them
  MaxFrames    \* bound on the calls the history remembers

WordCount == 65536

Word == 0 .. WordCount - 1
Wide(n)   == n % WordCount
Narrow(n) == n % 256

Bit == 0 .. 7

Bits == [n \in Byte |-> {b \in Bit : (n \div 2^b) % 2 = 1}]

Weight(S, b, w) == IF b \in S THEN w ELSE 0

ByteOf(S) ==
  Weight(S, 0, 1) + Weight(S, 1, 2) + Weight(S, 2, 4) + Weight(S, 3, 8)
    + Weight(S, 4, 16) + Weight(S, 5, 32) + Weight(S, 6, 64) + Weight(S, 7, 128)

\* v6502_cpu_status: a flag is its bit, the status register the set of those up
Carry     == 0
Zero      == 1
Interrupt == 2
Decimal   == 3
Break     == 4
Ignored   == 5
Overflow  == 6
Negative  == 7

Stack == 256

ASSUME CpuAssumption ==
  \* with less than the stack backed, the stack instructions leave the array
  /\ MemorySize \in Nat /\ 512 <= MemorySize /\ MemorySize <= WordCount
  /\ Readable \subseteq Word /\ Writable \subseteq Word
  /\ DeviceByte \subseteq Byte
  /\ MaxFrames \in Nat

ASSUME StartAssumption ==
  \A s \in Start :
    /\ s.pc \in Word /\ s.reg \in [{"ac", "x", "y", "sp"} -> Byte] /\ s.sr \subseteq Bit
    /\ DOMAIN s.bytes \subseteq Word
    /\ \A a \in DOMAIN s.bytes : a < MemorySize /\ s.bytes[a] \in Byte

VARIABLES
  pc,      \* cpu->pc
  reg,     \* cpu->ac, x, y and sp
  sr,      \* cpu->sr
  bytes,   \* memory->bytes, where they are not zero
  status,  \* running, or aborted by an access nothing answers
  last,    \* history: the last instruction and what it found
  frames,  \* history: the calls in progress, where they return to and what was on the
           \* stack when they were made
  depth,   \* history: the bytes on the stack since the first of them
  nested   \* history: whether what calls have pushed was left to their own returns

vars == <<pc, reg, sr, bytes, status, last, frames, depth, nested>>

None == [name |-> "none"]

StackSize == 256

Frame == [address : Word, depth : 0 .. StackSize]

TypeOK ==
  /\ pc \in Word
  /\ reg \in [{"ac", "x", "y", "sp"} -> Byte]
  /\ sr \subseteq Bit
  /\ DOMAIN bytes \subseteq Word
  /\ \A a \in DOMAIN bytes : bytes[a] \in Byte
  /\ status \in {"running", "aborted"}
  /\ frames \in Seq(Frame)
  /\ depth \in 0 .. StackSize
  /\ nested \in BOOLEAN

Init ==
  /\ \E s \in Start : pc = s.pc /\ reg = s.reg /\ sr = s.sr /\ bytes = s.bytes
  /\ status = "running"
  /\ last = None
  /\ frames = <<>> /\ depth = 0 /\ nested = TRUE

-----------------------------------------------------------------------------
(* Memory *)

Held(mem, a) == IF a \in DOMAIN mem THEN mem[a] ELSE 0

Stored(mem, a, v) == [c \in DOMAIN mem \cup {a} |-> IF c = a THEN v ELSE mem[c]]

\* v6502_read, given what the devices answer
Read(answer, a) == IF a \in Readable THEN answer[a] ELSE Held(bytes, a)

\* v6502_write, of an address that something answers for
Written(a, v) == IF a \in Writable THEN bytes ELSE Stored(bytes, a, v)

Answers(a)  == a \in Readable \/ a < MemorySize
Accepts(a)  == a \in Writable \/ a < MemorySize

-----------------------------------------------------------------------------
(* Decoding: the fetch of v6502_step and the first switch of v6502_execute *)

\* The bytes at pc: the opcode, as long as the length it stands for, and operands
Fetched(answer) ==
  LET opcode == Read(answer, pc)
      length == LengthOf[opcode]
  IN  [opcode |-> opcode,
       mode   |-> ModeOf[opcode],
       length |-> length,
       low    |-> IF length > 1 THEN Read(answer, Wide(pc + 1)) ELSE 0,
       high   |-> IF length > 2 THEN Read(answer, Wide(pc + 2)) ELSE 0]

Indirect == {"ind", "indx", "indy"}

\* Where the pointer of an indirect mode lies. The second byte follows the first
\* in memory, across the end of page zero too.
PointerAt(f) ==
  [ind  |-> <<f.high * 256 + f.low, Wide(f.high * 256 + f.low + 1)>>,
   indx |-> <<Narrow(f.low + reg.x), Narrow(f.low + reg.x) + 1>>,
   indy |-> <<f.low, f.low + 1>>][f.mode]

PointerOf(answer, f) ==
  IF f.mode \in Indirect
  THEN Read(answer, PointerAt(f)[1]) + 256 * Read(answer, PointerAt(f)[2])
  ELSE 0

Referring == {"zpg", "zpgx", "zpgy", "abs", "absx", "absy"} \cup Indirect

\* The address an instruction refers to; indexing does not wrap within page zero
ReferenceOf(f, pointer) ==
  IF f.mode \in Referring
  THEN [zpg  |-> f.low,
        zpgx |-> f.low + reg.x,
        zpgy |-> f.low + reg.y,
        abs  |-> f.high * 256 + f.low,
        absx |-> Wide(f.high * 256 + f.low + reg.x),
        absy |-> Wide(f.high * 256 + f.low + reg.y),
        ind  |-> pointer,
        indx |-> pointer,
        indy |-> Wide(pointer + reg.y)][f.mode]
  ELSE 0

OperandOf(answer, f, ref) ==
  IF f.mode \in Referring THEN Read(answer, ref)
  ELSE IF f.mode \in {"imp", "acc"} THEN reg.ac
  ELSE IF f.mode = "imm" THEN f.low ELSE 0

\* The instruction at pc; touched is every address that is read to decode it
Decoded(answer) ==
  LET f       == Fetched(answer)
      pointer == PointerOf(answer, f)
      ref     == ReferenceOf(f, pointer)
  IN  [name    |-> MnemonicOf[f.opcode],
       opcode  |-> f.opcode,
       mode    |-> f.mode,
       length  |-> f.length,
       low     |-> f.low,
       word    |-> f.high * 256 + f.low,
       pointer |-> pointer,
       ref     |-> ref,
       operand |-> OperandOf(answer, f, ref),
       touched |-> {Wide(pc + k) : k \in 0 .. f.length - 1}
                   \cup (IF f.mode \in Indirect THEN {PointerAt(f)[1], PointerAt(f)[2]} ELSE {})
                   \cup (IF f.mode \in Referring THEN {ref} ELSE {})]

-----------------------------------------------------------------------------
(* Flags *)

Put(flags, flag, up) == IF up THEN flags \cup {flag} ELSE flags \ {flag}

\* FLAG_NEG_AND_ZERO_WITH_RESULT
NegAndZero(flags, result) ==
  Put(Put(flags, Negative, result >= 128), Zero, result = 0)

\* Mutant: strictly below
CarryIfLess(flags, a, b) == Put(flags, Carry, a < b)

\* FLAG_CARRY_WITH_COMPARISON
CarryWithComparison(flags, a, b) == Put(flags, Carry, a <= b)

\* FLAG_OVERFLOW_WITH_COMPARISON: the flag goes up when the signs do fit
OverflowWithComparison(flags, a, b, c) ==
  Put(flags, Overflow, ~ ((a >= 128) = (b >= 128) /\ (a >= 128) # (c >= 128)))

CarryIn == IF Carry \in sr THEN 1 ELSE 0

-----------------------------------------------------------------------------
(* Instructions. Each sets reg, sr, pc and bytes; i is what Decoded returns. *)

Follow(i) == pc' = Wide(pc + i.length)

Result(register, v) == reg' = [reg EXCEPT ![register] = v]

Moves == [tax |-> <<"ac", "x">>, tay |-> <<"ac", "y">>, tsx |-> <<"sp", "x">>,
          txa |-> <<"x", "ac">>, txs |-> <<"x", "sp">>, tya |-> <<"y", "ac">>]

Transfer(i) ==
  /\ i.name \in DOMAIN Moves
  /\ LET v == reg[Moves[i.name][1]]
     IN  Result(Moves[i.name][2], v) /\ sr' = NegAndZero(sr, v)
  /\ Follow(i) /\ UNCHANGED bytes

FlagOf == [clc |-> Carry, cld |-> Decimal, cli |-> Interrupt, clv |-> Overflow,
           sec |-> Carry, sed |-> Decimal, sei |-> Interrupt]

SetFlag(i) ==
  /\ i.name \in DOMAIN FlagOf
  /\ sr' = Put(sr, FlagOf[i.name], i.name \in {"sec", "sed", "sei"})
  /\ Follow(i) /\ UNCHANGED <<reg, bytes>>

Brk(i) ==
  /\ i.name = "brk"
  /\ sr' = sr \cup {Break, Interrupt}
  /\ Follow(i) /\ UNCHANGED <<reg, bytes>>

\* rti is not implemented. An opcode without a meaning reports a fault, or
\* nothing at all when even its mode is unknown.
Pass(i) ==
  /\ i.name \in {"nop", "wai", "rti", "illegal"}
  /\ Follow(i) /\ UNCHANGED <<reg, sr, bytes>>

Stepped == [inx |-> <<"x", 1>>, iny |-> <<"y", 1>>, dex |-> <<"x", 255>>, dey |-> <<"y", 255>>]

StepIndex(i) ==
  /\ i.name \in DOMAIN Stepped
  /\ LET v == Narrow(reg[Stepped[i.name][1]] + Stepped[i.name][2])
     IN  Result(Stepped[i.name][1], v) /\ sr' = NegAndZero(sr, v)
  /\ Follow(i) /\ UNCHANGED bytes

\* The flag a branch looks at, and whether it wants it up
Condition == [bcc |-> <<Carry, FALSE>>,    bcs |-> <<Carry, TRUE>>,
              bne |-> <<Zero, FALSE>>,     beq |-> <<Zero, TRUE>>,
              bpl |-> <<Negative, FALSE>>, bmi |-> <<Negative, TRUE>>,
              bvc |-> <<Overflow, FALSE>>, bvs |-> <<Overflow, TRUE>>]

\* v6502_signedValueOfByte
Signed(b) == IF b >= 128 THEN b - 256 ELSE b

Branch(i) ==
  /\ i.name \in DOMAIN Condition
  /\ LET taken == (Condition[i.name][1] \in sr) = Condition[i.name][2]
     IN  pc' = Wide(pc + (IF taken THEN Signed(i.low) ELSE 0) + i.length)
  /\ UNCHANGED <<reg, sr, bytes>>

\* jmp_abs to itself waits: it comes to the same. The pointer of jmp_ind is read
\* again, without the trap.
Jump(i) ==
  /\ i.name = "jmp"
  /\ pc' = IF i.mode = "ind" THEN i.pointer ELSE i.word
  /\ UNCHANGED <<reg, sr, bytes>>

-----------------------------------------------------------------------------
(* The stack, which is accessed in memory->bytes, whatever is mapped there *)

\* Mutant: a stack pointer that stops at the bottom
Saturated(sp) == IF sp = 0 THEN 0 ELSE sp - 1

\* Mutant: a stack pointer wider than a byte
Unbounded(sp) == sp + 1

Down(sp) == Narrow(sp + 255)
Up(sp)   == Narrow(sp + 1)

Pushed(mem, sp, v) == Stored(mem, Stack + sp, v)
Top(mem, sp)       == Held(mem, Stack + Up(sp))

Push(i) ==
  /\ i.name \in {"pha", "php"}
  /\ bytes' = Pushed(bytes, reg.sp, IF i.name = "pha" THEN reg.ac ELSE ByteOf(sr))
  /\ Result("sp", Down(reg.sp))
  /\ Follow(i) /\ UNCHANGED sr

Pull(i) ==
  /\ LET v == Top(bytes, reg.sp) IN
     \/ /\ i.name = "pla"
        /\ reg' = [reg EXCEPT !.ac = v, !.sp = Up(reg.sp)]
        /\ sr' = NegAndZero(sr, v)
     \/ /\ i.name = "plp"
        /\ Result("sp", Up(reg.sp))
        /\ sr' = Bits[v]
  /\ Follow(i) /\ UNCHANGED bytes

\* The low byte of pc is pushed first; pc is still that of the jsr
Call(i) ==
  /\ i.name = "jsr"
  /\ bytes' = Pushed(Pushed(bytes, reg.sp, pc % 256), Down(reg.sp), pc \div 256)
  /\ Result("sp", Down(Down(reg.sp)))
  /\ pc' = i.word
  /\ UNCHANGED sr

\* Mutant: the bytes are taken for those of a processor that pushes the high one first
SwappedReturn(mem, sp) == Wide(Top(mem, sp) + 256 * Top(mem, Up(sp)) + 2)

\* Where rts leaves pc, before the length of the rts is added
ReturnOf(mem, sp) == Wide(256 * Top(mem, sp) + Top(mem, Up(sp)) + 2)

Return(i) ==
  /\ i.name = "rts"
  /\ pc' = Wide(ReturnOf(bytes, reg.sp) + i.length)
  /\ Result("sp", Up(Up(reg.sp)))
  /\ UNCHANGED <<sr, bytes>>

-----------------------------------------------------------------------------
(* Arithmetic, logic and memory *)

\* ADC as it stands; SBC adds the complement of its operand
Add(i) ==
  /\ i.name \in {"adc", "sbc"}
  /\ LET operand == IF i.name = "adc" THEN i.operand ELSE 255 - i.operand
         sum     == Narrow(reg.ac + operand + CarryIn)
     IN  /\ Result("ac", sum)
         /\ sr' = NegAndZero(CarryWithComparison(
                    OverflowWithComparison(sr, reg.ac, operand, sum), sum, operand), sum)
  /\ Follow(i) /\ UNCHANGED bytes

Combined(name, a, b) ==
  ByteOf([and |-> a \cap b, ora |-> a \cup b, eor |-> (a \ b) \cup (b \ a)][name])

Combine(i) ==
  /\ i.name \in {"and", "ora", "eor"}
  /\ LET v == Combined(i.name, Bits[reg.ac], Bits[i.operand])
     IN  Result("ac", v) /\ sr' = NegAndZero(sr, v)
  /\ Follow(i) /\ UNCHANGED bytes

Compared == [cmp |-> "ac", cpx |-> "x", cpy |-> "y"]

Compare(i) ==
  /\ i.name \in DOMAIN Compared
  /\ LET r == reg[Compared[i.name]]
     IN  sr' = NegAndZero(CarryWithComparison(sr, i.operand, r), Narrow(r - i.operand))
  /\ Follow(i) /\ UNCHANGED <<reg, bytes>>

BitTest(i) ==
  /\ i.name = "bit"
  /\ sr' = Put((sr \ {Overflow, Negative}) \cup (Bits[i.operand] \cap {Overflow, Negative}),
               Zero, Bits[reg.ac] \cap Bits[i.operand] = {})
  /\ Follow(i) /\ UNCHANGED <<reg, bytes>>

Loaded == [lda |-> "ac", ldx |-> "x", ldy |-> "y"]

Load(i) ==
  /\ i.name \in DOMAIN Loaded
  /\ Result(Loaded[i.name], i.operand)
  /\ sr' = NegAndZero(sr, i.operand)
  /\ Follow(i) /\ UNCHANGED bytes

Kept == [sta |-> "ac", stx |-> "x", sty |-> "y"]

Store(i) ==
  /\ i.name \in DOMAIN Kept
  /\ bytes' = Written(i.ref, reg[Kept[i.name]])
  /\ Follow(i) /\ UNCHANGED <<reg, sr>>

\* The result of an instruction that modifies its operand in place
Modified(i) ==
  [asl |-> Narrow(i.operand * 2),
   lsr |-> i.operand \div 2,
   rol |-> Narrow(i.operand * 2) + CarryIn,
   ror |-> i.operand \div 2 + 128 * CarryIn,
   inc |-> Narrow(i.operand + 1),
   dec |-> Narrow(i.operand + 255)][i.name]

\* A shift moves the bit it drops into the carry; lsr leaves the negative flag
Modify(i) ==
  /\ i.name \in {"asl", "lsr", "rol", "ror", "inc", "dec"}
  /\ LET v == Modified(i)
         shifted == IF i.name \in {"asl", "rol"} THEN Put(sr, Carry, i.operand >= 128)
                    ELSE IF i.name \in {"lsr", "ror"} THEN Put(sr, Carry, i.operand % 2 = 1)
                    ELSE sr
     IN  /\ sr' = IF i.name = "lsr" THEN Put(shifted, Zero, v = 0) ELSE NegAndZero(shifted, v)
         /\ IF i.mode = "acc"
            THEN Result("ac", v) /\ UNCHANGED bytes
            ELSE bytes' = Written(i.ref, v) /\ UNCHANGED reg
  /\ Follow(i)

-----------------------------------------------------------------------------
(* Steps *)

Stores == {"sta", "stx", "sty", "asl", "lsr", "rol", "ror", "inc", "dec"}

Writes(i) == i.mode \in Referring /\ i.name \in Stores

Execute(i) ==
  \/ Transfer(i) \/ SetFlag(i) \/ Brk(i) \/ Pass(i) \/ StepIndex(i)
  \/ Branch(i) \/ Jump(i) \/ Push(i) \/ Pull(i) \/ Call(i) \/ Return(i)
  \/ Add(i) \/ Combine(i) \/ Compare(i) \/ BitTest(i) \/ Load(i) \/ Store(i) \/ Modify(i)

\* The calls in progress, as the jsr and rts executed so far have it
Remembered(i) ==
  IF i.name = "jsr" THEN Append(frames, [address |-> Wide(pc + i.length), depth |-> depth])
  ELSE IF i.name = "rts" /\ frames # <<>> THEN SubSeq(frames, 1, Len(frames) - 1)
  ELSE frames

\* What the latest call found on the stack
Floor == frames[Len(frames)].depth

OnStack(a) == a \in Stack .. Stack + StackSize - 1

\* The instruction leaves to a call in progress what it has pushed: the stack does not
\* run full, is not pulled from too far or too little, moved, or written to
Nests(i) ==
  /\ i.name = "jsr" => depth + 2 <= StackSize
  /\ frames # <<>> =>
       /\ i.name \in {"pha", "php"} => depth < StackSize
       /\ i.name \in {"pla", "plp"} => depth > Floor + 2
       /\ i.name = "rts" => depth = Floor + 2
       /\ i.name # "txs"
       /\ i.name \in Stores => ~ OnStack(i.ref)

Grows == [jsr |-> 2, rts |-> -2, pha |-> 1, php |-> 1, pla |-> -1, plp |-> -1]

Deepened(i) ==
  IF nested /\ Nests(i) /\ i.name \in DOMAIN Grows /\ (frames # <<>> \/ i.name = "jsr")
  THEN depth + Grows[i.name] ELSE depth

Ready == status = "running" /\ Break \notin sr

Step ==
  /\ Ready
  /\ \E answer \in [Readable -> DeviceByte] :
       LET i == Decoded(answer) IN
       /\ \A a \in i.touched : Answers(a)
       /\ Writes(i) => Accepts(i.ref)
       /\ i.name = "jsr" => Len(frames) < MaxFrames
       /\ Execute(i)
       /\ frames' = Remembered(i)
       /\ depth' = Deepened(i)
       /\ nested' = (nested /\ Nests(i))
       /\ last' = [name |-> i.name, opcode |-> i.opcode, mode |-> i.mode, length |-> i.length,
                   operand |-> i.operand, pc |-> pc, reg |-> reg, sr |-> sr,
                   top |-> IF frames = <<>> THEN None ELSE frames[Len(frames)]]
  /\ UNCHANGED status

\* An address nothing answers for fails the assertion of v6502_read or v6502_write
Abort ==
  /\ Ready
  /\ \E answer \in [Readable -> DeviceByte] :
       LET i == Decoded(answer) IN
       \/ \E a \in i.touched : ~ Answers(a)
       \/ Writes(i) /\ ~ Accepts(i.ref)
  /\ status' = "aborted"
  /\ UNCHANGED <<pc, reg, sr, bytes, last, frames, depth, nested>>

Vector(answer, low) == Read(answer, low) + 256 * Read(answer, low + 1)

\* v6502_nmi, from the host: only pc changes
Nmi ==
  /\ status = "running" /\ \A a \in {65530, 65531} : Answers(a)
  /\ \E answer \in [Readable -> DeviceByte] : pc' = Vector(answer, 65530)
  /\ last' = None
  /\ UNCHANGED <<reg, sr, bytes, status, frames, depth, nested>>

\* v6502_reset
Reset ==
  /\ status = "running" /\ \A a \in {65532, 65533} : Answers(a)
  /\ \E answer \in [Readable -> DeviceByte] : pc' = Vector(answer, 65532)
  /\ reg' = [ac |-> 0, x |-> 0, y |-> 0, sp |-> 255]
  /\ sr' = {Ignored}
  /\ frames' = <<>> /\ depth' = 0 /\ nested' = TRUE
  /\ last' = None
  /\ UNCHANGED <<bytes, status>>

Next == Step \/ Abort \/ Nmi \/ Reset

Spec == Init /\ [][Next]_vars

-----------------------------------------------------------------------------
(* Properties *)

\* The address and the mode, of an instruction that was legal: what the bits of
\* an opcode say of mode and length is what the name of the opcode says.
InstructionsMatchTheirNames ==
  last.name \notin {"none", "illegal"} =>
    /\ last.mode = ModeInName[last.opcode]
    /\ last.length = LengthOfMode[last.mode]

\* An rts right after a jsr would go to the instruction behind the jsr and leave
\* the stack pointer as it was, wherever the stack pointer is: the two agree on
\* the order of the bytes, on what they add to pc and on how the stack wraps.
RtsUndoesJsr ==
  last.name = "jsr" =>
    /\ Wide(ReturnOf(bytes, reg.sp) + 1) = Wide(last.pc + 3)
    /\ Up(Up(reg.sp)) = last.reg.sp

\* An rts returns behind the latest jsr that has not returned yet, through recursion,
\* pushes, pulls and interrupts, at any start of the stack pointer, in every program
\* that keeps what it pushes apart from what its calls have pushed, and pushes no more
\* than the stack page holds.
ReturnsMatchCalls ==
  nested /\ last.name = "rts" /\ last.top # None => pc = last.top.address

\* A comparison leaves carry, zero and negative so that the branches order the
\* register and the operand as unsigned bytes.
ComparisonsOrder ==
  last.name \in DOMAIN Compared =>
    LET r == last.reg[Compared[last.name]] IN
    /\ (Carry \in sr) = (r >= last.operand)
    /\ (Zero \in sr) = (r = last.operand)
    /\ (Negative \in sr) = (Narrow(r - last.operand) >= 128)

=============================================================================
