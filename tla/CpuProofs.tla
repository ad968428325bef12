----------------------------- MODULE CpuProofs -----------------------------
(***************************************************************************)
(* Theorems about the processor, for every memory size, every assignment   *)
(* of devices and every program a host starts.                             *)
(***************************************************************************)
EXTENDS Cpu, IsaProofs, TLAPS

LEMMA LengthType == \A opcode \in Byte : LengthOf[opcode] \in 1 .. 3
BY DEF LengthOf

LEMMA ByteOfType == ASSUME NEW S PROVE ByteOf(S) \in Byte
BY DEF ByteOf, Weight, Byte

LEMMA BitsType == ASSUME NEW b \in Byte PROVE Bits[b] \subseteq Bit
BY DEF Bits

LEMMA NarrowType == ASSUME NEW n \in Int PROVE Narrow(n) \in Byte
BY DEF Narrow, Byte

LEMMA ByteBounds == \A n : n \in Byte <=> n \in Int /\ 0 <= n /\ n <= 255
BY DEF Byte

\* The size of a word, which the provers should not see more often than needed
LEMMA Words == WordCount = 65536
BY DEF WordCount

LEMMA WordBounds == \A n : n \in Word <=> n \in Int /\ 0 <= n /\ n < WordCount
<1>1. WordCount \in Int
  BY DEF WordCount
<1> QED
  BY <1>1 DEF Word

LEMMA WideType == ASSUME NEW n \in Int PROVE Wide(n) \in Word
BY WordBounds, Words DEF Wide

\* The flags stay flags
LEMMA PutType ==
  ASSUME NEW S \in SUBSET Bit, NEW b \in Bit, NEW up PROVE Put(S, b, up) \subseteq Bit
BY DEF Put

LEMMA FlagsAreBits ==
  {Carry, Zero, Interrupt, Decimal, Break, Ignored, Overflow, Negative} \subseteq Bit
BY DEF Carry, Zero, Interrupt, Decimal, Break, Ignored, Overflow, Negative, Bit

LEMMA NegAndZeroType ==
  ASSUME NEW S \in SUBSET Bit, NEW v PROVE NegAndZero(S, v) \subseteq Bit
BY PutType, FlagsAreBits DEF NegAndZero

\* What a memory that holds bytes at words gives back
Memory(mem) == DOMAIN mem \subseteq Word /\ \A a \in DOMAIN mem : mem[a] \in Byte

LEMMA HeldType == ASSUME NEW mem, Memory(mem), NEW a PROVE Held(mem, a) \in Byte
BY DEF Memory, Held, Byte

LEMMA StoredType ==
  ASSUME NEW mem, Memory(mem), NEW a \in Word, NEW v \in Byte
  PROVE  Memory(Stored(mem, a, v))
BY DEF Memory, Stored

LEMMA StoredHeld ==
  ASSUME NEW mem, NEW a, NEW v, NEW c
  PROVE  Held(Stored(mem, a, v), c) = IF c = a THEN v ELSE Held(mem, c)
BY DEF Held, Stored

-----------------------------------------------------------------------------
(* Decoding *)

Registers(r) == r \in [{"ac", "x", "y", "sp"} -> Byte]

LEMMA Devices == DeviceByte \subseteq Byte
BY CpuAssumption

LEMMA ReadType ==
  ASSUME TypeOK, NEW answer \in [Readable -> DeviceByte], NEW a
  PROVE  Read(answer, a) \in Byte
<1>1. Memory(bytes)
  BY DEF TypeOK, Memory
<1>2. Held(bytes, a) \in Byte
  BY <1>1, HeldType
<1> QED
  BY <1>2, Devices DEF Read

LEMMA AddressType == ASSUME NEW low \in Byte, NEW high \in Byte PROVE high * 256 + low \in Word
BY WordBounds, ByteBounds, Words

LEMMA FetchedType ==
  ASSUME TypeOK, NEW answer \in [Readable -> DeviceByte]
  PROVE  LET f == Fetched(answer)
         IN  f.length \in 1 .. 3 /\ f.low \in Byte /\ f.high \in Byte
<1> DEFINE length == LengthOf[Read(answer, pc)]
<1>1. length \in 1 .. 3
  BY ReadType, LengthType
<1>2. \A a : Read(answer, a) \in Byte
  BY ReadType
<1> QED
  BY <1>1, <1>2, ByteBounds DEF Fetched

LEMMA PointerType ==
  ASSUME TypeOK, NEW answer \in [Readable -> DeviceByte], NEW f
  PROVE  PointerOf(answer, f) \in Word
<1>1. Read(answer, PointerAt(f)[1]) \in Byte /\ Read(answer, PointerAt(f)[2]) \in Byte
  BY ReadType
<1> QED
  BY <1>1, ByteBounds, WordBounds, Words DEF PointerOf

LEMMA ReferenceType ==
  ASSUME Registers(reg), NEW f, f.low \in Byte, f.high \in Byte,
         NEW pointer \in Word
  PROVE  ReferenceOf(f, pointer) \in Word
<1>1. reg.x \in Byte /\ reg.y \in Byte
  BY DEF Registers
<1>2. f.high * 256 + f.low \in Word
  BY AddressType
<1>3. f.low \in Word /\ f.low + reg.x \in Word /\ f.low + reg.y \in Word
  BY <1>1, ByteBounds, WordBounds, Words
<1>4. /\ f.high * 256 + f.low + reg.x \in Int
      /\ f.high * 256 + f.low + reg.y \in Int
      /\ pointer + reg.y \in Int
  BY <1>1, <1>2, ByteBounds, WordBounds, Words
<1>5. /\ Wide(f.high * 256 + f.low + reg.x) \in Word
      /\ Wide(f.high * 256 + f.low + reg.y) \in Word
      /\ Wide(pointer + reg.y) \in Word
  BY <1>4, WideType
<1> QED
  BY <1>2, <1>3, <1>5, WordBounds, Words DEF ReferenceOf, Referring, Indirect

LEMMA OperandType ==
  ASSUME TypeOK, NEW answer \in [Readable -> DeviceByte], NEW f, NEW ref,
         f.low \in Byte
  PROVE  OperandOf(answer, f, ref) \in Byte
<1>1. Read(answer, ref) \in Byte
  BY ReadType
<1>2. reg.ac \in Byte
  BY DEF TypeOK
<1> QED
  BY <1>1, <1>2, ByteBounds DEF OperandOf

\* What an instruction is made of, whatever the memory and the devices hold
Instruction(i) ==
  /\ i.length \in 1 .. 3
  /\ i.low \in Byte
  /\ i.word \in Word
  /\ i.pointer \in Word
  /\ i.operand \in Byte
  /\ i.ref \in Word

LEMMA DecodedType ==
  ASSUME TypeOK, NEW answer \in [Readable -> DeviceByte]
  PROVE  Instruction(Decoded(answer))
<1> DEFINE f       == Fetched(answer)
           pointer == PointerOf(answer, f)
           ref     == ReferenceOf(f, pointer)
<1>1. f.length \in 1 .. 3 /\ f.low \in Byte /\ f.high \in Byte
  BY FetchedType
<1>2. /\ Decoded(answer).length = f.length
      /\ Decoded(answer).low = f.low
      /\ Decoded(answer).word = f.high * 256 + f.low
      /\ Decoded(answer).pointer = pointer
      /\ Decoded(answer).mode = f.mode
      /\ Decoded(answer).ref = ref
      /\ Decoded(answer).operand = OperandOf(answer, f, ref)
  BY DEF Decoded
<1> HIDE DEF f
<1>3. pointer \in Word
  BY PointerType
<1> HIDE DEF pointer
<1>4. ref \in Word
  BY <1>1, <1>3, ReferenceType DEF TypeOK, Registers
<1> HIDE DEF ref
<1>5. OperandOf(answer, f, ref) \in Byte
  BY <1>1, OperandType
<1>6. f.high * 256 + f.low \in Word
  BY <1>1, AddressType
<1> QED
  BY <1>1, <1>2, <1>3, <1>4, <1>5, <1>6 DEF Instruction

-----------------------------------------------------------------------------
(* What each instruction leaves *)

Name == {"ac", "x", "y", "sp"}

LEMMA ResultType ==
  ASSUME Registers(reg), NEW r \in Name, NEW v \in Byte, Result(r, v)
  PROVE  Registers(reg')
BY DEF Registers, Result, Name

LEMMA FollowType ==
  ASSUME pc \in Word, NEW i, Instruction(i), Follow(i) PROVE pc' \in Word
BY WideType, WordBounds DEF Follow, Instruction

LEMMA CarryType == ASSUME NEW S \in SUBSET Bit, NEW up PROVE Put(S, Carry, up) \subseteq Bit
BY PutType, FlagsAreBits

LEMMA MovesType == \A n \in DOMAIN Moves : Moves[n][1] \in Name /\ Moves[n][2] \in Name
BY DEF Moves, Name

LEMMA SteppedType ==
  \A n \in DOMAIN Stepped : Stepped[n][1] \in Name /\ Stepped[n][2] \in Int
BY DEF Stepped, Name

LEMMA FlagOfType == \A n \in DOMAIN FlagOf : FlagOf[n] \in Bit
BY FlagsAreBits DEF FlagOf

LEMMA LoadedType == \A n \in DOMAIN Loaded : Loaded[n] \in Name
BY DEF Loaded, Name

LEMMA KeptType == \A n \in DOMAIN Kept : Kept[n] \in Name
BY DEF Kept, Name

LEMMA DownType == ASSUME NEW sp \in Byte PROVE Down(sp) \in Byte
BY NarrowType, ByteBounds DEF Down

LEMMA UpType == ASSUME NEW sp \in Byte PROVE Up(sp) \in Byte
BY NarrowType, ByteBounds DEF Up

LEMMA PushedType ==
  ASSUME NEW mem, Memory(mem), NEW sp \in Byte, NEW v \in Byte
  PROVE  Memory(Pushed(mem, sp, v))
<1>1. Stack + sp \in Word
  BY ByteBounds, WordBounds, Words DEF Stack
<1> QED
  BY <1>1, StoredType DEF Pushed

LEMMA TopType == ASSUME NEW mem, Memory(mem), NEW sp PROVE Top(mem, sp) \in Byte
BY HeldType DEF Top

LEMMA WrittenType ==
  ASSUME Memory(bytes), NEW a \in Word, NEW v \in Byte
  PROVE  Memory(Written(a, v))
BY StoredType DEF Written

LEMMA SplitType == ASSUME NEW w \in Word PROVE w % 256 \in Byte /\ w \div 256 \in Byte
BY ByteBounds, WordBounds, Words

LEMMA CarryInType == CarryIn \in {0, 1}
BY DEF CarryIn

LEMMA ModifiedType ==
  ASSUME NEW i, i.operand \in Byte, i.name \in {"asl", "lsr", "rol", "ror", "inc", "dec"}
  PROVE  Modified(i) \in Byte
<1> DEFINE v == i.operand
<1>1. v \in Int /\ 0 <= v /\ v <= 255
  BY ByteBounds
<1>2. Narrow(v * 2) \in Byte /\ Narrow(v + 1) \in Byte /\ Narrow(v + 255) \in Byte
  BY <1>1, NarrowType
<1>3. v \div 2 \in Byte
  BY <1>1, ByteBounds
<1>4. Narrow(v * 2) + CarryIn \in Byte
  BY <1>1, <1>2, CarryInType, ByteBounds DEF Narrow
<1>5. v \div 2 + 128 * CarryIn \in Byte
  BY <1>1, CarryInType, ByteBounds
<1> QED
  BY <1>2, <1>3, <1>4, <1>5 DEF Modified

\* TypeOK but for the history
Typed == pc \in Word /\ Registers(reg) /\ sr \subseteq Bit /\ Memory(bytes)

\* Each instruction leaves registers, flags, program counter and memory in range
LEMMA ExecuteType ==
  ASSUME Typed, NEW i, Instruction(i), Execute(i)
  PROVE  Typed'
<1>1. /\ pc \in Word /\ Registers(reg) /\ sr \in SUBSET Bit /\ Memory(bytes)
      /\ reg.ac \in Byte /\ reg.x \in Byte /\ reg.y \in Byte /\ reg.sp \in Byte
      /\ \A r \in Name : reg[r] \in Byte
  BY DEF Typed, Registers, Name
<1>2. Follow(i) => pc' \in Word
  BY <1>1, FollowType
<1>3. CASE Transfer(i)
  <2> DEFINE v == reg[Moves[i.name][1]]
  <2>1. v \in Byte /\ Moves[i.name][2] \in Name
    BY <1>1, <1>3, MovesType DEF Transfer
  <2>2. Registers(reg')
    BY <1>1, <1>3, <2>1, ResultType DEF Transfer
  <2>3. sr' \subseteq Bit
    BY <1>1, <1>3, NegAndZeroType DEF Transfer
  <2> QED
    BY <1>1, <1>2, <1>3, <2>2, <2>3 DEF Transfer, Typed
<1>4. CASE SetFlag(i)
  <2>1. sr' \subseteq Bit
    BY <1>1, <1>4, PutType, FlagOfType DEF SetFlag
  <2> QED
    BY <1>1, <1>2, <1>4, <2>1 DEF SetFlag, Typed
<1>5. CASE Brk(i)
  BY <1>1, <1>2, <1>5, FlagsAreBits DEF Brk, Typed
<1>6. CASE Pass(i)
  BY <1>1, <1>2, <1>6 DEF Pass, Typed
<1>7. CASE StepIndex(i)
  <2> DEFINE r == Stepped[i.name][1]
             v == Narrow(reg[r] + Stepped[i.name][2])
  <2>1. r \in Name /\ v \in Byte
    BY <1>1, <1>7, SteppedType, NarrowType, ByteBounds DEF StepIndex
  <2>2. Registers(reg')
    BY <1>1, <1>7, <2>1, ResultType DEF StepIndex
  <2>3. sr' \subseteq Bit
    BY <1>1, <1>7, NegAndZeroType DEF StepIndex
  <2> QED
    BY <1>1, <1>2, <1>7, <2>2, <2>3 DEF StepIndex, Typed
<1>8. CASE Branch(i)
  <2>1. Signed(i.low) \in Int /\ i.length \in Int /\ pc \in Int
    BY <1>1, ByteBounds, WordBounds, Words DEF Instruction, Signed
  <2>2. pc' \in Word
    BY <1>8, <2>1, WideType DEF Branch
  <2> QED
    BY <1>1, <1>8, <2>2 DEF Branch, Typed
<1>9. CASE Jump(i)
  BY <1>1, <1>9 DEF Jump, Instruction, Typed
<1>10. CASE Push(i)
  <2> DEFINE v == IF i.name = "pha" THEN reg.ac ELSE ByteOf(sr)
  <2>1. v \in Byte
    BY <1>1, ByteOfType
  <2>2. Memory(bytes')
    BY <1>1, <1>10, <2>1, PushedType DEF Push
  <2>3. Registers(reg')
    BY <1>1, <1>10, ResultType, DownType DEF Push, Name
  <2> QED
    BY <1>1, <1>2, <1>10, <2>2, <2>3 DEF Push, Typed
<1>11. CASE Pull(i)
  <2> DEFINE v == Top(bytes, reg.sp)
  <2>1. v \in Byte /\ Up(reg.sp) \in Byte
    BY <1>1, TopType, UpType
  <2>2. Registers(reg')
    BY <1>1, <1>11, <2>1 DEF Pull, Result, Registers
  <2>3. sr' \subseteq Bit
    BY <1>1, <1>11, <2>1, NegAndZeroType, BitsType DEF Pull
  <2> QED
    BY <1>1, <1>2, <1>11, <2>2, <2>3 DEF Pull, Typed
<1>12. CASE Call(i)
  <2>1. pc % 256 \in Byte /\ pc \div 256 \in Byte
    BY <1>1, SplitType
  <2>2. Down(reg.sp) \in Byte /\ Down(Down(reg.sp)) \in Byte
    BY <1>1, DownType
  <2>3. Memory(bytes')
    BY <1>1, <1>12, <2>1, <2>2, PushedType DEF Call
  <2>4. Registers(reg')
    BY <1>1, <1>12, <2>2, ResultType DEF Call, Name
  <2> QED
    BY <1>1, <1>12, <2>3, <2>4 DEF Call, Instruction, Typed
<1>13. CASE Return(i)
  <2>1. Top(bytes, reg.sp) \in Byte /\ Top(bytes, Up(reg.sp)) \in Byte
    BY <1>1, TopType
  <2>2. ReturnOf(bytes, reg.sp) \in Word
    BY <2>1, WideType, ByteBounds DEF ReturnOf
  <2>3. pc' \in Word
    BY <1>13, <2>2, WideType, WordBounds DEF Return, Instruction
  <2>4. Registers(reg')
    BY <1>1, <1>13, ResultType, UpType DEF Return, Name
  <2> QED
    BY <1>1, <1>13, <2>3, <2>4 DEF Return, Typed
<1>14. CASE Add(i)
  <2> DEFINE operand == IF i.name = "adc" THEN i.operand ELSE 255 - i.operand
             sum     == Narrow(reg.ac + operand + CarryIn)
             flags   == CarryWithComparison(
                          OverflowWithComparison(sr, reg.ac, operand, sum), sum, operand)
  <2>1. sum \in Byte
    BY <1>1, NarrowType, CarryInType, ByteBounds DEF Instruction
  <2>2. Result("ac", sum) /\ sr' = NegAndZero(flags, sum)
    BY <1>14 DEF Add
  <2>3. Registers(reg')
    BY <1>1, <2>1, <2>2, ResultType DEF Name
  <2> HIDE DEF operand, sum
  <2>4. OverflowWithComparison(sr, reg.ac, operand, sum) \in SUBSET Bit
    BY <1>1, PutType, FlagsAreBits DEF OverflowWithComparison
  <2>5. flags \in SUBSET Bit
    BY <2>4, CarryType DEF CarryWithComparison
  <2> HIDE DEF flags
  <2>6. sr' \subseteq Bit
    BY <2>2, <2>5, NegAndZeroType
  <2> QED
    BY <1>1, <1>2, <1>14, <2>3, <2>6 DEF Add, Typed
<1>15. CASE Combine(i)
  <2> DEFINE v == Combined(i.name, Bits[reg.ac], Bits[i.operand])
  <2>1. v \in Byte
    BY ByteOfType DEF Combined
  <2>2. Result("ac", v) /\ sr' = NegAndZero(sr, v)
    BY <1>15 DEF Combine
  <2> HIDE DEF v
  <2>3. Registers(reg') /\ sr' \subseteq Bit
    BY <1>1, <2>1, <2>2, ResultType, NegAndZeroType DEF Name
  <2> QED
    BY <1>1, <1>2, <1>15, <2>3 DEF Combine, Typed
<1>16. CASE Compare(i)
  <2> DEFINE r     == reg[Compared[i.name]]
             flags == CarryWithComparison(sr, i.operand, r)
  <2>1. flags \in SUBSET Bit
    BY <1>1, CarryType DEF CarryWithComparison
  <2>2. sr' = NegAndZero(flags, Narrow(r - i.operand))
    BY <1>16 DEF Compare
  <2> HIDE DEF flags
  <2>3. sr' \subseteq Bit
    BY <2>1, <2>2, NegAndZeroType
  <2> QED
    BY <1>1, <1>2, <1>16, <2>3 DEF Compare, Typed
<1>17. CASE BitTest(i)
  <2> DEFINE flags == (sr \ {Overflow, Negative}) \cup (Bits[i.operand] \cap {Overflow, Negative})
  <2>1. flags \in SUBSET Bit
    BY <1>1, FlagsAreBits
  <2>2. sr' \subseteq Bit
    BY <1>17, <2>1, PutType, FlagsAreBits DEF BitTest
  <2> QED
    BY <1>1, <1>2, <1>17, <2>2 DEF BitTest, Typed
<1>18. CASE Load(i)
  <2>1. Registers(reg')
    BY <1>1, <1>18, ResultType, LoadedType DEF Load, Instruction
  <2>2. sr' \subseteq Bit
    BY <1>1, <1>18, NegAndZeroType DEF Load
  <2> QED
    BY <1>1, <1>2, <1>18, <2>1, <2>2 DEF Load, Typed
<1>19. CASE Store(i)
  <2>1. Memory(bytes')
    BY <1>1, <1>19, WrittenType, KeptType DEF Store, Instruction
  <2> QED
    BY <1>1, <1>2, <1>19, <2>1 DEF Store, Typed
<1>20. CASE Modify(i)
  <2> DEFINE v == Modified(i)
  <2>1. v \in Byte
    BY <1>20, ModifiedType DEF Modify, Instruction
  <2> DEFINE shifted == IF i.name \in {"asl", "rol"} THEN Put(sr, Carry, i.operand >= 128)
                        ELSE IF i.name \in {"lsr", "ror"} THEN Put(sr, Carry, i.operand % 2 = 1)
                        ELSE sr
  <2>2. shifted \in SUBSET Bit
    BY <1>1, CarryType
  <2>3. /\ sr' = IF i.name = "lsr" THEN Put(shifted, Zero, v = 0) ELSE NegAndZero(shifted, v)
        /\ IF i.mode = "acc"
           THEN Result("ac", v) /\ UNCHANGED bytes
           ELSE bytes' = Written(i.ref, v) /\ UNCHANGED reg
        /\ Follow(i)
    BY <1>20 DEF Modify
  <2> HIDE DEF v, shifted
  <2>4. sr' \subseteq Bit
    BY <2>2, <2>3, PutType, NegAndZeroType, FlagsAreBits
  <2>5. Registers(reg') /\ Memory(bytes')
    BY <1>1, <2>1, <2>3, ResultType, WrittenType DEF Name, Instruction
  <2> QED
    BY <1>2, <2>3, <2>4, <2>5 DEF Typed
<1> QED
  BY <1>3, <1>4, <1>5, <1>6, <1>7, <1>8, <1>9, <1>10, <1>11, <1>12, <1>13, <1>14, <1>15,
     <1>16, <1>17, <1>18, <1>19, <1>20 DEF Execute

-----------------------------------------------------------------------------
(* Type correctness *)

History == frames \in Seq(Frame) /\ depth \in 0 .. StackSize /\ nested \in BOOLEAN

LEMMA TypedIsTypeOK == TypeOK <=> Typed /\ status \in {"running", "aborted"} /\ History
BY DEF TypeOK, Typed, Registers, Memory, History

LEMMA VectorType ==
  ASSUME TypeOK, NEW answer \in [Readable -> DeviceByte], NEW low
  PROVE  Vector(answer, low) \in Word
<1>1. Read(answer, low) \in Byte /\ Read(answer, low + 1) \in Byte
  BY ReadType
<1> QED
  BY <1>1, ByteBounds, WordBounds, Words DEF Vector

\* The latest call, if there is one
LEMMA FloorType ==
  ASSUME frames \in Seq(Frame), frames # <<>>
  PROVE  /\ Len(frames) \in Nat /\ Len(frames) \in DOMAIN frames
         /\ frames[Len(frames)] \in Frame /\ Floor \in 0 .. StackSize
<1>1. Len(frames) \in Nat /\ Len(frames) \in 1 .. Len(frames) /\ DOMAIN frames = 1 .. Len(frames)
  OBVIOUS
<1>2. frames[Len(frames)] \in Frame
  BY <1>1
<1> QED
  BY <1>1, <1>2 DEF Floor, Frame

\* What the instructions of the stack put there
LEMMA GrowsIs ==
  /\ DOMAIN Grows = {"jsr", "rts", "pha", "php", "pla", "plp"}
  /\ Grows["jsr"] = 2 /\ Grows["rts"] = -2
  /\ Grows["pha"] = 1 /\ Grows["php"] = 1 /\ Grows["pla"] = -1 /\ Grows["plp"] = -1
BY DEF Grows

\* What the history keeps of a step has its type
LEMMA RememberedType ==
  ASSUME TypeOK, NEW i, Instruction(i)
  PROVE  Remembered(i) \in Seq(Frame) /\ Deepened(i) \in 0 .. StackSize
<1>1. [address |-> Wide(pc + i.length), depth |-> depth] \in Frame
  <2>1. pc \in Int
    BY WordBounds DEF TypeOK
  <2>2. Wide(pc + i.length) \in Word
    BY <2>1, WideType DEF Instruction
  <2> QED
    BY <2>2 DEF TypeOK, Frame
<1>2. frames \in Seq(Frame) /\ depth \in 0 .. 256 /\ StackSize = 256
  BY DEF TypeOK, StackSize
<1>3. frames # <<>> => SubSeq(frames, 1, Len(frames) - 1) \in Seq(Frame)
  BY <1>2
<1>4. Remembered(i) \in Seq(Frame)
  BY <1>1, <1>2, <1>3 DEF Remembered
<1>5. ASSUME Nests(i), i.name \in DOMAIN Grows, frames # <<>> \/ i.name = "jsr"
      PROVE  depth + Grows[i.name] \in 0 .. 256
  <2>1. CASE i.name = "jsr"
    BY <1>2, <1>5, <2>1, GrowsIs DEF Nests
  <2>2. CASE i.name # "jsr"
    <3>1. Floor \in 0 .. 256
      BY <1>2, <1>5, <2>2, FloorType
    <3>2. /\ i.name \in {"pha", "php"} => depth < 256
          /\ i.name \in {"pla", "plp"} => depth > Floor + 2
          /\ i.name = "rts" => depth = Floor + 2
      BY <1>2, <1>5, <2>2 DEF Nests
    <3>3. i.name \in {"rts", "pha", "php", "pla", "plp"}
      BY <1>5, <2>2, GrowsIs
    <3>4. CASE i.name = "rts"
      BY <1>2, <3>1, <3>2, <3>4, GrowsIs
    <3>5. CASE i.name \in {"pha", "php"}
      <4>1. Grows[i.name] = 1
        BY <3>5, GrowsIs
      <4> QED
        BY <1>2, <3>2, <3>5, <4>1
    <3>6. CASE i.name \in {"pla", "plp"}
      <4>1. Grows[i.name] = -1
        BY <3>6, GrowsIs
      <4> QED
        BY <1>2, <3>1, <3>2, <3>6, <4>1
    <3> QED
      BY <3>3, <3>4, <3>5, <3>6
  <2> QED
    BY <2>1, <2>2
<1>6. Deepened(i) \in 0 .. StackSize
  BY <1>2, <1>5, Zenon DEF Deepened
<1> QED
  BY <1>4, <1>6

\* The instruction a step executes, and what it finds
LEMMA StepExecutes ==
  ASSUME TypeOK, Step
  PROVE  \E i : /\ Instruction(i) /\ Execute(i) /\ status' = status
                /\ frames' = Remembered(i) /\ depth' = Deepened(i)
                /\ nested' = (nested /\ Nests(i))
                /\ last'.name = i.name /\ last'.operand = i.operand
                /\ last'.pc = pc /\ last'.reg = reg /\ last'.sr = sr
<1>1. PICK answer \in [Readable -> DeviceByte] :
        LET i == Decoded(answer) IN
        /\ Execute(i) /\ frames' = Remembered(i) /\ depth' = Deepened(i)
        /\ nested' = (nested /\ Nests(i))
        /\ last'.name = i.name /\ last'.operand = i.operand
        /\ last'.pc = pc /\ last'.reg = reg /\ last'.sr = sr
  BY DEF Step
<1> DEFINE i == Decoded(answer)
<1>2. Instruction(i)
  BY DecodedType
<1>3. status' = status
  BY DEF Step
<1> HIDE DEF i
<1> QED
  BY <1>1, <1>2, <1>3 DEF i

LEMMA InitType == Init => TypeOK
<1> SUFFICES ASSUME Init PROVE TypeOK
  OBVIOUS
<1>1. PICK s \in Start : pc = s.pc /\ reg = s.reg /\ sr = s.sr /\ bytes = s.bytes
  BY DEF Init
<1>2. Typed
  BY <1>1, StartAssumption DEF Typed, Registers, Memory
<1>3. status = "running" /\ frames = <<>> /\ depth = 0 /\ nested = TRUE
  BY DEF Init
<1>4. History
  BY <1>3 DEF History, StackSize
<1> QED
  BY <1>2, <1>3, <1>4, TypedIsTypeOK

LEMMA StepType == TypeOK /\ [Next]_vars => TypeOK'
<1> SUFFICES ASSUME TypeOK, [Next]_vars PROVE TypeOK'
  OBVIOUS
<1>1. CASE Step
  <2>1. PICK i : /\ Instruction(i) /\ Execute(i) /\ status' = status
                 /\ frames' = Remembered(i) /\ depth' = Deepened(i)
                 /\ nested' = (nested /\ Nests(i))
    BY <1>1, StepExecutes
  <2>2. Typed'
    BY <2>1, ExecuteType, TypedIsTypeOK
  <2>3. frames' \in Seq(Frame) /\ depth' \in 0 .. StackSize
    BY <2>1, RememberedType
  <2>4. nested' \in BOOLEAN
    BY <2>1
  <2> QED
    BY <2>1, <2>2, <2>3, <2>4, TypedIsTypeOK DEF TypeOK, Typed, Registers, Memory
<1>2. CASE Abort
  BY <1>2 DEF Abort, TypeOK
<1>3. CASE Nmi
  <2>1. pc' \in Word
    BY <1>3, VectorType DEF Nmi
  <2> QED
    BY <1>3, <2>1 DEF Nmi, TypeOK
<1>4. CASE Reset
  <2>1. pc' \in Word
    BY <1>4, VectorType DEF Reset
  <2>2. reg' \in [{"ac", "x", "y", "sp"} -> Byte]
    BY <1>4, ByteBounds DEF Reset
  <2>3. sr' \subseteq Bit
    BY <1>4, FlagsAreBits DEF Reset
  <2>4. frames' = <<>> /\ depth' = 0 /\ nested' = TRUE /\ bytes' = bytes /\ status' = status
    BY <1>4 DEF Reset
  <2>5. frames' \in Seq(Frame)
    BY <2>4
  <2>6. depth' \in 0 .. StackSize
    BY <2>4 DEF StackSize
  <2> QED
    BY <2>1, <2>2, <2>3, <2>4, <2>5, <2>6 DEF TypeOK
<1>5. CASE UNCHANGED vars
  BY <1>5 DEF vars, TypeOK
<1> QED
  BY <1>1, <1>2, <1>3, <1>4, <1>5 DEF Next

\* Whatever a program does, the registers stay bytes, the program counter stays
\* 16 bits wide, and every byte a step writes, to the stack too, is a byte at an
\* address of the processor.
THEOREM TypeCorrect == Spec => []TypeOK
BY InitType, StepType, PTL DEF Spec

-----------------------------------------------------------------------------
(* Calls *)

LEMMA OnlyCall == ASSUME NEW i, Execute(i), i.name = "jsr" PROVE Call(i)
<1>1. /\ "jsr" \notin DOMAIN Moves /\ "jsr" \notin DOMAIN FlagOf /\ "jsr" \notin DOMAIN Stepped
      /\ "jsr" \notin DOMAIN Condition /\ "jsr" \notin DOMAIN Compared
      /\ "jsr" \notin DOMAIN Loaded /\ "jsr" \notin DOMAIN Kept
  BY DEF Moves, FlagOf, Stepped, Condition, Compared, Loaded, Kept
<1> QED
  BY <1>1 DEF Execute, Transfer, SetFlag, Brk, Pass, StepIndex, Branch, Jump, Push, Pull, Return,
              Add, Combine, Compare, BitTest, Load, Store, Modify

\* The stack pointer wraps within its page, down and up alike
LEMMA UpDown == ASSUME NEW sp \in Byte PROVE Up(Down(sp)) = sp /\ Down(sp) # sp
BY ByteBounds DEF Up, Down, Narrow

LEMMA CallIsUndone ==
  ASSUME TypeOK, NEW i, Call(i)
  PROVE  /\ Wide(ReturnOf(bytes', reg'.sp) + 1) = Wide(pc + 3)
         /\ Up(Up(reg'.sp)) = reg.sp
<1> DEFINE sp    == reg.sp
           inner == Pushed(bytes, sp, pc % 256)
<1>1. sp \in Byte /\ Down(sp) \in Byte /\ Down(Down(sp)) \in Byte
  BY DownType DEF TypeOK
<1>2. reg'.sp = Down(Down(sp))
  BY DEF Call, Result, TypeOK
<1>3. bytes' = Pushed(inner, Down(sp), pc \div 256)
  BY DEF Call
<1>4. Up(reg'.sp) = Down(sp) /\ Up(Up(reg'.sp)) = sp
  BY <1>1, <1>2, UpDown
<1>5. Stack + sp # Stack + Down(sp)
  BY <1>1, UpDown, ByteBounds DEF Stack
<1>6. Top(bytes', reg'.sp) = pc \div 256
  BY <1>3, <1>4, StoredHeld DEF Top, Pushed
<1>7. Top(bytes', Up(reg'.sp)) = pc % 256
  <2>1. Held(bytes', Stack + sp) = Held(inner, Stack + sp)
    BY <1>3, <1>5, StoredHeld DEF Pushed
  <2>2. Held(inner, Stack + sp) = pc % 256
    BY StoredHeld DEF Pushed
  <2> QED
    BY <1>4, <2>1, <2>2 DEF Top
<1>8. ReturnOf(bytes', reg'.sp) = Wide(256 * (pc \div 256) + (pc % 256) + 2)
  BY <1>6, <1>7, Zenon DEF ReturnOf
<1>9. pc \in Int /\ 256 * (pc \div 256) + (pc % 256) = pc
  <2>1. pc \in Word
    BY DEF TypeOK
  <2>2. pc \in Int
    BY <2>1, WordBounds
  <2> QED
    BY <2>2
<1>10. Wide(Wide(pc + 2) + 1) = Wide(pc + 3)
  BY <1>9, Words DEF Wide
<1> QED
  BY <1>4, <1>8, <1>9, <1>10

\* jsr and rts agree, for every stack pointer and every address a jsr can be at,
\* the ones where the stack or the return address wraps among them: what was
\* pushed low byte first is read high byte first, and what is added to it makes
\* up for the pc that was not advanced.
THEOREM CallsCanReturn == Spec => []RtsUndoesJsr
<1>1. Init => RtsUndoesJsr
  BY DEF Init, None, RtsUndoesJsr
<1>2. TypeOK /\ RtsUndoesJsr /\ [Next]_vars => RtsUndoesJsr'
  <2> SUFFICES ASSUME TypeOK, RtsUndoesJsr, [Next]_vars PROVE RtsUndoesJsr'
    OBVIOUS
  <2>1. CASE Step
    <3> SUFFICES ASSUME last'.name = "jsr"
                 PROVE  /\ Wide(ReturnOf(bytes', reg'.sp) + 1) = Wide(last'.pc + 3)
                        /\ Up(Up(reg'.sp)) = last'.reg.sp
      BY DEF RtsUndoesJsr
    <3>1. PICK i : Execute(i) /\ i.name = "jsr" /\ last'.pc = pc /\ last'.reg = reg
      BY <2>1, StepExecutes
    <3>2. Call(i)
      BY <3>1, OnlyCall
    <3> QED
      BY <3>1, <3>2, CallIsUndone
  <2>2. CASE Nmi \/ Reset
    <3>1. last'.name = "none"
      BY <2>2 DEF Nmi, Reset, None
    <3> QED
      BY <3>1 DEF RtsUndoesJsr
  <2>3. CASE Abort \/ UNCHANGED vars
    <3>1. UNCHANGED <<bytes, reg, last>>
      BY <2>3 DEF Abort, vars
    <3> QED
      BY <3>1 DEF RtsUndoesJsr
  <2> QED
    BY <2>1, <2>2, <2>3 DEF Next
<1> QED
  BY <1>1, <1>2, TypeCorrect, PTL DEF Spec

-----------------------------------------------------------------------------
(* Comparisons *)

LEMMA OnlyCompare == ASSUME NEW i, Execute(i), i.name \in DOMAIN Compared PROVE Compare(i)
<1>1. i.name \in {"cmp", "cpx", "cpy"}
  BY DEF Compared
<1>2. /\ i.name \notin DOMAIN Moves /\ i.name \notin DOMAIN FlagOf /\ i.name \notin DOMAIN Stepped
      /\ i.name \notin DOMAIN Condition /\ i.name \notin DOMAIN Loaded /\ i.name \notin DOMAIN Kept
  BY <1>1 DEF Moves, FlagOf, Stepped, Condition, Loaded, Kept
<1> QED
  BY <1>1, <1>2 DEF Execute, Transfer, SetFlag, Brk, Pass, StepIndex, Branch, Jump, Push, Pull,
                    Call, Return, Add, Combine, BitTest, Load, Store, Modify

\* The three flags a comparison sets do not disturb each other
LEMMA FlagsOfComparison ==
  ASSUME NEW S, NEW a, NEW b, NEW v
  PROVE  LET flags == NegAndZero(CarryWithComparison(S, a, b), v)
         IN  /\ (Carry \in flags) = (a <= b)
             /\ (Zero \in flags) = (v = 0)
             /\ (Negative \in flags) = (v >= 128)
<1>1. Carry # Zero /\ Carry # Negative /\ Zero # Negative
  BY DEF Carry, Zero, Negative
<1> DEFINE carried == Put(S, Carry, a <= b)
           signed  == Put(carried, Negative, v >= 128)
           flags   == Put(signed, Zero, v = 0)
<1>2. Carry \in carried <=> a <= b
  BY DEF Put
<1> HIDE DEF carried
<1>3. (Carry \in signed <=> Carry \in carried) /\ (Negative \in signed <=> v >= 128)
  BY <1>1 DEF Put
<1> HIDE DEF signed
<1>4. /\ Carry \in flags <=> Carry \in signed
      /\ Negative \in flags <=> Negative \in signed
      /\ Zero \in flags <=> v = 0
  BY <1>1 DEF Put
<1>5. NegAndZero(CarryWithComparison(S, a, b), v) = flags
  BY Zenon DEF NegAndZero, CarryWithComparison, flags, signed, carried
<1> HIDE DEF flags
<1> QED
  BY <1>2, <1>3, <1>4, <1>5

\* After a comparison of any two bytes the branches order them as unsigned:
\* carry says at least, zero says equal, negative is bit seven of the difference.
THEOREM ComparisonsAreUnsigned == Spec => []ComparisonsOrder
<1>1. Init => ComparisonsOrder
  <2>1. "none" \notin DOMAIN Compared
    BY DEF Compared
  <2> QED
    BY <2>1 DEF Init, None, ComparisonsOrder
<1>2. TypeOK /\ ComparisonsOrder /\ [Next]_vars => ComparisonsOrder'
  <2> SUFFICES ASSUME TypeOK, ComparisonsOrder, [Next]_vars PROVE ComparisonsOrder'
    OBVIOUS
  <2>1. CASE Step
    <3>1. PICK i : /\ Instruction(i) /\ Execute(i)
                   /\ last'.name = i.name /\ last'.operand = i.operand /\ last'.reg = reg
      BY <2>1, StepExecutes
    <3> DEFINE a == i.operand
               r == reg[Compared[i.name]]
    <3> SUFFICES ASSUME i.name \in DOMAIN Compared
                 PROVE  /\ (Carry \in sr') = (r >= a)
                        /\ (Zero \in sr') = (r = a)
                        /\ (Negative \in sr') = (Narrow(r - a) >= 128)
      BY <3>1, Zenon DEF ComparisonsOrder
    <3>2. sr' = NegAndZero(CarryWithComparison(sr, a, r), Narrow(r - a))
      BY <3>1, OnlyCompare DEF Compare
    <3>3. /\ (Carry \in sr') = (a <= r)
          /\ (Zero \in sr') = (Narrow(r - a) = 0)
          /\ (Negative \in sr') = (Narrow(r - a) >= 128)
      BY <3>2, FlagsOfComparison
    <3>4. a \in Byte /\ r \in Byte
      BY <3>1 DEF Instruction, TypeOK, Compared
    <3> HIDE DEF a, r
    <3>5. (a <= r) = (r >= a) /\ (Narrow(r - a) = 0) = (r = a)
      BY <3>4, ByteBounds DEF Narrow
    <3> QED
      BY <3>3, <3>5
  <2>2. CASE Nmi \/ Reset
    <3>1. last'.name = "none"
      BY <2>2 DEF Nmi, Reset, None
    <3>2. "none" \notin DOMAIN Compared
      BY DEF Compared
    <3> QED
      BY <3>1, <3>2 DEF ComparisonsOrder
  <2>3. CASE Abort \/ UNCHANGED vars
    <3>1. UNCHANGED <<sr, last>>
      BY <2>3 DEF Abort, vars
    <3> QED
      BY <2>3, <3>1 DEF ComparisonsOrder
  <2> QED
    BY <2>1, <2>2, <2>3 DEF Next
<1> QED
  BY <1>1, <1>2, TypeCorrect, PTL DEF Spec

-----------------------------------------------------------------------------
(* Additions *)

LEMMA OnlyAdd == ASSUME NEW i, Execute(i), i.name \in {"adc", "sbc"} PROVE Add(i)
<1>1. /\ i.name \notin DOMAIN Moves /\ i.name \notin DOMAIN FlagOf /\ i.name \notin DOMAIN Stepped
      /\ i.name \notin DOMAIN Condition /\ i.name \notin DOMAIN Loaded /\ i.name \notin DOMAIN Kept
      /\ i.name \notin DOMAIN Compared
  BY DEF Moves, FlagOf, Stepped, Condition, Loaded, Kept, Compared
<1> QED
  BY <1>1 DEF Execute, Transfer, SetFlag, Brk, Pass, StepIndex, Branch, Jump, Push, Pull,
              Call, Return, Compare, Combine, BitTest, Load, Store, Modify

\* Nothing that is set later disturbs the carry of a sum
LEMMA CarryOfSum ==
  ASSUME NEW S, NEW sum, NEW operand
  PROVE  (Carry \in NegAndZero(CarryWithComparison(S, sum, operand), sum)) = (sum <= operand)
BY FlagsOfComparison

\* A truncated sum is no more than one of its terms when it was truncated, or when
\* nothing was added to that term
LEMMA TruncatedSum ==
  ASSUME NEW a \in Byte, NEW b \in Byte, NEW c \in {0, 1}
  PROVE  (Narrow(a + b + c) <= b) = (a + b + c >= 256 \/ a + c = 0)
<1>1. a \in Int /\ 0 <= a /\ a <= 255 /\ b \in Int /\ 0 <= b /\ b <= 255
  BY ByteBounds
<1>2. CASE a + b + c < 256
  <2>1. Narrow(a + b + c) = a + b + c
    BY <1>1, <1>2 DEF Narrow
  <2>2. (a + b + c <= b) = (a + c = 0)
    BY <1>1
  <2> QED
    BY <1>1, <1>2, <2>1, <2>2
<1>3. CASE a + b + c >= 256
  <2>1. Narrow(a + b + c) = a + b + c - 256
    BY <1>1, <1>3 DEF Narrow
  <2>2. a + b + c - 256 <= b
    BY <1>1
  <2> QED
    BY <1>3, <2>1, <2>2
<1> QED
  BY <1>1, <1>2, <1>3

\* The carry that an adc or sbc leaves: set where the sum does not fit the byte, and
\* also where nothing is added to the operand.
CarryUnlessZero ==
  last.name \in {"adc", "sbc"} =>
    LET operand == IF last.name = "adc" THEN last.operand ELSE 255 - last.operand
        carry   == IF Carry \in last.sr THEN 1 ELSE 0
    IN  (Carry \in sr) = (last.reg.ac + operand + carry >= 256 \/ last.reg.ac + carry = 0)

\* The code finds the carry by comparing the truncated sum with the operand (cpu.c 48-49,
\* 111-115). tests/overflow.s:61 has it that "Carry is set if U1 + U2 >= 256", and that is
\* wrong of the code in one case and no other: an accumulator and a carry of zero, which
\* come out with the carry set whatever the operand (MCCpu!AdditionsAreAsDescribed).
THEOREM CarryOnlyWrongAtZero == Spec => []CarryUnlessZero
<1>1. Init => CarryUnlessZero
  BY DEF Init, None, CarryUnlessZero
<1>2. TypeOK /\ CarryUnlessZero /\ [Next]_vars => CarryUnlessZero'
  <2> SUFFICES ASSUME TypeOK, CarryUnlessZero, [Next]_vars PROVE CarryUnlessZero'
    OBVIOUS
  <2>1. CASE Step
    <3>1. PICK i : /\ Instruction(i) /\ Execute(i) /\ last'.sr = sr
                   /\ last'.name = i.name /\ last'.operand = i.operand /\ last'.reg = reg
      BY <2>1, StepExecutes
    <3> DEFINE operand == IF last'.name = "adc" THEN last'.operand ELSE 255 - last'.operand
               carry   == IF Carry \in last'.sr THEN 1 ELSE 0
    <3> SUFFICES ASSUME last'.name \in {"adc", "sbc"}
                 PROVE  (Carry \in sr') =
                          (last'.reg.ac + operand + carry >= 256 \/ last'.reg.ac + carry = 0)
      BY Zenon DEF CarryUnlessZero
    <3>2. /\ operand = IF i.name = "adc" THEN i.operand ELSE 255 - i.operand
          /\ carry = CarryIn /\ last'.reg.ac = reg.ac /\ i.name \in {"adc", "sbc"}
      BY <3>1 DEF CarryIn
    <3>3. reg.ac \in Byte /\ operand \in Byte
      <4>1. i.operand \in Byte /\ 255 - i.operand \in Byte
        BY <3>1, ByteBounds DEF Instruction
      <4> QED
        BY <3>2, <4>1 DEF TypeOK
    <3>4. sr' = NegAndZero(CarryWithComparison(
                  OverflowWithComparison(sr, reg.ac, operand, Narrow(reg.ac + operand + CarryIn)),
                  Narrow(reg.ac + operand + CarryIn), operand), Narrow(reg.ac + operand + CarryIn))
      BY <3>2, <3>1, OnlyAdd DEF Add
    <3> HIDE DEF operand, carry
    <3>5. (Carry \in sr') = (Narrow(reg.ac + operand + CarryIn) <= operand)
      BY <3>4, CarryOfSum, Zenon
    <3> QED
      BY <3>2, <3>3, <3>5, CarryInType, TruncatedSum
  <2>2. CASE Nmi \/ Reset
    <3>1. last'.name = "none"
      BY <2>2 DEF Nmi, Reset, None
    <3> QED
      BY <3>1 DEF CarryUnlessZero
  <2>3. CASE Abort \/ UNCHANGED vars
    <3>1. UNCHANGED <<sr, last>>
      BY <2>3 DEF Abort, vars
    <3> QED
      BY <2>3, <3>1 DEF CarryUnlessZero
  <2> QED
    BY <2>1, <2>2, <2>3 DEF Next
<1> QED
  BY <1>1, <1>2, TypeCorrect, PTL DEF Spec

-----------------------------------------------------------------------------
(* Decoding by the bits of an opcode *)

\* What a step notes of the instruction it decodes
LEMMA StepDecodes ==
  ASSUME TypeOK, Step
  PROVE  \E b \in Byte : /\ last'.opcode = b /\ last'.name = MnemonicOf[b]
                         /\ last'.mode = ModeOf[b] /\ last'.length = LengthOf[b]
<1>1. PICK answer \in [Readable -> DeviceByte] :
        LET i == Decoded(answer) IN
        /\ last'.name = i.name /\ last'.opcode = i.opcode
        /\ last'.mode = i.mode /\ last'.length = i.length
  BY DEF Step
<1> DEFINE f == Fetched(answer)
<1>2. /\ Decoded(answer).name = MnemonicOf[f.opcode] /\ Decoded(answer).opcode = f.opcode
      /\ Decoded(answer).mode = f.mode /\ Decoded(answer).length = f.length
  BY DEF Decoded
<1>3. /\ f.opcode = Read(answer, pc)
      /\ f.mode = ModeOf[f.opcode] /\ f.length = LengthOf[f.opcode]
  BY DEF Fetched
<1> HIDE DEF f
<1>4. f.opcode \in Byte
  BY <1>3, ReadType
<1> QED
  BY <1>1, <1>2, <1>3, <1>4

\* Whatever instruction is executed, from memory or out of a device, the mode and the
\* length that the code takes from the bits of its opcode are those that the opcode is
\* named for (cpu.c 167-277).
THEOREM DecodingIsRight == Spec => []InstructionsMatchTheirNames
<1>1. Init => InstructionsMatchTheirNames
  BY DEF Init, None, InstructionsMatchTheirNames
<1>2. TypeOK /\ InstructionsMatchTheirNames /\ [Next]_vars => InstructionsMatchTheirNames'
  <2> SUFFICES ASSUME TypeOK, InstructionsMatchTheirNames, [Next]_vars
               PROVE  InstructionsMatchTheirNames'
    OBVIOUS
  <2>1. CASE Step
    <3>1. PICK b \in Byte : /\ last'.opcode = b /\ last'.name = MnemonicOf[b]
                            /\ last'.mode = ModeOf[b] /\ last'.length = LengthOf[b]
      BY <2>1, StepDecodes
    <3>2. CASE MnemonicOf[b] = "illegal"
      BY <3>1, <3>2 DEF InstructionsMatchTheirNames
    <3>3. CASE MnemonicOf[b] # "illegal"
      BY <3>1, <3>3, MeaningFits DEF InstructionsMatchTheirNames, Fits
    <3> QED
      BY <3>2, <3>3
  <2>2. CASE Nmi \/ Reset
    <3>1. last'.name = "none"
      BY <2>2 DEF Nmi, Reset, None
    <3> QED
      BY <3>1 DEF InstructionsMatchTheirNames
  <2>3. CASE Abort \/ UNCHANGED vars
    <3>1. UNCHANGED last
      BY <2>3 DEF Abort, vars
    <3> QED
      BY <2>3, <3>1 DEF InstructionsMatchTheirNames
  <2> QED
    BY <2>1, <2>2, <2>3 DEF Next
<1> QED
  BY <1>1, <1>2, TypeCorrect, PTL DEF Spec

-----------------------------------------------------------------------------
(* Returns *)

LEMMA NarrowSum ==
  ASSUME NEW m \in Int, NEW n \in Int
  PROVE  Narrow(Narrow(m) + n) = Narrow(m + n)
BY DEF Narrow

\* Two distances of less than a page from the stack pointer lead to two cells
LEMMA NarrowApart ==
  ASSUME NEW s \in Byte, NEW m \in 0 .. 255, NEW n \in 0 .. 255, m # n
  PROVE  Narrow(s + m) # Narrow(s + n)
<1>1. s \in 0 .. 255
  BY ByteBounds
<1>2. (s + m) % 256 = IF s + m < 256 THEN s + m ELSE s + m - 256
  BY <1>1
<1>3. (s + n) % 256 = IF s + n < 256 THEN s + n ELSE s + n - 256
  BY <1>1
<1> QED
  BY <1>1, <1>2, <1>3 DEF Narrow

LEMMA NarrowOfByte == ASSUME NEW s \in Byte PROVE Narrow(s) = s
BY ByteBounds DEF Narrow

LEMMA StackCells == ASSUME NEW m \in Int, NEW n \in Int
                    PROVE  /\ OnStack(Stack + Narrow(m))
                           /\ Stack + Narrow(m) = Stack + Narrow(n) <=> Narrow(m) = Narrow(n)
<1>1. Narrow(m) \in Byte /\ Narrow(n) \in Byte
  BY NarrowType
<1>2. Narrow(m) \in Int /\ Narrow(n) \in Int /\ 0 <= Narrow(m) /\ Narrow(m) <= 255
  BY <1>1, ByteBounds
<1> HIDE DEF Narrow
<1> QED
  BY <1>2 DEF OnStack, Stack, StackSize

\* Where an rts would go if the stack pointer were n
Address(mem, n) == Wide(ReturnOf(mem, Narrow(n)) + 1)

LEMMA AddressIs ==
  ASSUME NEW mem, NEW n \in Int
  PROVE  Address(mem, n) = Wide(Wide(256 * Held(mem, Stack + Narrow(n + 1))
                                       + Held(mem, Stack + Narrow(n + 2)) + 2) + 1)
<1>1. Up(Narrow(n)) = Narrow(n + 1)
  BY NarrowSum DEF Up
<1>2. Up(Up(Narrow(n))) = Narrow(n + 2)
  <2>1. Up(Narrow(n + 1)) = Narrow(n + 1 + 1) /\ n + 1 + 1 = n + 2
    BY NarrowSum DEF Up
  <2> QED
    BY <1>1, <2>1
<1>3. Top(mem, Narrow(n)) = Held(mem, Stack + Narrow(n + 1))
  BY <1>1, Zenon DEF Top
<1>4. Top(mem, Up(Narrow(n))) = Held(mem, Stack + Narrow(n + 2))
  BY <1>2, Zenon DEF Top
<1> QED
  BY <1>3, <1>4, Zenon DEF Address, ReturnOf

\* The two bytes it looks at are all that matters
LEMMA AddressStays ==
  ASSUME NEW mem, NEW then, NEW n \in Int,
         Held(then, Stack + Narrow(n + 1)) = Held(mem, Stack + Narrow(n + 1)),
         Held(then, Stack + Narrow(n + 2)) = Held(mem, Stack + Narrow(n + 2))
  PROVE  Address(then, n) = Address(mem, n)
<1>1. Address(then, n) = Wide(Wide(256 * Held(then, Stack + Narrow(n + 1))
                                   + Held(then, Stack + Narrow(n + 2)) + 2) + 1)
  BY AddressIs
<1>2. Address(mem, n) = Wide(Wide(256 * Held(mem, Stack + Narrow(n + 1))
                                  + Held(mem, Stack + Narrow(n + 2)) + 2) + 1)
  BY AddressIs
<1> QED
  BY <1>1, <1>2, Zenon

LEMMA AddressWraps ==
  ASSUME NEW mem, NEW m \in Int, NEW n \in Int, Narrow(m) = Narrow(n)
  PROVE  Address(mem, m) = Address(mem, n)
BY Zenon DEF Address

\* A byte pushed is not one of those above the stack pointer, as far as a page goes
LEMMA PushSpares ==
  ASSUME NEW mem, NEW s \in Byte, NEW v, NEW n \in 1 .. 255
  PROVE  Held(Pushed(mem, s, v), Stack + Narrow(s + n)) = Held(mem, Stack + Narrow(s + n))
<1>1. s + 0 = s /\ s \in Int /\ s + n \in Int
  BY ByteBounds
<1>2. Narrow(s + n) # Narrow(s + 0)
  <2>1. n \in 0 .. 255 /\ 0 \in 0 .. 255 /\ n # 0
    OBVIOUS
  <2> QED
    BY <2>1, NarrowApart
<1>3. Narrow(s + 0) = s
  BY <1>1, NarrowOfByte
<1>4. Stack + Narrow(s + n) # Stack + s
  <2>1. Stack + Narrow(s + n) # Stack + Narrow(s)
    BY <1>1, <1>2, StackCells
  <2> QED
    BY <2>1, NarrowOfByte
<1> DEFINE c == Stack + Narrow(s + n)
<1>5. Held(Stored(mem, Stack + s, v), c) = IF c = Stack + s THEN v ELSE Held(mem, c)
  BY StoredHeld
<1> QED
  BY <1>4, <1>5, Zenon DEF Pushed

-----------------------------------------------------------------------------
\* What an instruction does to the stack

\* The instructions of the stack
OfStack == {"pha", "php", "pla", "plp", "jsr", "rts", "txs"}

LEMMA OnlyPush == ASSUME NEW i, Execute(i), i.name \in {"pha", "php"} PROVE Push(i)
BY DEF Execute, Transfer, SetFlag, Brk, Pass, StepIndex, Branch, Jump, Pull, Call, Return, Add,
       Combine, Compare, BitTest, Load, Store, Modify, Moves, FlagOf, Stepped, Condition,
       Compared, Loaded, Kept

LEMMA OnlyPull == ASSUME NEW i, Execute(i), i.name \in {"pla", "plp"} PROVE Pull(i)
BY DEF Execute, Transfer, SetFlag, Brk, Pass, StepIndex, Branch, Jump, Push, Call, Return, Add,
       Combine, Compare, BitTest, Load, Store, Modify, Moves, FlagOf, Stepped, Condition,
       Compared, Loaded, Kept

LEMMA OnlyReturn == ASSUME NEW i, Execute(i), i.name = "rts" PROVE Return(i)
<1>1. /\ "rts" \notin DOMAIN Moves /\ "rts" \notin DOMAIN FlagOf /\ "rts" \notin DOMAIN Stepped
      /\ "rts" \notin DOMAIN Condition /\ "rts" \notin DOMAIN Compared
      /\ "rts" \notin DOMAIN Loaded /\ "rts" \notin DOMAIN Kept
  BY DEF Moves, FlagOf, Stepped, Condition, Compared, Loaded, Kept
<1> QED
  BY <1>1 DEF Execute, Transfer, SetFlag, Brk, Pass, StepIndex, Branch, Jump, Push, Pull, Call,
              Add, Combine, Compare, BitTest, Load, Store, Modify

LEMMA ResultSpares ==
  ASSUME Registers(reg), NEW r, NEW v, Result(r, v), r # "sp"
  PROVE  reg'.sp = reg.sp
BY DEF Result, Registers

\* The rest of them leave the stack pointer alone, and write where they refer to
LEMMA OthersSpare ==
  ASSUME TypeOK, NEW i, Execute(i), i.name \notin OfStack
  PROVE  /\ reg'.sp = reg.sp
         /\ bytes' = bytes \/ (i.name \in Stores /\ \E v : bytes' = Written(i.ref, v))
<1>1. Registers(reg)
  BY DEF TypeOK, Registers
<1>2. ASSUME Transfer(i) PROVE reg'.sp = reg.sp /\ bytes' = bytes
  <2>1. Moves[i.name][2] # "sp"
    BY <1>2 DEF Transfer, Moves, OfStack
  <2> QED
    BY <1>1, <1>2, <2>1, ResultSpares DEF Transfer
<1>3. ASSUME SetFlag(i) \/ Brk(i) \/ Pass(i) \/ Branch(i) \/ Jump(i) \/ Compare(i) \/ BitTest(i)
      PROVE  reg'.sp = reg.sp /\ bytes' = bytes
  BY <1>3 DEF SetFlag, Brk, Pass, Branch, Jump, Compare, BitTest
<1>4. ASSUME StepIndex(i) PROVE reg'.sp = reg.sp /\ bytes' = bytes
  <2>1. Stepped[i.name][1] # "sp"
    BY <1>4 DEF StepIndex, Stepped
  <2> QED
    BY <1>1, <1>4, <2>1, ResultSpares DEF StepIndex
<1>5. ASSUME Add(i) \/ Combine(i) PROVE reg'.sp = reg.sp /\ bytes' = bytes
  BY <1>1, <1>5, ResultSpares DEF Add, Combine
<1>6. ASSUME Load(i) PROVE reg'.sp = reg.sp /\ bytes' = bytes
  <2>1. Loaded[i.name] # "sp"
    BY <1>6 DEF Load, Loaded
  <2> QED
    BY <1>1, <1>6, <2>1, ResultSpares DEF Load
<1>7. ASSUME Store(i) PROVE reg'.sp = reg.sp /\ i.name \in Stores /\ \E v : bytes' = Written(i.ref, v)
  BY <1>7 DEF Store, Kept, Stores
<1>8. ASSUME Modify(i)
      PROVE  /\ reg'.sp = reg.sp
             /\ bytes' = bytes \/ (i.name \in Stores /\ \E v : bytes' = Written(i.ref, v))
  <2> DEFINE v == Modified(i)
  <2>1. IF i.mode = "acc" THEN Result("ac", v) /\ UNCHANGED bytes
                          ELSE bytes' = Written(i.ref, v) /\ UNCHANGED reg
    BY <1>8 DEF Modify
  <2>2. i.name \in Stores
    BY <1>8 DEF Modify, Stores
  <2> HIDE DEF v
  <2> QED
    BY <1>1, <2>1, <2>2, ResultSpares
<1>9. ~ Push(i) /\ ~ Pull(i) /\ ~ Call(i) /\ ~ Return(i)
  BY DEF Push, Pull, Call, Return, OfStack
<1> QED
  BY <1>2, <1>3, <1>4, <1>5, <1>6, <1>7, <1>8, <1>9 DEF Execute

\* The stack pointer after the instructions of the stack, as a distance from where it was
LEMMA PointerMoves ==
  ASSUME TypeOK, NEW i, Execute(i)
  PROVE  /\ i.name \in {"pha", "php"} => reg'.sp = Narrow(reg.sp - 1)
         /\ i.name \in {"pla", "plp"} => reg'.sp = Narrow(reg.sp - (-1)) /\ bytes' = bytes
         /\ i.name = "jsr" => reg'.sp = Narrow(reg.sp - 2)
         /\ i.name = "rts" => reg'.sp = Narrow(reg.sp - (-2)) /\ bytes' = bytes
<1>1. reg.sp \in Byte /\ reg.sp \in Int /\ Registers(reg)
  BY ByteBounds DEF TypeOK, Registers
<1>2. Down(reg.sp) = Narrow(reg.sp - 1) /\ Up(reg.sp) = Narrow(reg.sp - (-1))
  BY <1>1 DEF Down, Up, Narrow
<1>3. Down(Down(reg.sp)) = Narrow(reg.sp - 2) /\ Up(Up(reg.sp)) = Narrow(reg.sp - (-2))
  BY <1>1 DEF Down, Up, Narrow
<1>4. ASSUME i.name \in {"pha", "php"} PROVE reg'.sp = Down(reg.sp)
  BY <1>1, <1>4, OnlyPush DEF Push, Result, Registers
<1>5. ASSUME i.name \in {"pla", "plp"} PROVE reg'.sp = Up(reg.sp) /\ bytes' = bytes
  BY <1>1, <1>5, OnlyPull DEF Pull, Result, Registers
<1>6. ASSUME i.name = "jsr" PROVE reg'.sp = Down(Down(reg.sp))
  BY <1>1, <1>6, OnlyCall DEF Call, Result, Registers
<1>7. ASSUME i.name = "rts" PROVE reg'.sp = Up(Up(reg.sp)) /\ bytes' = bytes
  BY <1>1, <1>7, OnlyReturn DEF Return, Result, Registers
<1> QED
  BY <1>2, <1>3, <1>4, <1>5, <1>6, <1>7

\* The lengths that jsr and rts go by
LEMMA LengthsOfCalls ==
  ASSUME NEW b \in Byte
  PROVE  /\ MnemonicOf[b] = "jsr" => LengthOf[b] = 3
         /\ MnemonicOf[b] = "rts" => LengthOf[b] = 1
<1> SUFFICES ASSUME MnemonicOf[b] \in {"jsr", "rts"}
             PROVE  LengthOf[b] = IF MnemonicOf[b] = "jsr" THEN 3 ELSE 1
  OBVIOUS
<1> DEFINE op   == MnemonicOf[b]
           mode == ModeInName[b]
<1>1. mode \in DOMAIN Encoding[op] /\ LengthOf[b] = LengthOfMode[mode]
  BY MeaningFits DEF Fits
<1>2. DOMAIN Encoding["jsr"] = {"abs"} /\ DOMAIN Encoding["rts"] = {"imp"}
  BY DEF Encoding
<1>3. mode = IF op = "jsr" THEN "abs" ELSE "imp"
  BY <1>1, <1>2
<1>4. LengthOfMode["abs"] = 3 /\ LengthOfMode["imp"] = 1
  BY DEF LengthOfMode, Mode
<1> QED
  BY <1>1, <1>3, <1>4

\* What a step does to the calls in progress
LEMMA StepCalls ==
  ASSUME TypeOK, Step
  PROVE  \E i : /\ Instruction(i) /\ Execute(i)
                /\ i.name = "jsr" => i.length = 3
                /\ i.name = "rts" => i.length = 1
                /\ frames' = Remembered(i) /\ depth' = Deepened(i)
                /\ nested' = (nested /\ Nests(i)) /\ last'.name = i.name
                /\ last'.top = IF frames = <<>> THEN None ELSE frames[Len(frames)]
<1>1. PICK answer \in [Readable -> DeviceByte] :
        LET i == Decoded(answer) IN
        /\ Execute(i) /\ frames' = Remembered(i) /\ depth' = Deepened(i)
        /\ nested' = (nested /\ Nests(i)) /\ last'.name = i.name
        /\ last'.top = IF frames = <<>> THEN None ELSE frames[Len(frames)]
  BY DEF Step
<1> DEFINE i == Decoded(answer)
           f == Fetched(answer)
<1>2. Instruction(i)
  BY DecodedType
<1>3. i.name = MnemonicOf[f.opcode] /\ i.length = f.length
  BY DEF Decoded
<1>4. f.opcode = Read(answer, pc) /\ f.length = LengthOf[f.opcode]
  BY DEF Fetched
<1> HIDE DEF i, f
<1>5. f.opcode \in Byte
  BY <1>4, ReadType
<1>6. (i.name = "jsr" => i.length = 3) /\ (i.name = "rts" => i.length = 1)
  BY <1>3, <1>4, <1>5, LengthsOfCalls
<1> QED
  BY <1>1, <1>2, <1>6 DEF i

-----------------------------------------------------------------------------
\* The calls in progress

\* Where the stack pointer was when a call had been made
Behind(k) == reg.sp + (depth - (frames[k].depth + 2))

\* The calls lie on the stack one above the other, and each return address is
\* where it was pushed
CallsStand ==
  nested =>
    /\ \A j, k \in DOMAIN frames : j < k => frames[j].depth + 2 <= frames[k].depth
    /\ \A k \in DOMAIN frames : frames[k].depth + 2 <= depth
    /\ \A k \in DOMAIN frames : Address(bytes, Behind(k)) = frames[k].address

\* A call still stands when the stack has grown or shrunk above it and its two bytes
\* are what they were
LEMMA CallStays ==
  ASSUME TypeOK, CallsStand, nested, NEW k \in DOMAIN frames, NEW g \in Int,
         frames'[k] = frames[k], depth' = depth + g, reg'.sp = Narrow(reg.sp - g),
         \A m \in {1, 2} : LET c == Stack + Narrow(reg.sp + (depth - (frames[k].depth + 2)) + m)
                           IN  Held(bytes', c) = Held(bytes, c)
  PROVE  Address(bytes', reg'.sp + (depth' - (frames'[k].depth + 2))) = frames'[k].address
<1>1. reg.sp \in Int /\ depth \in Int /\ frames[k].depth \in Int
  <2>1. reg.sp \in Int
    BY ByteBounds DEF TypeOK
  <2>2. depth \in Int
    BY DEF TypeOK, StackSize
  <2>3. frames \in Seq(Frame)
    BY DEF TypeOK
  <2>4. frames[k] \in Frame
    BY <2>3
  <2> QED
    BY <2>1, <2>2, <2>4 DEF Frame, StackSize
<1> DEFINE o == depth - (frames[k].depth + 2)
           n == reg.sp + o
<1>2. Address(bytes, n) = frames[k].address
  BY DEF CallsStand, Behind
<1>3. n \in Int /\ o \in Int
  BY <1>1
<1>4. Held(bytes', Stack + Narrow(n + 1)) = Held(bytes, Stack + Narrow(n + 1))
  OBVIOUS
<1>5. Held(bytes', Stack + Narrow(n + 2)) = Held(bytes, Stack + Narrow(n + 2))
  OBVIOUS
<1>6. reg'.sp + (depth' - (frames'[k].depth + 2)) = Narrow(reg.sp - g) + (o + g)
  <2>1. Narrow(reg.sp - g) \in Int
    BY <1>1 DEF Narrow
  <2> QED
    BY <1>1, <2>1
<1>7. Narrow(Narrow(reg.sp - g) + (o + g)) = Narrow(n)
  <2>1. reg.sp - g \in Int /\ o + g \in Int /\ (reg.sp - g) + (o + g) = n
    BY <1>1
  <2> HIDE DEF o, n
  <2>2. Narrow(Narrow(reg.sp - g) + (o + g)) = Narrow((reg.sp - g) + (o + g))
    BY <2>1, NarrowSum
  <2> QED
    BY <2>1, <2>2
<1>8. Narrow(reg.sp - g) + (o + g) \in Int
  BY <1>1, <1>3 DEF Narrow
<1> HIDE DEF o, n
<1>9. Address(bytes', Narrow(reg.sp - g) + (o + g)) = Address(bytes', n)
  BY <1>3, <1>7, <1>8, AddressWraps
<1>10. Address(bytes', n) = Address(bytes, n)
  BY <1>3, <1>4, <1>5, AddressStays
<1> QED
  BY <1>2, <1>6, <1>9, <1>10

\* What a jsr pushes leaves what is less than a page above it
LEMMA CallSpares ==
  ASSUME NEW mem, NEW s \in Byte, NEW v, NEW w, NEW n \in 1 .. 254
  PROVE  Held(Pushed(Pushed(mem, s, v), Down(s), w), Stack + Narrow(s + n))
           = Held(mem, Stack + Narrow(s + n))
<1>1. s \in Int /\ Down(s) \in Byte
  BY ByteBounds, DownType
<1>2. Narrow(s + n) = Narrow(Down(s) + (n + 1))
  <2>1. s + 255 \in Int /\ n + 1 \in Int
    BY <1>1
  <2>2. Narrow(Narrow(s + 255) + (n + 1)) = Narrow((s + 255) + (n + 1))
    BY <2>1, NarrowSum
  <2>3. Narrow((s + 255) + (n + 1)) = Narrow(s + n)
    BY <1>1 DEF Narrow
  <2> QED
    BY <2>2, <2>3 DEF Down
<1>3. n + 1 \in 1 .. 255 /\ n \in 1 .. 255
  OBVIOUS
<1> DEFINE inner == Pushed(mem, s, v)
<1> HIDE DEF inner
<1>4. Held(Pushed(inner, Down(s), w), Stack + Narrow(Down(s) + (n + 1)))
        = Held(inner, Stack + Narrow(Down(s) + (n + 1)))
  BY <1>1, <1>3, PushSpares
<1>5. Held(Pushed(mem, s, v), Stack + Narrow(s + n)) = Held(mem, Stack + Narrow(s + n))
  BY <1>3, PushSpares
<1> QED
  BY <1>2, <1>4, <1>5 DEF inner

\* What is above the stack pointer, as far as what has been pushed goes
LEMMA CellsStay ==
  ASSUME TypeOK, NEW i, Execute(i), Nests(i), frames # <<>> \/ i.name = "jsr",
         NEW n \in 1 .. depth
  PROVE  Held(bytes', Stack + Narrow(reg.sp + n)) = Held(bytes, Stack + Narrow(reg.sp + n))
<1> DEFINE c == Stack + Narrow(reg.sp + n)
<1>1. reg.sp \in Byte /\ reg.sp \in Int /\ depth \in 0 .. 256
  BY ByteBounds DEF TypeOK, StackSize
<1>2. CASE i.name \in {"pha", "php"}
  <2>1. n \in 1 .. 255
    BY <1>1, <1>2 DEF Nests, StackSize
  <2>2. bytes' = Pushed(bytes, reg.sp, IF i.name = "pha" THEN reg.ac ELSE ByteOf(sr))
    BY <1>2, OnlyPush DEF Push
  <2> QED
    BY <1>1, <2>1, <2>2, PushSpares
<1>3. CASE i.name = "jsr"
  <2>1. n \in 1 .. 254
    BY <1>1, <1>3 DEF Nests, StackSize
  <2>2. bytes' = Pushed(Pushed(bytes, reg.sp, pc % 256), Down(reg.sp), pc \div 256)
    BY <1>3, OnlyCall DEF Call
  <2> DEFINE v == pc % 256
             w == pc \div 256
  <2>3. bytes' = Pushed(Pushed(bytes, reg.sp, v), Down(reg.sp), w)
    BY <2>2
  <2> HIDE DEF c, v, w
  <2> DEFINE s == reg.sp
  <2>4. s \in Byte /\ n \in 1 .. 254
    BY <1>1, <2>1
  <2> HIDE DEF s
  <2>5. Held(Pushed(Pushed(bytes, s, v), Down(s), w), Stack + Narrow(s + n))
          = Held(bytes, Stack + Narrow(s + n))
    BY <2>4, CallSpares
  <2> QED
    BY <2>3, <2>5 DEF s
<1>4. CASE i.name \in {"pla", "plp", "rts"}
  BY <1>4, PointerMoves
<1>5. CASE i.name \notin OfStack
  <2>1. bytes' = bytes \/ (i.name \in Stores /\ \E v : bytes' = Written(i.ref, v))
    BY <1>5, OthersSpare
  <2>2. ASSUME i.name \in Stores, NEW v, bytes' = Written(i.ref, v)
        PROVE  Held(bytes', c) = Held(bytes, c)
    <3>1. i.name # "jsr"
      BY <2>2 DEF Stores
    <3>2. ~ OnStack(i.ref)
      BY <2>2, <3>1 DEF Nests
    <3>3. OnStack(c)
      BY <1>1, StackCells
    <3>4. c # i.ref
      BY <3>2, <3>3, Zenon
    <3> HIDE DEF c
    <3>5. Held(Stored(bytes, i.ref, v), c) = Held(bytes, c)
      BY <3>4, StoredHeld
    <3> QED
      BY <2>2, <3>5 DEF Written
  <2> QED
    BY <2>1, <2>2
<1>6. i.name # "txs"
  BY DEF Nests
<1> QED
  BY <1>2, <1>3, <1>4, <1>5, <1>6 DEF OfStack

\* A step of a program that nests its calls
LEMMA CallsNest ==
  ASSUME TypeOK, CallsStand, nested, NEW i, Instruction(i), Execute(i), Nests(i),
         i.name = "jsr" => i.length = 3,
         frames' = Remembered(i), depth' = Deepened(i)
  PROVE  /\ \A j, k \in DOMAIN frames' : j < k => frames'[j].depth + 2 <= frames'[k].depth
         /\ \A k \in DOMAIN frames' : frames'[k].depth + 2 <= depth'
         /\ \A k \in DOMAIN frames' :
              Address(bytes', reg'.sp + (depth' - (frames'[k].depth + 2))) = frames'[k].address
<1>1. /\ \A j, k \in DOMAIN frames : j < k => frames[j].depth + 2 <= frames[k].depth
      /\ \A k \in DOMAIN frames : frames[k].depth + 2 <= depth
  BY DEF CallsStand
<1>2. frames \in Seq(Frame) /\ depth \in 0 .. 256 /\ reg.sp \in Byte /\ reg.sp \in Int
  BY ByteBounds DEF TypeOK, StackSize
<1>3. DOMAIN frames = 1 .. Len(frames) /\ Len(frames) \in Nat
  BY <1>2
<1>4. \A k \in DOMAIN frames : frames[k].depth \in Int /\ 0 <= frames[k].depth
  <2>1. \A k \in DOMAIN frames : frames[k] \in Frame
    BY <1>2
  <2>2. \A f \in Frame : f.depth \in 0 .. StackSize /\ 0 <= f.depth
    BY DEF Frame, StackSize
  <2> QED
    BY <2>1, <2>2
\* The cells of a call are among those that stay
<1>5. ASSUME NEW k \in DOMAIN frames, NEW m \in {1, 2}
      PROVE  LET c == Stack + Narrow(reg.sp + (depth - (frames[k].depth + 2)) + m)
             IN  Held(bytes', c) = Held(bytes, c)
  <2> DEFINE d == frames[k].depth
             n == (depth - (d + 2)) + m
  <2>1. d \in Int /\ 0 <= d /\ d + 2 <= depth
    BY <1>1, <1>4
  <2>2. frames # <<>>
    BY <1>3
  <2> HIDE DEF d
  <2>3. n \in 1 .. depth
    BY <1>2, <2>1
  <2>4. reg.sp + (depth - (d + 2)) + m = reg.sp + n
    BY <1>2, <2>1
  <2> HIDE DEF n
  <2>5. Held(bytes', Stack + Narrow(reg.sp + n)) = Held(bytes, Stack + Narrow(reg.sp + n))
    BY <2>2, <2>3, CellsStay
  <2> QED
    BY <2>4, <2>5 DEF d
<1>6. CASE frames = <<>> /\ i.name # "jsr"
  <2>1. frames' = <<>>
    BY <1>6 DEF Remembered
  <2> QED
    BY <2>1
<1>7. CASE i.name = "jsr"
  <2> DEFINE f == [address |-> Wide(pc + i.length), depth |-> depth]
  <2>1. frames' = Append(frames, f) /\ f.depth = depth /\ f.address = Wide(pc + 3)
    BY <1>7 DEF Remembered
  <2>2. depth' = depth + 2
    BY <1>7, GrowsIs DEF Deepened
  <2>3. reg'.sp = Narrow(reg.sp - 2)
    BY <1>7, PointerMoves
  <2> HIDE DEF f
  <2>4. /\ DOMAIN frames' = 1 .. Len(frames) + 1
        /\ \A k \in 1 .. Len(frames) : frames'[k] = frames[k]
        /\ frames'[Len(frames) + 1] = f
    BY <1>2, <2>1
  <2>5. \A k \in DOMAIN frames' : k \in DOMAIN frames \/ k = Len(frames) + 1
    BY <1>3, <2>4
  <2>6. ASSUME NEW j \in DOMAIN frames', NEW k \in DOMAIN frames', j < k
        PROVE  frames'[j].depth + 2 <= frames'[k].depth
    <3>1. j \in DOMAIN frames /\ frames'[j] = frames[j]
      BY <1>3, <2>4, <2>6
    <3>2. CASE k = Len(frames) + 1
      BY <1>1, <2>1, <2>4, <3>1, <3>2
    <3>3. CASE k \in DOMAIN frames
      BY <1>1, <1>3, <2>4, <2>6, <3>1, <3>3
    <3> QED
      BY <2>5, <3>2, <3>3
  <2>7. ASSUME NEW k \in DOMAIN frames' PROVE frames'[k].depth + 2 <= depth'
    <3>1. CASE k = Len(frames) + 1
      BY <1>2, <2>1, <2>2, <2>4, <3>1
    <3>2. CASE k \in DOMAIN frames
      <4>1. frames'[k] = frames[k] /\ frames[k].depth + 2 <= depth /\ frames[k].depth \in Int
        BY <1>1, <1>3, <1>4, <2>4, <3>2
      <4> QED
        BY <1>2, <2>2, <4>1
    <3> QED
      BY <2>5, <3>1, <3>2
  <2>8. ASSUME NEW k \in DOMAIN frames'
        PROVE  Address(bytes', reg'.sp + (depth' - (frames'[k].depth + 2))) = frames'[k].address
    <3>1. CASE k = Len(frames) + 1
      <4>1. reg'.sp \in Byte /\ reg'.sp \in Int
        BY <1>2, <2>3, NarrowType, ByteBounds
      <4>2. reg'.sp + (depth' - (frames'[k].depth + 2)) = reg'.sp
        BY <1>2, <2>1, <2>2, <2>4, <3>1, <4>1
      <4>3. Narrow(reg'.sp) = reg'.sp
        BY <4>1, NarrowOfByte
      <4>4. Wide(ReturnOf(bytes', reg'.sp) + 1) = Wide(pc + 3)
        BY <1>7, OnlyCall, CallIsUndone
      <4> QED
        BY <2>1, <2>4, <3>1, <4>2, <4>3, <4>4 DEF Address
    <3>2. CASE k \in DOMAIN frames
      <4>1. frames'[k] = frames[k]
        BY <1>3, <2>4, <3>2
      <4> QED
        BY <1>5, <2>2, <2>3, <3>2, <4>1, CallStays
    <3> QED
      BY <2>5, <3>1, <3>2
  <2> QED
    BY <2>6, <2>7, <2>8
<1>8. CASE frames # <<>> /\ i.name # "jsr"
  \* The calls that are left, and how much the stack has grown
  <2>1. \A k \in DOMAIN frames' : k \in DOMAIN frames /\ frames'[k] = frames[k]
    BY <1>2, <1>3, <1>8 DEF Remembered
  <2>2. PICK g \in Int : depth' = depth + g /\ reg'.sp = Narrow(reg.sp - g)
    <3>1. CASE i.name \in {"pha", "php"}
      BY <1>8, <3>1, PointerMoves, GrowsIs DEF Deepened
    <3>2. CASE i.name \in {"pla", "plp"}
      BY <1>8, <3>2, PointerMoves, GrowsIs DEF Deepened
    <3>3. CASE i.name = "rts"
      BY <1>8, <3>3, PointerMoves, GrowsIs DEF Deepened
    <3>4. CASE i.name \notin OfStack
      <4>1. depth' = depth
        BY <3>4, GrowsIs DEF Deepened, OfStack
      <4>2. reg'.sp = Narrow(reg.sp)
        BY <1>2, <3>4, OthersSpare, NarrowOfByte
      <4>3. reg.sp - 0 = reg.sp /\ depth + 0 = depth
        BY <1>2
      <4> QED
        BY <4>1, <4>2, <4>3
    <3>5. i.name # "txs"
      BY <1>8 DEF Nests
    <3> QED
      BY <1>8, <3>1, <3>2, <3>3, <3>4, <3>5 DEF OfStack
  <2>3. \A j, k \in DOMAIN frames' : j < k => frames'[j].depth + 2 <= frames'[k].depth
    BY <1>1, <2>1
  <2>4. \A k \in DOMAIN frames' :
          Address(bytes', reg'.sp + (depth' - (frames'[k].depth + 2))) = frames'[k].address
    <3> SUFFICES ASSUME NEW k \in DOMAIN frames'
                 PROVE  Address(bytes', reg'.sp + (depth' - (frames'[k].depth + 2))) = frames'[k].address
      OBVIOUS
    <3> QED
      BY <1>5, <2>1, <2>2, CallStays
  <2>5. ASSUME NEW k \in DOMAIN frames' PROVE frames'[k].depth + 2 <= depth'
    <3>1. frames[k].depth + 2 <= depth /\ frames[k].depth \in Int /\ frames'[k] = frames[k]
      BY <1>1, <1>4, <2>1
    <3>2. Len(frames) \in DOMAIN frames /\ Floor = frames[Len(frames)].depth
      BY <1>2, <1>8 DEF Floor
    <3>3. CASE i.name = "rts"
      <4>1. depth' = Floor
        <5>1. depth' = depth + (-2) /\ depth = Floor + 2
          BY <1>8, <3>3, GrowsIs DEF Deepened, Nests
        <5>2. Floor \in Int
          BY <1>4, <3>2
        <5> QED
          BY <1>2, <5>1, <5>2
      <4>2. k < Len(frames)
        BY <1>2, <1>3, <1>8, <3>3 DEF Remembered
      <4> QED
        BY <1>1, <2>1, <3>1, <3>2, <4>1, <4>2
    <3>4. CASE i.name \in {"pla", "plp"}
      <4>1. depth' = depth + (-1) /\ depth > Floor + 2
        BY <1>8, <3>4, GrowsIs DEF Deepened, Nests
      <4>2. Floor \in Int /\ frames[k].depth <= Floor
        <5>1. CASE k = Len(frames)
          BY <1>4, <3>2, <5>1
        <5>2. CASE k < Len(frames)
          BY <1>1, <1>4, <2>1, <3>2, <5>2
        <5> QED
          BY <1>3, <2>1, <5>1, <5>2
      <4> QED
        BY <1>2, <3>1, <4>1, <4>2
    <3>5. CASE i.name \in {"pha", "php"}
      <4>1. depth' = depth + 1
        BY <1>8, <3>5, GrowsIs DEF Deepened
      <4> QED
        BY <1>2, <3>1, <4>1
    <3>6. CASE i.name \notin DOMAIN Grows
      <4>1. depth' = depth
        BY <3>6 DEF Deepened
      <4> QED
        BY <3>1, <4>1
    <3> QED
      BY <1>8, <3>3, <3>4, <3>5, <3>6, GrowsIs
  <2> QED
    BY <2>3, <2>4, <2>5
<1> QED
  BY <1>6, <1>7, <1>8

\* An rts of such a program finds the address of the latest call
LEMMA ReturnsNest ==
  ASSUME TypeOK, CallsStand, nested, frames # <<>>, NEW i, Execute(i), Nests(i),
         i.name = "rts", i.length = 1
  PROVE  pc' = frames[Len(frames)].address
<1>1. Len(frames) \in DOMAIN frames /\ Floor \in 0 .. StackSize
  BY FloorType DEF TypeOK
<1>2. depth = Floor + 2 /\ Floor \in Int
  <2>1. depth = Floor + 2
    BY DEF Nests
  <2> QED
    BY <1>1, <2>1 DEF StackSize
<1>3. reg.sp \in Byte /\ reg.sp \in Int
  BY ByteBounds DEF TypeOK
<1>4. Behind(Len(frames)) = reg.sp
  BY <1>2, <1>3 DEF Behind, Floor
<1>5. Address(bytes, reg.sp) = frames[Len(frames)].address
  BY <1>1, <1>4 DEF CallsStand
<1>6. pc' = Wide(ReturnOf(bytes, reg.sp) + 1)
  BY OnlyReturn DEF Return
<1> QED
  BY <1>3, <1>5, <1>6, NarrowOfByte DEF Address

LEMMA CallsStandInit == Init => CallsStand
<1> SUFFICES ASSUME Init PROVE CallsStand
  OBVIOUS
<1>1. frames = <<>>
  BY DEF Init
<1> QED
  BY <1>1 DEF CallsStand

LEMMA StackLeft ==
  ASSUME Nmi \/ Abort \/ UNCHANGED vars
  PROVE  UNCHANGED <<reg, bytes, frames, depth>> /\ (nested' <=> nested)
<1>1. CASE Nmi
  BY <1>1 DEF Nmi
<1>2. CASE Abort
  BY <1>2 DEF Abort
<1>3. CASE UNCHANGED vars
  BY <1>3 DEF vars
<1> QED
  BY <1>1, <1>2, <1>3

LEMMA CallsStandNext == TypeOK /\ CallsStand /\ [Next]_vars => CallsStand'
<1> SUFFICES ASSUME TypeOK, CallsStand, [Next]_vars, nested' PROVE CallsStand'
  BY DEF CallsStand
<1>1. CASE Step
  <2>1. PICK i : /\ Instruction(i) /\ Execute(i)
                 /\ i.name = "jsr" => i.length = 3
                 /\ i.name = "rts" => i.length = 1
                 /\ frames' = Remembered(i) /\ depth' = Deepened(i)
                 /\ nested' = (nested /\ Nests(i)) /\ last'.name = i.name
                 /\ last'.top = IF frames = <<>> THEN None ELSE frames[Len(frames)]
    BY <1>1, StepCalls, Zenon
  <2>2. nested /\ Nests(i)
    BY <2>1
  <2>3. /\ \A j, k \in DOMAIN frames' : j < k => frames'[j].depth + 2 <= frames'[k].depth
        /\ \A k \in DOMAIN frames' : frames'[k].depth + 2 <= depth'
        /\ \A k \in DOMAIN frames' :
             Address(bytes', reg'.sp + (depth' - (frames'[k].depth + 2))) = frames'[k].address
    BY <2>1, <2>2, CallsNest
  <2> QED
    BY <2>3, Zenon DEF CallsStand, Behind
<1>2. CASE Reset
  <2>1. frames' = <<>>
    BY <1>2 DEF Reset
  <2> QED
    BY <2>1 DEF CallsStand
<1>3. CASE Nmi \/ Abort \/ UNCHANGED vars
  <2>1. UNCHANGED <<reg, bytes, frames, depth>> /\ (nested' <=> nested)
    BY <1>3, StackLeft
  <2> QED
    BY <2>1 DEF CallsStand, Behind
<1> QED
  BY <1>1, <1>2, <1>3 DEF Next

\* In every program that keeps what it pushes apart from what its calls have pushed, and
\* pushes no more than the stack page holds, an rts returns behind the latest jsr that has
\* not returned: for every place of the stack, every depth of recursion, with pushes and
\* pulls between the calls, stores to anywhere else, devices and interrupts (cpu.c 507-613).
THEOREM ReturnsAreMatched == Spec => []ReturnsMatchCalls
<1>1. Init => ReturnsMatchCalls
  BY DEF Init, None, ReturnsMatchCalls
<1>2. TypeOK /\ CallsStand /\ ReturnsMatchCalls /\ [Next]_vars => ReturnsMatchCalls'
  <2> SUFFICES ASSUME TypeOK, CallsStand, ReturnsMatchCalls, [Next]_vars
               PROVE  ReturnsMatchCalls'
    OBVIOUS
  <2>1. CASE Step
    <3> SUFFICES ASSUME nested', last'.name = "rts", last'.top # None
                 PROVE  pc' = last'.top.address
      BY DEF ReturnsMatchCalls
    <3>1. PICK i : /\ Instruction(i) /\ Execute(i)
                   /\ i.name = "jsr" => i.length = 3
                   /\ i.name = "rts" => i.length = 1
                   /\ frames' = Remembered(i) /\ depth' = Deepened(i)
                   /\ nested' = (nested /\ Nests(i)) /\ last'.name = i.name
                   /\ last'.top = IF frames = <<>> THEN None ELSE frames[Len(frames)]
      BY <2>1, StepCalls, Zenon
    <3>2. frames # <<>> /\ last'.top = frames[Len(frames)]
      BY <3>1
    <3>3. i.name = "rts" /\ i.length = 1
      BY <3>1
    <3>4. nested /\ Nests(i)
      BY <3>1
    <3> QED
      BY <3>1, <3>2, <3>3, <3>4, ReturnsNest
  <2>2. CASE Nmi \/ Reset
    <3>1. last'.name = "none"
      BY <2>2 DEF Nmi, Reset, None
    <3> QED
      BY <3>1 DEF ReturnsMatchCalls
  <2>3. CASE Abort \/ UNCHANGED vars
    <3>1. UNCHANGED <<pc, last, nested>>
      BY <2>3 DEF Abort, vars
    <3> QED
      BY <3>1 DEF ReturnsMatchCalls
  <2> QED
    BY <2>1, <2>2, <2>3 DEF Next
<1> QED
  BY <1>1, <1>2, CallsStandInit, CallsStandNext, TypeCorrect, PTL DEF Spec

=============================================================================
