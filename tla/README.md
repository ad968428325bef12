# A verification project for v6502

v6502 is a MOS 6502 toolchain in C: an emulated processor and its memory (`v6502/cpu.c`,
`v6502/mem.c`), an interactive virtual machine with a debugger (`v6502/main.c`,
`v6502/debugger.c`), a two-pass assembler (`as6502`), a disassembler (`dis6502`), the beginnings
of a linker (`ld6502`) and a drawing tool (`kmapgen`). This directory holds TLA+ models of the
parts that have state worth arguing about, the TLC runs that check them, and proofs.

## Inventory

| Part | State | Operations | What is hard |
|---|---|---|---|
| Memory controller, `v6502/mem.c` | list of mapped ranges, three lazily allocated caches, bytes | map, read, write, load expansion ROM | 16-bit arithmetic at the end of the address space; two representations of one map that must agree; a loop whose bound its counter may not reach |
| Processor, `v6502/cpu.c` | pc, ac, x, y, sp, sr | step, execute, reset, nmi | modes and lengths decoded from opcode bits; flags computed from truncated sums; jsr and rts that are wrong one by one and right in pairs; stack accesses behind the memory map |
| Run loop, `v6502/main.c` | `interrupt`, `resist`, the position in `run()` | run, SIGINT handler, command loop | the handler runs between any two statements; an early return leaves `resist` up |
| Breakpoints, `v6502/breakpoint.c` | growable array | add, remove, search, toggle | removal shifts in place and takes out the first match only |
| Debugger, `v6502/debugger.c` | none of its own | commands on all of the above | commands change what an earlier or later run looks at |
| Text mode, `v6502/textmode.c` | whether curses holds the terminal; the window and cursor of curses | write callback, refresh, rest | taken by stores, given back only on one way out of `run()`; memory changes behind it; curses ignores places it does not have |
| Symbol table, `as6502/symbols.c` | list sorted by length of name | add, remove, truncate, look up, replace in a line | duplicates, zero as "not found", width of an address decided by its value |
| Assembler, `as6502/main.c`, `parser.c`, `codegen.c` | object under construction, current blob, offset, symbol table | two passes over the lines | both passes must compute the same sizes and positions |
| Objects, `ld6502/object.c`, `flat.c`, `ines.c` | blobs | append, write, read | only the last blob reaches a flat file; 16-bit lengths |
| Disassembler, `dis6502` | a blob, an offset, a symbol table, the operand bytes of the last instruction | derive labels, truncate, print instructions, strings and remaining labels | the end of the blob, the end of a 16-bit counter; what it prints is to assemble to what it read |
| `kmapgen`, logging, diagnostics | none | print | text |

The processor reads and writes through the memory controller (except for its stack), whose ranges
call back into devices such as text mode. `run()` steps the processor, looks at the breakpoint list
before each step and at the break flag and the handler's counter after it. Debugger commands change
pc, registers, memory, breakpoints and symbols between runs. There is one thread; concurrency comes
from the signal handler. The assembler, the disassembler and the linker are separate batch programs;
the assembler reads what the disassembler prints, and the debugger reads the symbol scripts that
both write.

## Modules

| Module | What it is |
|---|---|
| `MemoryMap` | the memory controller: `mappedRanges`, the caches, `bytes`, and the loop in progress (`call`) |
| `AddressSpace` | what a memory controller promises: each address has at most one owner, for good, and an access reaches it |
| `MCMemoryMap` | instances of `MemoryMap` |
| `MemoryMapProofs` | theorems about `MemoryMap`, and that it implements `AddressSpace` |
| `BreakpointList` | the operators of `breakpoint.c` on a sequence |
| `BreakpointSet` | what the list is for: a set toggled one address at a time |
| `VirtualMachine` | `run()` statement by statement, the SIGINT handler, the commands that matter to it |
| `VirtualMachineProofs` | theorems about `VirtualMachine` and `BreakpointList` |
| `Isa` | opcodes, their names, and the two decoding functions of `cpu.c` |
| `Cpu` | the processor, at its real widths |
| `MCCpu` | instances of `Cpu`: samples of every instruction, recursive programs, part of a test program |
| `IsaProofs` | lemmas on opcodes, their modes, lengths and names |
| `CpuProofs` | theorems about `Cpu` |
| `SymbolTable` | the list of `symbols.c`: where a symbol goes, duplicates, look-up, symbol scripts |
| `Parser` | what the assembler does with one instruction: address mode, names, arithmetic, bytes |
| `SourceLines` | the lines of a source file, which the assembler reads and the disassembler prints |
| `Assembler` | the two passes of `as6502/main.c` over a file, the blobs and the flat file |
| `MCAssembler` | source files for `Assembler` |
| `SourceLinesProofs` | lemmas on `SymbolTable`, `Parser` and `SourceLines` |
| `AssemblerProofs` | theorems about `Assembler` |
| `Disassembler` | `disassembleFile` of `dis6502/main.c`, with `reverse.c` and its part of `symbols.c` |
| `DisassemblerProofs` | theorems about `Disassembler`, and about `RoundTrip` |
| `RoundTrip` | the disassembler, and then the assembler on what it printed |
| `MCRoundTrip` | binary files for `RoundTrip` |
| `TextMode` | the video of `textmode.c`, the window of curses it draws in, and the terminal |
| `MCTextMode` | an instance of `TextMode` |
| `TextModeProofs` | theorems about `TextMode` |

`Cpu` uses the instruction table of `Isa`; so does `Parser`, whose opcodes come out of the same
enumeration. `VirtualMachine` uses `BreakpointList`. `SourceLines` extends `Parser`, which extends
`Isa` and `SymbolTable`; `Assembler` and `Disassembler` extend `SourceLines`, and `RoundTrip`
extends both and composes them. `MemoryMap` stands alone, since `Cpu` has its devices and the
address without a byte; so does `TextMode`, of which `VirtualMachine` has only whether curses holds
the terminal.

### MemoryMap

A call of the code that runs to completion without a loop is one action: `Read`, `Write`,
`RefuseMap`, `AcceptMap`. Two loops are a step per iteration, because one of them may not end and
because each iteration touches state: filling the caches (`Blit`) and loading an expansion ROM
(`LoadByte`). `AddressCount` stands for 0x10000 and every `uint16_t` is taken modulo it. A failed
assertion sets `status` to aborted; an array index past `memory->size`, undefined in C, sets it to
undefined, and nothing follows either. Hosts turn the cache on before the first mapping only:
`docs/NOTES.dox` forbids toggling it later.

### VirtualMachine

`at` names the statement the main thread executes next, from `clear` (main.c:65) to `report`
(main.c:93). `Signal` may happen at any of them. The processor is reduced to `pc` and the break
flag: what instruction an address holds and where it goes is open at every step, since programs
modify themselves and commands load, poke and reset memory. That is more behaviours than the
program has, which is sound for all the properties checked. In the violation run the
behaviour TLC finds uses a brk and jumps to a fixed address only, which a real program can do.
`last` and `pressed` are history variables: they record what the run did and are read by no guard.

### Isa and Cpu

`Encoding` is the opcode enumeration; `ModeOf` and `LengthOf` are the decoding functions of
`cpu.c`, kept as tests of opcode bits. A step reads the bytes of the instruction, forms the
operand and executes, as in `v6502_step` and `v6502_execute`; its action per instruction group is
a disjunct of `Execute`. Flags are a set of bit numbers. Bytes that nobody set are zero, so `bytes`
is a sparse function. Devices are addresses whose reads may return any byte of `DeviceByte`, the
same one throughout a step. `last`, `frames`, `depth` and `nested` are history: what the last
instruction found, the calls in progress, the bytes on the stack since the first of them, and whether
the program has so far left to each call what it pushed (`Nests`: no full stack, no pull of what the
caller pushed, no rts with anything else on top, no txs and no store to the stack page while a call
is in progress). `ReturnsMatchCalls` is about such programs; the others may return anywhere, on the
hardware too.

### SymbolTable, Parser and Assembler

A step of `Assembler` is one iteration of a loop over the lines in `assembleFile`: five actions for
the first pass (`Measure`) and seven for the second (`Fill`). A line is a label, or none, and a
body; an operand is the shape of what stands around its terms, the terms, and at most one operator.
A term is a value, with the width and the mark it is written with, or a name. This is what the
properties tell apart: the characters of a line and lines in error for their form are left out.
Symbols are kept in order of the length of their names because the code does, and because it
replaces them in the text in that order; a name that could pass for a hexadecimal number
(`HexNames`) is wide to the code that guesses widths. `ResultToken` is what comes out of printing a
sum padded with blanks and reading it back: small sums become 0. `BlobLimit` stands for
`UINT16_MAX`, the length at which a blob is full and the process exits. The input can be rewound,
so the second pass reads what the first did. `placed` is history: where the second pass put a line.

The properties of the two passes hold for files that keep to the conditions `Disciplined` states,
each of which some file that the code accepts shows to be needed:

- `Sectioned`. What stands before the first `.org` goes, in the second pass, behind the last
  section, because `currentBlob` is not reset between the passes; two sections with one origin are
  one section to the second pass; a zero page origin changes the width of references.
- `DataLast`. The first pass counts neither data nor `.end`, so nothing with an address may follow
  them in a section.
- `DeclaredFirst`. An instruction is measured with the symbols known so far and assembled with all
  of them. A branch to a sum is a case of its own: its length depends on its offset, which the two
  passes count differently behind a second `.org`. Files in error are not excepted: the number of
  errors plays no part.

`ReferencesReachTheirNames` asks in addition for one section that starts a page (`OnePage`): a
branch is computed from `address`, which the second pass does not reset at an `.org`.

A symbol script is the `label` and `var` commands of `as6502_printSymbolScript`. `Loaded` is what
the debugger makes of them, one insertion after the other; `ScriptLoadsTable` compares it with the
table they were printed from.

Other behaviour of the assembler that the modules record without a property: a name in no table is
assembled as 0 and counts as no error; a `jsr` to a name in the zero page is two bytes long; the
flat file is the last blob alone.

### Disassembler and RoundTrip

A step is one iteration of one of the four loops: over the branches that make labels (`Derive`),
over the symbols outside of the blob (`Truncate`), over the bytes that are printed (`PrintBlob`),
over the labels that are left (`Rest`). The readers of files make one blob, so there is one.
`BytesAt` is a read of its data: behind the end it may return any byte of `StrayByte`. `StartOf` is
where the instructions of a file start, one after the other, and `Targets` what the branches among
them lead to; both are the yardstick of the properties and not used by the steps. A label is
the number in its name, whose length decides its place in the table. The listing is a sequence of
`SourceLines`, plus two bodies for what the assembler does not read: an instruction without a name,
and a string.

`RoundTrip` has the variables of both programs. The disassembler runs while the assembler waits;
once it is done and its listing has nothing that the model of the assembler does not read
(`IsSource`), `Start` makes the listing the source file. `RoundTripAssumption` is about the file
that is disassembled: it fits in a blob, since the reader of flat files fills one with the call that
ends the process at a full one (object.c:118), and offsets are no wider than the words they are in
the code. tests/Makefile says that the round trip emits the same binary each time; it does so for
files that are `Recoverable`, and each condition is there because of what the code does:

- The last instruction has not two bytes (main.c:119 gives it the operand of an earlier one).
- There is a label, and the last one in the table is not that of the end of the file: the loop over
  the remaining labels stops before the last symbol, and reads a null pointer where there is none.
- Jumps into the file lead to instructions, as other labels are not declared; a pointer of an
  indirect jump lies elsewhere, as a label takes its parentheses with it.
- The file lies beyond the zero page: a label at 0 replaces the mnemonics, one below 256 is a
  shorter operand to the assembler.
- `tya`, `wai` and bytes that are no opcode do not occur: the assembler has no code for them.

Other behaviour recorded without a property: the origin of the blob is missing in the comparison
with the remaining labels, so that the labels of an iNES file appear twice; a file whose last
instruction steps over the end of the 16-bit counter is disassembled for ever, which is why
`DisassemblyEnds` asks for files at least three bytes shorter; a label within a string is printed
into it.

### TextMode

`cells` and `cursor` are the window of curses, `screen` what the terminal shows. `initscr` returns
the window it made before; a move to a place that is not on the screen leaves the cursor alone; a
character moves it on, and stays on the last cell. A refresh is a step per character. `load` and
`mreset` change the bytes behind the map. The region goes on behind the characters with the
attributes, whose stores are drawn like characters below the 24 rows: `ShowsRegion` says that the
terminal has rows for them; where it has not, they are drawn where the cursor was. A zero is not
drawn, so what was there stays: `PlacesShowTheirBytes` is about what comes to be shown, not about
what goes.

## Runs

| Run | Shows |
|---|---|
| `memory_safety` | with every pair of requests on five addresses, the last without a byte as in main.c, caches on or off: two ranges overlap only at the ceiling, caches answer as the list does, loops below the ceiling go ahead |
| `memory_refines` | with up to three ranges below the ceiling: `MemoryMap` implements `AddressSpace`, and each call returns |
| `memory_once` | violation: a range at the ceiling can be mapped over |
| `vm_run` | breakpoints, brk and ^C end the loop, and behind a ^C no statement leads back into it; the process survives a ^C in it; the breakpoint list is a set |
| `vm_interrupt` | violation: a ^C on entry to `run()` can be lost |
| `cpu_programs` | all 256 opcodes on sampled operands, registers and flags; recursion to the depth of the stack page from three stack pointers; a device; an address without a byte |
| `cpu_additions` | violation: adding to zero sets carry and overflow, neither as `tests/overflow.s` describes it |
| `asm` | both passes over every file of up to four lines out of fourteen, and longer ones: the table stays consistent, and the debugger makes the same table of its script; in disciplined files labels name their code and references lead to it |
| `asm_labels` | violation: without the discipline a label does not name its code, as in `tests/print.s` |
| `round_trip` | every flat file of up to three instructions out of fifteen and of four out of five, every opcode, and files at the edges: labels are one to one with addresses and are the targets in the file; the disassembler ends, and each of its steps leaves less to do; a recoverable file comes back byte by byte |
| `round_trip_any` | violation: a loop that ends in its branch comes back with another operand |
| `text_mode` | stores, loads, resets, refreshes and rests in any order on terminals of three sizes: nothing is drawn at the place of another address, a refresh draws everything, the terminal shows it |

The run `cpu_additions` shows two disagreements in one step, 0 + b with the carry clear. The
carry comes from a comparison of the truncated sum with the operand (`cpu.c:49`), which are equal
there: it is set, though `tests/overflow.s:61` has "Carry is set if U1 + U2 >= 256". This is the one
case (`CarryOnlyWrongAtZero`). The overflow flag is the opposite of what that program describes for
every operand (`cpu.c:41`); `test_adc1` (`tests/main.c:479`) expects the inverted value, so no change
of the code pleases both tests.

More that the code does and its documents contradict has no run:

- `v6502_map` refuses a request that ends exactly where a mapped range starts, though the two share
  no address: the second comparison takes the end of the request, which is not part of it, for an
  address of it (`mem.c:66`). The comment there is "Make sure it's not already mapped"
  (`mem.c:84`), and `test_contiguousMemoryMapping` is about "Making sure the memory controller
  allows contiguously mapped regions" (`tests/main.c:400`). That test maps 100 to 200, then 200 to
  300; in the other order the second would be refused. Theorem `RefusalsAreExact` has it that below
  the ceiling these are the only free ranges that are refused, and all of them are.
- A request next to one that ends at the ceiling, or itself ending there, can be refused though it
  is free (`mem.c:58`), as an end of 0 sets off the third comparison or the second.
- Mapping a range that reaches the ceiling with the caches on never returns (`mem.c:119`).
- A brk at the breakpoint a run starts from is run past, since the step that leaves a breakpoint is
  outside of the loop that looks at the flag (`main.c:73`); and a `plp` that raises the break flag
  ends a run without a brk. "Until a 'brk' instruction is encountered" (`debugger.c:56`) is neither.

What some properties do not catch: `BrkEndsLoop` is about a brk executed in the loop, not about
these two cases. `ReferencesReachTheirNames` compares the offset of a branch modulo 256, as the code
computes it, so a branch whose target is out of reach passes. `RefreshShowsAll` and
`PlacesShowTheirBytes` hold for bytes that curses draws in one cell: a control character, which
`textmode.c:41` hands to `waddch` as well, would move the cursor, clear, or take two cells, and is not
among the `Character` of the model.

Bounds. Overlap of two ranges is a question about two ranges and the order of their four ends, two
of them possibly wrapped: five addresses hold every order, and three ranges show that acceptance
of a third does not depend on more than pairs. The refinement is checked below the ceiling, because
a range that ends there breaks it (`memory_once`). Three addresses give the virtual machine a
breakpoint, an instruction elsewhere and one to jump to; two signals are the first that raises the
counter and one more. For the processor the operand sample has both ends of a byte, the sign
boundary and two middles; it is combined with all opcodes, carried flags up and down, and index
values that make each sum wrap or just not wrap. `MaxFrames` is 128 because 256 bytes hold 128
return addresses. The fourteen lines of the assembler have two origins and one at the end of the
address space, each directive, a variable and a label of one name, labels of each length, branches
and jumps to names above and below, and a sum; four lines are the least that put a declaration, a
reference and something between them into a section. The longer files have two full sections.
`BlobLimit` 9 lets three-byte instructions fill a blob.

For the round trip, the fifteen instructions lead backward, to themselves, forward, into the middle
of others, out of the file and to its end; three of them hold a label, a reference and something
between. The edges are files loaded at 0, in the zero page and up to the top of the address space,
iNES files, cut instructions, strings, ten labels and more, so that names have two lengths, and
files around the end of the counter of offsets. `OffsetCount` 32 stands for 0x10000 and is beyond
the longest file but those. `LabelBound` 12 is more labels than any file makes. `StrayByte` is 0,
and the 6 that makes addresses within the files. The video of the text mode has two rows and two
columns, as few as make both differ, and one attribute; the terminals are of its size, one row
taller, which holds the attribute, and both smaller and wider. The two letters are interchangeable:
nothing compares them with anything but each other, so symmetry is sound, and no liveness is
checked with it.

Deadlock is not checked: a memory controller stops after a failed assertion, a
machine when the user quits, a processor at a brk, an assembler and a disassembler at the end of
their output. The text mode never stops.

Fairness. `MemoryMap!FairSpec` has weak fairness of the loops only: a call runs on to its return on
the one thread. `VirtualMachine!FairSpec` has weak fairness of the statements of `run()`: the
process is scheduled. Nobody has to type a command or send a signal. `RoundTrip!FairSpec` has weak
fairness of everything: both are batch programs that run on until they end.

## Proofs

The theorems hold for every value of the constants that satisfies the named assumptions
(`MemoryAssumption`, `MachineAssumption`, `CpuAssumption`, `StartAssumption`, `NameAssumption`,
`HexNamesAssumption`, `AssemblerAssumption`, `DisassemblerAssumption`, `RoundTripAssumption`,
`TextModeAssumption`).

`MemoryMapProofs`. `TypeCorrect` is inductive once it says that a blit has a newest range to blit.
`OverlapOnlyThere` needs the list to stay within the address space as well: a range that was
accepted passed `BeyondEnd`; a lemma shows that of two ranges below the ceiling the three
comparisons miss no overlap, and the list only grows at its end. `CachesTransparent` needs an
invariant of the loop in progress: what is below the loop counter has been filled from the newest
range, everything else still agrees with the list without it. It is stated for lists without
overlap, because the list answers with the oldest range and the caches with the newest.
`RefusalsAreExact` goes through the three comparisons: where neither end wraps and neither range is
empty, each of them has a witness of the overlap, but for the second where the ends touch.

`MapsAsPromised` is the refinement of `AddressSpace`, on the condition
`BelowCeiling` that every request takes an address and ends below the last (a range that ends there
breaks it: `memory_once`). Ranges are then disjoint by `OverlapOnlyAtCeiling`, so an address has one
owner, and no blit is endless. The return of an accepted `v6502_map`, with the caches on at the end of
the blit, is a claim; accesses, stores of a ROM included, reach the owner by way of the list, or of
the caches that mirror it; the other steps change nothing a host sees.

`VirtualMachineProofs`. `ListImplementsSet` rests on the invariant that the breakpoint list has no
element twice, so that removing the first match removes the address. The safety properties of the
loop use one invariant each: where the thread is, what the last instruction was and how `resist`
and the break flag stand there. `InterruptedRunsGoAhead` needs types only.

`CpuProofs`. `TypeCorrect` says that every register stays in its width through every instruction,
which takes lemmas on `Wide`, `Narrow`, `ByteOf` and on each operator that reads an operand.
`CallsCanReturn`, `ComparisonsAreUnsigned` and `CarryOnlyWrongAtZero` follow from it with byte
arithmetic. For `DecodingIsRight` a lemma lists the opcodes of each mode and a second one shows that
the table of names puts no opcode elsewhere (`IsaProofs`, which the assembler's side uses as well);
what is read from a device counts like what is read from memory. `ReturnsAreMatched` has an
invariant about the whole stack (`CallsStand`): the calls in progress lie one above the other, two
bytes at least to each, and the two bytes at the place of each call are its return address. Places
are distances from the stack pointer, so that it may wrap anywhere. A push writes at distance 0 and
a jsr at 0 and 255, and as long as the stack has not run full the bytes of every call are at
distances between (`CellsStay`); a store is somewhere else because the program nests its calls.

`AssemblerProofs`. `TypeCorrect` is for every source file. It is not inductive by itself: the second
pass takes the blob of an `.org` by searching for it, and finds one only because
the first pass made it. `OrgsHaveBlobs` says so for all lines behind the first pass. That addresses
stay words, and what is emitted bytes, takes a lemma per operator of `Parser`, in
`SourceLinesProofs`. For `TableStaysConsistent`, `AddOrdered` and `AddOneAddress` show that adding a
symbol keeps the order of the list and its uniqueness, whatever symbol is added; each step of the
first pass adds at most two. `ScriptsLoad` rests on a lemma on the list alone: symbols that are in
order, with no name twice, and are added one after the other come to lie where they lay.

`LabelsAreHome` and `ReferencesArrive` relate the two passes line by line. No variable of the program
says in the second pass what the first one had at a line, so the invariant `Traced` says that there
is a trace `h` of the first pass: for each line the blob, the offset in it and the table with which
it was measured. Each step of the first pass extends `h` (`Measured`), and in the second pass each
line is shown to be placed where `h` has it (`Filled`). What this takes is that an instruction has
the length with the whole table that it had with the part of it known then (`MeasuredLength`), which
is where `DeclaredFirst` comes in and where branches, names without a value and sums are told apart;
that two sections do not share a blob, by `Sectioned`; and that nothing with an address follows data,
by `DataLast`. A label was entered with the address the trace has, so it is where its line is put. For
references it remains to show that the bytes emitted for a name, a branch offset or an address of
one byte or two, lead back to the address of the name in the table (`Followed`).

`DisassemblerProofs`. `TypeCorrect` is for every file and every byte behind its end. For
`LabelsStayDistinct` the invariant adds that the number of the next label is behind all in use
(`NumbersAreUsed`): so a new label is never refused as a duplicate, and it is made only for an
address that has none. Lemmas say what stands where after an insertion and after a removal, and that
neither makes two entries of one. `LabelsAreSought` is that for a file of whole instructions the table
holds, from the truncation on, the targets in the file and nothing else. The invariant follows both
loops: while labels are derived, the offset is where some instruction starts and the addresses are the
targets of those before it (`Derived`); while they are truncated, what the loop has walked past lies
in the file, and what lies in the file is still there (`Truncated`), also when the head goes and the
loop starts over. No bound on the length of the file is needed, and what is read behind its end plays
no part.

`RoundTripMakesTheFile` is `RoundTripIsExact` for every recoverable file. Its invariant (`Together`)
carries the meaning of the file through both programs. It is in four parts:

- Of the disassembler: the types and labels above (`Inv`, `Collected`).
- Of the listing (`Lists`): its rows have places, that is a function `m` from rows to offsets under
  which every row of code is the instruction that starts at its place, printed or with a label put
  for its operand, and every label is on a row whose place is the address of its symbol (`Layout`).
  Every label before the offset is declared on such a row. Each iteration of `PrintBlob` adds one
  instruction, and the label before it if it has one; the labels that are left for `Rest` can only
  be that of the end, and `Recoverable` has it that this is not the last of the table.
- In the first pass (`Assembling`): behind the `.org`, the address is the place of the next line,
  and the table has only names and addresses of the disassembler's (`Known`), all those declared so
  far (`NamedTo`). A line is as long as its instruction whatever part of the labels is known, since
  labels beyond the zero page are wide in either case (`CodeLength`).
- In the second pass: the second blob holds the file up to the place of the next line, and all
  labels are known (`AllNamed`).

That an instruction comes back as its bytes has two halves. `PrintedBack` is about what is printed
as it is, branches with their offsets included: reading shape, width and mark of the operand finds
the mode again, and name and mode have the opcode of the byte (`OpcodeBack`, from the lemmas of
`IsaProofs`), which is where `tya` and `wai` are excluded. `NamedBack` is about jumps with a label: the
name leads to the address of the symbol. `CodeIsFile` puts the two together, and that the blob has
room is `RoundTripAssumption`.
`LabelsStayForTheAssembler` says of the composition what the theorems above say
of the disassembler alone.

`TextModeProofs`. That the terminal shows the window needs only types. That a refresh is complete
needs that two addresses of the video never have one place, and that the bytes do not change while
it runs. `PlacesAreTrue` is an action property: what is drawn goes to the place of its own address,
because the terminal has one for every address of the region.

Recursion. `StartOf`, which counts instructions, is a recursive function, and no induction theorem
can be used. That such a function has the values its equation says follows from the existence of
one that does, and `SourceLinesProofs` proves existence for every sequence made by iteration
(`Iterates`): there is no least length at which it ends, by the least element of a set of naturals
(`Least`). The trace of the assembler needs no such lemma, since the steps of the program build it.

Model-checked only: liveness (`CallsReturn`, `InterruptEndsLoop`, `DisassemblyEnds`), which needs
fairness and `ENABLED`, out of reach of this prover. What can fail in each of them is an action
property with a theorem: `CallsAdvance` (the counter of a loop grows up to its bound and does not wrap
below the ceiling), `InterruptedLoopAdvances` (after a ^C a run goes from statement to statement ahead
and keeps the count of the handler) and `EveryStepAdvances` (of the disassembler's loops each
iteration goes to a higher offset or symbol, takes a symbol away, or looks at a byte for the second
and last time; `AdvanceGoesOn` has it that the offset does not wrap). All of these are bounded, so no
run of the steps is endless; that the steps are taken is the fairness TLC checks with. Every invariant
and every action property of a passing run is the statement of a theorem.

## Not modelled

`v6502_destroyMemory` and the other destructors; wording, colours and layout of everything
printed, verbose annotations included; the lexing of source lines; the header of the iNES format and
its writer, which works on uninitialised memory; objects of several blobs, which no reader makes;
`kmapgen`, which draws a map and keeps no state worth a property; the linker, which has no code
behind its options; decimal mode, interrupts and rti, which `cpu.c` does not implement; memory
exhaustion.

## Plan

1. Memory controller, run loop and breakpoints, processor: done, with proofs.
2. Assembler: the symbol table as the assembler uses it, the instruction table of `parser.c` by way
   of `Isa`, both passes: done, with the proofs of types and of the table.
3. Disassembler, with the removal and truncation of symbols, and the round trip: done, with the
   proofs of types and of labels.
4. Text mode and symbol scripts: done.
5. Left: the iNES reader and writer; `iv` and `load` with the address that has no byte.
6. Proofs of the relation between the two passes of the assembler, of the targets of the
   disassembler and of the calls in progress on the stack: done.
7. Proof of the round trip, from an invariant that says of each line of the listing which
   instruction it stands for: done.
