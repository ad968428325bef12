--------------------------- MODULE VirtualMachine ---------------------------
(***************************************************************************)
(* The interactive machine of v6502/main.c: run(), the SIGINT handler that *)
(* may interrupt it between any two statements, and the commands of        *)
(* v6502/debugger.c that change what run() looks at.                       *)
(* The main thread is at one of the statements named in At. The processor  *)
(* shows its program counter and its break flag; what the instruction at   *)
(* an address is and where it goes is open, for programs modify themselves *)
(* and commands load, poke and reset memory between any two instructions.  *)
(***************************************************************************)
EXTENDS BreakpointList

CONSTANTS
  AddressCount,  \* the number of addresses of the processor
  ResetVector,   \* DEFAULT_RESET_VECTOR
  MaxSignals     \* bound on the SIGINTs counted in interrupt

Address == 0 .. AddressCount - 1

ASSUME MachineAssumption ==
  /\ AddressCount \in Nat
  /\ ResetVector \in Address
  /\ MaxSignals \in Nat

VARIABLES
  at,           \* the statement the main thread executes next
  pc,           \* cpu->pc
  break,        \* the break flag of cpu->sr
  breakpoints,  \* breakpoint_list
  interrupt,    \* the sig_atomic_t the handler counts in
  resist,       \* whether the handler lets the process live
  screen,       \* video->screen: curses holds the terminal
  exited,       \* the process is gone
  last,         \* history: the last instruction of the run in progress
  pressed       \* history: a SIGINT arrived since that run began

vars == <<at, pc, break, breakpoints, interrupt, resist, screen, exited, last, pressed>>

\* The statements of run(), in order, between the start and the prompt
Loop == {"check", "step", "test"}
Run  == {"clear", "zero", "first", "refresh", "shield"} \cup Loop
          \cup {"unshield", "rest", "report"}
At   == {"boot", "prompt"} \cup Run

\* What run() can tell apart: brk sets the break flag, plp loads it from the
\* stack, a store to video memory takes the terminal
Kind == {"brk", "plp", "draw", "other"}

None == [kind |-> "none"]
Instruction(k, a, s) == [kind |-> k, from |-> a, by |-> s]

Last == {None} \cup {Instruction(k, a, s) : k \in Kind, a \in Address, s \in {"first", "step"}}

TypeOK ==
  /\ at \in At
  /\ pc \in Address
  /\ break \in BOOLEAN
  /\ breakpoints \in Seq(Address)
  /\ interrupt \in 0 .. MaxSignals
  /\ resist \in BOOLEAN
  /\ screen \in BOOLEAN
  /\ exited \in BOOLEAN
  /\ pressed \in BOOLEAN
  /\ last \in Last

Init ==
  /\ at = "boot"
  /\ pc = 0
  /\ break = FALSE
  /\ breakpoints = <<>>
  /\ interrupt = 0
  /\ resist = FALSE
  /\ screen = FALSE
  /\ exited = FALSE
  /\ last = None
  /\ pressed = FALSE

-----------------------------------------------------------------------------
(* The processor *)

\* v6502_execute of an instruction of the kind, with the flags it leaves
Executes(kind) ==
  /\ kind = "brk" => break' = TRUE
  /\ kind = "plp" => break' \in BOOLEAN
  /\ kind \in {"draw", "other"} => break' = break
  /\ screen' = (screen \/ kind = "draw")

\* Mutant: a program counter wider than 16 bits
PastTheEnd == pc + 1

Following == (pc + 1) % AddressCount

\* v6502_step: brk and plp are one byte long, anything else may jump
Step(kind) ==
  /\ Executes(kind)
  /\ IF kind \in {"brk", "plp"} THEN pc' = Following ELSE pc' \in Address

-----------------------------------------------------------------------------
(* run() *)

Goto(from, to) == ~ exited /\ at = from /\ at' = to

\* main() up to the first run(): the handler is installed first of all
Boot ==
  /\ Goto("boot", "clear")
  /\ pc' = ResetVector
  /\ UNCHANGED <<break, breakpoints, interrupt, resist, screen, exited, last, pressed>>

ClearBreak ==
  /\ Goto("clear", "zero")
  /\ break' = FALSE
  /\ UNCHANGED <<pc, breakpoints, interrupt, resist, screen, exited, last, pressed>>

ZeroInterrupt ==
  /\ Goto("zero", "first")
  /\ interrupt' = 0
  /\ UNCHANGED <<pc, break, breakpoints, resist, screen, exited, last, pressed>>

\* Start from a breakpoint: one instruction goes by unchecked
StepOffBreakpoint ==
  /\ Goto("first", "refresh")
  /\ IF IsInList(breakpoints, pc)
     THEN \E k \in Kind : Step(k) /\ last' = Instruction(k, pc, "first")
     ELSE UNCHANGED <<pc, break, screen, last>>
  /\ UNCHANGED <<breakpoints, interrupt, resist, exited, pressed>>

RefreshVideo ==
  /\ Goto("refresh", "shield")
  /\ screen' = TRUE
  /\ UNCHANGED <<pc, break, breakpoints, interrupt, resist, exited, last, pressed>>

\* Mutant: the handler is never told to spare the process
Unshielded ==
  /\ Goto("shield", "check")
  /\ UNCHANGED <<pc, break, breakpoints, interrupt, resist, screen, exited, last, pressed>>

Shield ==
  /\ Goto("shield", "check")
  /\ resist' = TRUE
  /\ UNCHANGED <<pc, break, breakpoints, interrupt, screen, exited, last, pressed>>

\* Return to the caller: the history of the run ends
Return(from) == Goto(from, "prompt") /\ last' = None /\ pressed' = FALSE

\* At a breakpoint run() returns from within the loop
HitBreakpoint ==
  /\ IsInList(breakpoints, pc)
  /\ Return("check")
  /\ UNCHANGED <<pc, break, breakpoints, interrupt, resist, screen, exited>>

\* Mutant: the loop does not look for a breakpoint
Unchecked ==
  /\ Goto("check", "step")
  /\ UNCHANGED <<pc, break, breakpoints, interrupt, resist, screen, exited, last, pressed>>

PassBreakpoints ==
  /\ ~ IsInList(breakpoints, pc)
  /\ Goto("check", "step")
  /\ UNCHANGED <<pc, break, breakpoints, interrupt, resist, screen, exited, last, pressed>>

StepInLoop ==
  /\ Goto("step", "test")
  /\ \E k \in Kind : Step(k) /\ last' = Instruction(k, pc, "step")
  /\ UNCHANGED <<breakpoints, interrupt, resist, exited, pressed>>

\* Mutant: the loop looks at the break flag only
Deaf == break

\* Mutant: the loop looks at the handler's counter only
Unbroken == interrupt > 0

Halts == break \/ interrupt > 0

TestLoop ==
  /\ Goto("test", IF Halts THEN "unshield" ELSE "check")
  /\ UNCHANGED <<pc, break, breakpoints, interrupt, resist, screen, exited, last, pressed>>

Unshield ==
  /\ Goto("unshield", "rest")
  /\ resist' = FALSE
  /\ UNCHANGED <<pc, break, breakpoints, interrupt, screen, exited, last, pressed>>

RestVideo ==
  /\ Goto("rest", "report")
  /\ screen' = FALSE
  /\ UNCHANGED <<pc, break, breakpoints, interrupt, resist, exited, last, pressed>>

Report ==
  /\ Return("report")
  /\ UNCHANGED <<pc, break, breakpoints, interrupt, resist, screen, exited>>

RunStep ==
  \/ ClearBreak \/ ZeroInterrupt \/ StepOffBreakpoint \/ RefreshVideo \/ Shield
  \/ HitBreakpoint \/ PassBreakpoints \/ StepInLoop \/ TestLoop
  \/ Unshield \/ RestVideo \/ Report

-----------------------------------------------------------------------------
(* The handler *)

\* handleSignal, between any two statements of the main thread
Signal ==
  /\ ~ exited /\ interrupt < MaxSignals
  /\ interrupt' = interrupt + 1
  /\ exited' = ~ resist
  /\ pressed' = (at \in Run)
  /\ UNCHANGED <<at, pc, break, breakpoints, resist, screen, last>>

-----------------------------------------------------------------------------
(* Commands *)

AtPrompt == ~ exited /\ at = "prompt"

RunCommand ==
  /\ AtPrompt
  /\ at' = "clear"
  /\ UNCHANGED <<pc, break, breakpoints, interrupt, resist, screen, exited, last, pressed>>

BreakpointCommand(a) ==
  /\ AtPrompt
  /\ breakpoints' = Toggled(breakpoints, a)
  /\ UNCHANGED <<at, pc, break, interrupt, resist, screen, exited, last, pressed>>

StepCommand ==
  /\ AtPrompt
  /\ \E k \in Kind : Step(k)
  /\ UNCHANGED <<at, breakpoints, interrupt, resist, exited, last, pressed>>

\* A line of assembly is executed in place: only a jump moves pc
AssemblyLine ==
  /\ AtPrompt
  /\ \E k \in Kind : Executes(k) /\ IF k = "other" THEN pc' \in Address ELSE pc' = pc
  /\ UNCHANGED <<at, breakpoints, interrupt, resist, exited, last, pressed>>

\* jmp and register pc; and nmi, whose vector may hold any address
Jump(a) ==
  /\ AtPrompt
  /\ pc' = a
  /\ UNCHANGED <<at, break, breakpoints, interrupt, resist, screen, exited, last, pressed>>

ResetCommand(a) ==
  /\ AtPrompt
  /\ pc' = a /\ break' = FALSE
  /\ UNCHANGED <<at, breakpoints, interrupt, resist, screen, exited, last, pressed>>

\* register sr
SetStatus(b) ==
  /\ AtPrompt
  /\ break' = b
  /\ UNCHANGED <<at, pc, breakpoints, interrupt, resist, screen, exited, last, pressed>>

\* A poke of video memory; the other commands that write memory show nowhere here
PokeVideo ==
  /\ AtPrompt
  /\ screen' = TRUE
  /\ UNCHANGED <<at, pc, break, breakpoints, interrupt, resist, exited, last, pressed>>

\* quit leaves at once, the end of the input through the teardown of main(),
\* which ends curses but leaves video->screen as it is
Quit ==
  /\ AtPrompt
  /\ exited' = TRUE
  /\ UNCHANGED <<at, pc, break, breakpoints, interrupt, resist, screen, last, pressed>>

Command ==
  \/ RunCommand \/ StepCommand \/ AssemblyLine \/ PokeVideo \/ Quit
  \/ \E a \in Address : BreakpointCommand(a) \/ Jump(a) \/ ResetCommand(a)
  \/ \E b \in BOOLEAN : SetStatus(b)

-----------------------------------------------------------------------------

Next == Boot \/ RunStep \/ Signal \/ Command

Spec == Init /\ [][Next]_vars

\* The main thread is scheduled; nobody has to type a command or a ^C
FairSpec == Spec /\ WF_vars(RunStep)

-----------------------------------------------------------------------------
(* Properties *)

\* No instruction of a run is executed at a breakpoint, but for the first one:
\* the check precedes every step of the loop and nothing moves pc in between.
StopsAtBreakpoints ==
  last # None /\ IsInList(breakpoints, last.from) => last.by = "first"

\* Once the loop has executed a brk, the run executes nothing else: the flag
\* the brk set is tested before the next instruction could clear it. (The step off a
\* breakpoint, main.c:73, is outside of the loop and is followed by one more.)
BrkEndsLoop ==
  [][last # None /\ last.kind = "brk" /\ last.by = "step" => last' \in {last, None}]_vars

\* A ^C in the loop never takes the process down, whatever happened before
\* that run: the machine is still there to be looked at.
LoopSurvivesInterrupt == at \in Loop => resist /\ ~ exited

\* A ^C in the loop ends the run, whatever the program does.
InterruptEndsLoop ==
  (at \in Loop /\ interrupt > 0) ~> (at = "prompt" \/ exited)

StatementOrder ==
  [check |-> 1, step |-> 2, test |-> 3, unshield |-> 4, rest |-> 5, report |-> 6, prompt |-> 7]

\* After a ^C in the loop the run goes ahead only: no statement takes it back to an earlier
\* one or takes the ^C away, and all that can come between is another ^C (v6502/main.c 78-95).
InterruptedLoopAdvances ==
  [][interrupt > 0 /\ at \in DOMAIN StatementOrder \ {"prompt"} =>
       \/ StatementOrder[at'] > StatementOrder[at] /\ interrupt' = interrupt
       \/ interrupt' > interrupt]_vars

\* "When running the CPU can be interrupted with a SIGINT or ^C"
\* (docs/NOTES.dox:276): a ^C at any statement of run() ends the run or the process.
InterruptEndsRun ==
  pressed ~> (at = "prompt" \/ exited)

Stops == INSTANCE BreakpointSet WITH stops <- {breakpoints[i] : i \in DOMAIN breakpoints}

\* The list behaves as a set: the command for an address toggles that address and
\* leaves every other breakpoint alone, and a removed one is gone although only
\* its first match is taken out.
ImplementsBreakpointSet ==
  /\ Stops!Spec
  /\ [][\A a \in Address : BreakpointCommand(a) => Stops!Toggle(a)]_vars

=============================================================================
