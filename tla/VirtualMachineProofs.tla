------------------------ MODULE VirtualMachineProofs ------------------------
(***************************************************************************)
(* Theorems about VirtualMachine, for every number of addresses and every  *)
(* number of signals.                                                      *)
(***************************************************************************)
EXTENDS VirtualMachine, TLAPS

-----------------------------------------------------------------------------
(* The breakpoint list as a set *)

Stopping(list) == {list[i] : i \in DOMAIN list}

Distinct(list) == \A i, j \in DOMAIN list : list[i] = list[j] => i = j

LEMMA InListIsStopping ==
  ASSUME NEW list, NEW a PROVE IsInList(list, a) <=> a \in Stopping(list)
BY DEF IsInList, Stopping

\* Adding an address the list does not hold
LEMMA AddedType ==
  ASSUME NEW S, NEW list \in Seq(S), NEW a \in S, ~ IsInList(list, a), Distinct(list)
  PROVE  /\ Added(list, a) \in Seq(S)
         /\ Stopping(Added(list, a)) = Stopping(list) \cup {a}
         /\ Distinct(Added(list, a))
<1>1. Added(list, a) = Append(list, a)
  BY DEF Added
<1> DEFINE new == Append(list, a)
<1>2. /\ new \in Seq(S)
      /\ DOMAIN list = 1 .. Len(list) /\ Len(list) \in Nat
      /\ DOMAIN new = 1 .. Len(list) + 1
      /\ \A i \in 1 .. Len(list) : new[i] = list[i]
      /\ new[Len(list) + 1] = a
  OBVIOUS
<1> HIDE DEF new
<1>3. Stopping(new) = Stopping(list) \cup {a}
  BY <1>2 DEF Stopping
<1>4. Distinct(new)
  BY <1>2 DEF Distinct, IsInList
<1> QED
  BY <1>1, <1>2, <1>3, <1>4 DEF new

\* The first match exists, and in a list without duplicates it is the only one
LEMMA LocationType ==
  ASSUME NEW S, NEW list \in Seq(S), NEW a, IsInList(list, a), Distinct(list)
  PROVE  LocationOf(list, a) \in DOMAIN list /\ list[LocationOf(list, a)] = a
<1>1. PICK i \in DOMAIN list : list[i] = a
  BY DEF IsInList
<1>2. \A j \in 1 .. i - 1 : list[j] # a
  <2>1. \A j \in 1 .. i - 1 : j \in DOMAIN list /\ j # i
    BY <1>1
  <2> QED
    BY <1>1, <2>1 DEF Distinct
<1> QED
  BY <1>1, <1>2 DEF LocationOf

\* Removing an address the list holds: the shift loses that one and keeps the rest
LEMMA RemovedType ==
  ASSUME NEW S, NEW list \in Seq(S), NEW a, IsInList(list, a), Distinct(list)
  PROVE  /\ Removed(list, a) \in Seq(S)
         /\ Stopping(Removed(list, a)) = Stopping(list) \ {a}
         /\ Distinct(Removed(list, a))
<1> DEFINE loc == LocationOf(list, a)
           n   == Len(list)
           new == [i \in 1 .. n - 1 |-> IF i < loc THEN list[i] ELSE list[i + 1]]
<1>1. Removed(list, a) = new
  BY DEF Removed
<1>2. /\ n \in Nat /\ DOMAIN list = 1 .. n
      /\ loc \in 1 .. n /\ list[loc] = a
      /\ \A i \in 1 .. n : list[i] \in S
  BY LocationType
<1>3. n - 1 \in Nat
  BY <1>2
<1> HIDE DEF loc, n
<1>4. new \in Seq(S)
  <2>1. \A i \in 1 .. n - 1 : new[i] \in S
    BY <1>2
  <2> QED
    BY <1>3, <2>1
<1>5. Stopping(new) \subseteq Stopping(list) \ {a}
  <2> SUFFICES ASSUME NEW i \in 1 .. n - 1
               PROVE  new[i] \in Stopping(list) /\ new[i] # a
    BY DEF Stopping
  <2>1. CASE i < loc
    BY <1>2, <2>1 DEF Stopping, Distinct
  <2>2. CASE ~ i < loc
    BY <1>2, <2>2 DEF Stopping, Distinct
  <2> QED
    BY <2>1, <2>2
<1>6. Stopping(list) \ {a} \subseteq Stopping(new)
  <2> SUFFICES ASSUME NEW k \in 1 .. n, list[k] # a
               PROVE  \E i \in 1 .. n - 1 : new[i] = list[k]
    BY <1>2 DEF Stopping
  <2>1. CASE k < loc
    <3>1. k \in 1 .. n - 1 /\ new[k] = list[k]
      BY <1>2, <2>1
    <3> QED
      BY <3>1
  <2>2. CASE k > loc
    <3>1. k - 1 \in 1 .. n - 1 /\ new[k - 1] = list[k]
      BY <1>2, <2>2
    <3> QED
      BY <3>1
  <2> QED
    BY <1>2, <2>1, <2>2
<1>7. Distinct(new)
  <2> SUFFICES ASSUME NEW i \in 1 .. n - 1, NEW j \in 1 .. n - 1, new[i] = new[j]
               PROVE  i = j
    BY DEF Distinct
  <2> DEFINE old(k) == IF k < loc THEN k ELSE k + 1
  <2>1. old(i) \in 1 .. n /\ old(j) \in 1 .. n /\ new[i] = list[old(i)] /\ new[j] = list[old(j)]
    BY <1>2
  <2>2. old(i) = old(j)
    BY <1>2, <2>1 DEF Distinct
  <2> QED
    BY <1>2, <2>2
<1> QED
  BY <1>1, <1>4, <1>5, <1>6, <1>7

\* The breakpoint command toggles one address
LEMMA ToggledType ==
  ASSUME NEW S, NEW list \in Seq(S), NEW a \in S, Distinct(list)
  PROVE  /\ Toggled(list, a) \in Seq(S)
         /\ Stopping(Toggled(list, a)) =
              IF a \in Stopping(list) THEN Stopping(list) \ {a} ELSE Stopping(list) \cup {a}
         /\ Distinct(Toggled(list, a))
<1>1. CASE IsInList(list, a)
  <2>1. Toggled(list, a) = Removed(list, a) /\ a \in Stopping(list)
    BY <1>1, InListIsStopping DEF Toggled
  <2> QED
    BY <1>1, <2>1, RemovedType
<1>2. CASE ~ IsInList(list, a)
  <2>1. Toggled(list, a) = Added(list, a) /\ a \notin Stopping(list)
    BY <1>2, InListIsStopping DEF Toggled
  <2> QED
    BY <1>2, <2>1, AddedType
<1> QED
  BY <1>1, <1>2

-----------------------------------------------------------------------------
(* Types *)

\* The breakpoint list changes in one action only
LEMMA ListChanges ==
  ASSUME [Next]_vars
  PROVE  \/ \E a \in Address : BreakpointCommand(a)
         \/ UNCHANGED breakpoints
<1>1. CASE Boot
  BY <1>1 DEF Boot
<1>2. CASE RunStep
  BY <1>2 DEF RunStep, ClearBreak, ZeroInterrupt, StepOffBreakpoint, RefreshVideo, Shield,
              HitBreakpoint, PassBreakpoints, StepInLoop, TestLoop, Unshield, RestVideo, Report
<1>3. CASE Signal
  BY <1>3 DEF Signal
<1>4. CASE Command
  BY <1>4 DEF Command, RunCommand, StepCommand, AssemblyLine, PokeVideo, Quit, Jump,
              ResetCommand, SetStatus
<1>5. CASE UNCHANGED vars
  BY <1>5 DEF vars
<1> QED
  BY <1>1, <1>2, <1>3, <1>4, <1>5 DEF Next

ListOK == breakpoints \in Seq(Address) /\ Distinct(breakpoints)

LEMMA ListStays == ListOK /\ [Next]_vars => ListOK'
<1> SUFFICES ASSUME ListOK, [Next]_vars PROVE ListOK'
  OBVIOUS
<1>1. CASE \E a \in Address : BreakpointCommand(a)
  BY <1>1, ToggledType DEF BreakpointCommand, ListOK
<1>2. CASE UNCHANGED breakpoints
  BY <1>2 DEF ListOK
<1> QED
  BY <1>1, <1>2, ListChanges

LEMMA ListStarts == Init => ListOK
BY DEF Init, ListOK, Distinct

\* The command for an address toggles that address in the set
LEMMA CommandToggles ==
  ASSUME ListOK, NEW a \in Address, BreakpointCommand(a)
  PROVE  Stops!Toggle(a)
<1> DEFINE stops == {breakpoints[i] : i \in DOMAIN breakpoints}
<1>1. stops = Stopping(breakpoints) /\ stops' = Stopping(breakpoints')
  BY DEF Stopping
<1>2. breakpoints' = Toggled(breakpoints, a)
  BY DEF BreakpointCommand
<1> HIDE DEF stops
<1>3. Stopping(breakpoints') = IF a \in Stopping(breakpoints)
                               THEN Stopping(breakpoints) \ {a}
                               ELSE Stopping(breakpoints) \cup {a}
  BY <1>2, ToggledType DEF ListOK
<1>4. stops' = IF a \in stops THEN stops \ {a} ELSE stops \cup {a}
  BY <1>1, <1>3
<1> QED
  BY <1>4 DEF Stops!Toggle, stops

\* Growing, searching and shifting the array amounts to toggling a member of a
\* set, whatever addresses were toggled before, and nothing else run() or the
\* commands do changes that set: removing the first match removes the address,
\* because no address is in the list twice.
THEOREM ListImplementsSet == Spec => ImplementsBreakpointSet
<1>1. Init => Stops!Init
  BY DEF Init, Stops!Init
<1>2. ListOK /\ [Next]_vars => [Stops!Next]_{breakpoints[i] : i \in DOMAIN breakpoints}
  <2> SUFFICES ASSUME ListOK, [Next]_vars
               PROVE  Stops!Next \/ UNCHANGED {breakpoints[i] : i \in DOMAIN breakpoints}
    OBVIOUS
  <2>1. CASE \E a \in Address : BreakpointCommand(a)
    <3>1. PICK a \in Address : BreakpointCommand(a)
      BY <2>1
    <3> QED
      BY <3>1, CommandToggles DEF Stops!Next
  <2>2. CASE UNCHANGED breakpoints
    BY <2>2
  <2> QED
    BY <2>1, <2>2, ListChanges
<1>3. ListOK => [\A a \in Address : BreakpointCommand(a) => Stops!Toggle(a)]_vars
  BY CommandToggles
<1>4. Spec => []ListOK
  BY ListStarts, ListStays, PTL DEF Spec
<1> QED
  BY <1>1, <1>2, <1>3, <1>4, PTL DEF Spec, ImplementsBreakpointSet, Stops!Spec

LEMMA StepAddress == ASSUME NEW k, pc \in Address, Step(k) PROVE pc' \in Address
<1>1. AddressCount \in Nat \ {0}
  BY MachineAssumption DEF Address
<1>2. Following \in Address
  BY <1>1 DEF Following, Address
<1> QED
  BY <1>2 DEF Step

LEMMA StepFlags ==
  ASSUME NEW k \in Kind, break \in BOOLEAN, screen \in BOOLEAN, Executes(k)
  PROVE  break' \in BOOLEAN /\ screen' \in BOOLEAN
BY DEF Executes, Kind

\* The program counter stays among the addresses and the list holds addresses
\* only, through every command, instruction and signal.
THEOREM TypeCorrect == Spec => []TypeOK
<1>1. Init => TypeOK
  <2>1. 0 \in Address /\ 0 \in 0 .. MaxSignals
    BY MachineAssumption DEF Address
  <2>2. <<>> \in Seq(Address)
    OBVIOUS
  <2>3. None \in Last
    BY DEF Last
  <2> QED
    BY <2>1, <2>2, <2>3 DEF Init, TypeOK, At
<1>2. TypeOK /\ ListOK /\ [Next]_vars => TypeOK'
  <2> SUFFICES ASSUME TypeOK, ListOK, [Next]_vars PROVE TypeOK'
    OBVIOUS
  <2>1. breakpoints' \in Seq(Address)
    BY ListStays DEF ListOK
  <2>2. CASE Boot
    BY <2>2, MachineAssumption DEF Boot, Goto, TypeOK, At, Run
  <2>3. CASE StepOffBreakpoint
    <3>1. pc' \in Address /\ break' \in BOOLEAN /\ screen' \in BOOLEAN
      BY <2>3, StepAddress, StepFlags DEF StepOffBreakpoint, Step, TypeOK
    <3>2. last' \in Last
      BY <2>3 DEF StepOffBreakpoint, TypeOK, Last
    <3> QED
      BY <2>1, <2>3, <3>1, <3>2 DEF StepOffBreakpoint, Goto, TypeOK, At, Run
  <2>4. CASE StepInLoop
    <3>1. pc' \in Address /\ break' \in BOOLEAN /\ screen' \in BOOLEAN
      BY <2>4, StepAddress, StepFlags DEF StepInLoop, Step, TypeOK
    <3>2. last' \in Last
      BY <2>4 DEF StepInLoop, TypeOK, Last
    <3> QED
      BY <2>1, <2>4, <3>1, <3>2 DEF StepInLoop, Goto, TypeOK, At, Run, Loop
  <2>5. CASE \/ ClearBreak \/ ZeroInterrupt \/ RefreshVideo \/ Shield \/ HitBreakpoint
             \/ PassBreakpoints \/ TestLoop \/ Unshield \/ RestVideo \/ Report
    <3>1. at' \in At
      BY <2>5 DEF ClearBreak, ZeroInterrupt, RefreshVideo, Shield, HitBreakpoint, PassBreakpoints,
                  TestLoop, Unshield, RestVideo, Report, Goto, Return, At, Run, Loop
    <3>2. 0 \in 0 .. MaxSignals
      BY MachineAssumption
    <3>3. interrupt' \in 0 .. MaxSignals
      BY <2>5, <3>2
         DEF ClearBreak, ZeroInterrupt, RefreshVideo, Shield, HitBreakpoint, PassBreakpoints,
             TestLoop, Unshield, RestVideo, Report, TypeOK
    <3>4. pc' = pc /\ breakpoints' = breakpoints /\ exited' = exited
      BY <2>5 DEF ClearBreak, ZeroInterrupt, RefreshVideo, Shield, HitBreakpoint, PassBreakpoints,
                  TestLoop, Unshield, RestVideo, Report
    <3>5. break' \in BOOLEAN /\ resist' \in BOOLEAN /\ screen' \in BOOLEAN /\ pressed' \in BOOLEAN
      BY <2>5 DEF ClearBreak, ZeroInterrupt, RefreshVideo, Shield, HitBreakpoint, PassBreakpoints,
                  TestLoop, Unshield, RestVideo, Report, Return, TypeOK
    <3>6. last' \in {last, None}
      BY <2>5 DEF ClearBreak, ZeroInterrupt, RefreshVideo, Shield, HitBreakpoint, PassBreakpoints,
                  TestLoop, Unshield, RestVideo, Report, Return
    <3> QED
      BY <3>1, <3>3, <3>4, <3>5, <3>6 DEF TypeOK, Last
  <2>6. CASE Signal
    BY <2>6, MachineAssumption DEF Signal, TypeOK
  <2>7. CASE StepCommand \/ AssemblyLine
    <3>1. pc' \in Address /\ break' \in BOOLEAN /\ screen' \in BOOLEAN
      BY <2>7, StepAddress, StepFlags DEF StepCommand, AssemblyLine, Step, TypeOK
    <3> QED
      BY <2>1, <2>7, <3>1 DEF StepCommand, AssemblyLine, TypeOK
  <2>8. CASE \E a \in Address : BreakpointCommand(a) \/ Jump(a) \/ ResetCommand(a)
    BY <2>1, <2>8 DEF BreakpointCommand, Jump, ResetCommand, TypeOK
  <2>9. CASE RunCommand \/ PokeVideo \/ Quit \/ \E b \in BOOLEAN : SetStatus(b)
    BY <2>9 DEF RunCommand, PokeVideo, Quit, SetStatus, TypeOK, At, Run
  <2>10. CASE UNCHANGED vars
    BY <2>10 DEF vars, TypeOK
  <2> QED
    BY <2>2, <2>3, <2>4, <2>5, <2>6, <2>7, <2>8, <2>9, <2>10 DEF Next, RunStep, Command
<1>3. Spec => []ListOK
  BY ListStarts, ListStays, PTL DEF Spec
<1> QED
  BY <1>1, <1>2, <1>3, PTL DEF Spec

-----------------------------------------------------------------------------
(* run() and the handler *)

\* A ^C between any two statements of the loop is survived, in every run: the
\* handler finds resist up, however earlier runs were left.
THEOREM LoopIsShielded == Spec => []LoopSurvivesInterrupt
<1>1. Init => LoopSurvivesInterrupt
  BY DEF Init, LoopSurvivesInterrupt, Loop
<1>2. LoopSurvivesInterrupt /\ [Next]_vars => LoopSurvivesInterrupt'
  <2> SUFFICES ASSUME LoopSurvivesInterrupt, [Next]_vars PROVE LoopSurvivesInterrupt'
    OBVIOUS
  <2>1. CASE Boot
    BY <2>1 DEF Boot, Goto, LoopSurvivesInterrupt, Loop
  <2>2. CASE RunStep
    BY <2>2 DEF RunStep, ClearBreak, ZeroInterrupt, StepOffBreakpoint, RefreshVideo, Shield,
                HitBreakpoint, PassBreakpoints, StepInLoop, TestLoop, Unshield, RestVideo, Report,
                Goto, Return, LoopSurvivesInterrupt, Loop
  <2>3. CASE Signal
    BY <2>3 DEF Signal, LoopSurvivesInterrupt
  <2>4. CASE Command
    BY <2>4 DEF Command, RunCommand, BreakpointCommand, StepCommand, AssemblyLine, PokeVideo,
                Quit, Jump, ResetCommand, SetStatus, AtPrompt, LoopSurvivesInterrupt, Loop
  <2>5. CASE UNCHANGED vars
    BY <2>5 DEF vars, LoopSurvivesInterrupt
  <2> QED
    BY <2>1, <2>2, <2>3, <2>4, <2>5 DEF Next
<1> QED
  BY <1>1, <1>2, PTL DEF Spec

\* What makes the check at the top of the loop hold at the step: nothing moves pc
\* in between, and the list changes at the prompt, where no run is in progress.
StopsInv ==
  /\ at = "step" => ~ IsInList(breakpoints, pc)
  /\ at \in {"boot", "prompt", "clear", "zero", "first"} => last = None
  /\ StopsAtBreakpoints

\* Once an instruction of a run has gone by, every further one was looked up in
\* the breakpoint list as it stood when it was executed.
THEOREM BreakpointsStop == Spec => []StopsAtBreakpoints
<1>1. Init => StopsInv
  BY DEF Init, StopsInv, StopsAtBreakpoints
<1>2. StopsInv /\ [Next]_vars => StopsInv'
  <2> SUFFICES ASSUME StopsInv, [Next]_vars PROVE StopsInv'
    OBVIOUS
  <2>1. CASE Boot
    BY <2>1 DEF Boot, Goto, StopsInv, StopsAtBreakpoints
  <2>2. CASE StepOffBreakpoint
    BY <2>2 DEF StepOffBreakpoint, Goto, Instruction, StopsInv, StopsAtBreakpoints
  <2>3. CASE StepInLoop
    BY <2>3 DEF StepInLoop, Goto, Instruction, StopsInv, StopsAtBreakpoints
  <2>4. CASE HitBreakpoint \/ Report
    BY <2>4 DEF HitBreakpoint, Report, Return, Goto, StopsInv, StopsAtBreakpoints
  <2>5. CASE ClearBreak \/ ZeroInterrupt \/ RefreshVideo \/ Shield \/ PassBreakpoints \/ TestLoop
               \/ Unshield \/ RestVideo
    BY <2>5 DEF ClearBreak, ZeroInterrupt, RefreshVideo, Shield, PassBreakpoints, TestLoop,
                Unshield, RestVideo, Goto, StopsInv, StopsAtBreakpoints
  <2>6. CASE Signal
    BY <2>6 DEF Signal, StopsInv, StopsAtBreakpoints
  <2>7. CASE Command
    BY <2>7 DEF Command, RunCommand, BreakpointCommand, StepCommand, AssemblyLine, PokeVideo,
                Quit, Jump, ResetCommand, SetStatus, AtPrompt, StopsInv, StopsAtBreakpoints
  <2>8. CASE UNCHANGED vars
    BY <2>8 DEF vars, StopsInv, StopsAtBreakpoints
  <2> QED
    BY <2>1, <2>2, <2>3, <2>4, <2>5, <2>6, <2>7, <2>8 DEF Next, RunStep
<1>3. StopsInv => StopsAtBreakpoints
  BY DEF StopsInv
<1> QED
  BY <1>1, <1>2, <1>3, PTL DEF Spec

\* After a brk of the loop the thread is on its way out of it: at the test with
\* the flag up, or past the test.
BrkInv ==
  last # None /\ last.kind = "brk" /\ last.by = "step" =>
    (at = "test" /\ break) \/ at \in {"unshield", "rest", "report"}

\* The first brk the loop executes is the last instruction of its run, with
\* signals at any moment.
THEOREM BrkIsLast == Spec => BrkEndsLoop
<1>1. Init => BrkInv
  BY DEF Init, BrkInv
<1>2. BrkInv /\ [Next]_vars => BrkInv'
  <2> SUFFICES ASSUME BrkInv, [Next]_vars PROVE BrkInv'
    OBVIOUS
  <2>1. CASE Boot
    BY <2>1 DEF Boot, Goto, BrkInv
  <2>2. CASE StepOffBreakpoint
    BY <2>2 DEF StepOffBreakpoint, Goto, Instruction, BrkInv
  <2>3. CASE StepInLoop
    BY <2>3 DEF StepInLoop, Step, Executes, Goto, Instruction, BrkInv
  <2>4. CASE HitBreakpoint \/ Report
    BY <2>4 DEF HitBreakpoint, Report, Return, BrkInv
  <2>5. CASE TestLoop
    BY <2>5 DEF TestLoop, Halts, Goto, BrkInv
  <2>6. CASE ClearBreak \/ ZeroInterrupt \/ RefreshVideo \/ Shield \/ PassBreakpoints
               \/ Unshield \/ RestVideo
    BY <2>6 DEF ClearBreak, ZeroInterrupt, RefreshVideo, Shield, PassBreakpoints,
                Unshield, RestVideo, Goto, BrkInv
  <2>7. CASE Signal
    BY <2>7 DEF Signal, BrkInv
  <2>8. CASE Command
    BY <2>8 DEF Command, RunCommand, BreakpointCommand, StepCommand, AssemblyLine, PokeVideo,
                Quit, Jump, ResetCommand, SetStatus, AtPrompt, BrkInv
  <2>9. CASE UNCHANGED vars
    BY <2>9 DEF vars, BrkInv
  <2> QED
    BY <2>1, <2>2, <2>3, <2>4, <2>5, <2>6, <2>7, <2>8, <2>9 DEF Next, RunStep
<1>3. BrkInv /\ [Next]_vars =>
        [last # None /\ last.kind = "brk" /\ last.by = "step" => last' \in {last, None}]_vars
  <2> SUFFICES ASSUME BrkInv, Next, last # None, last.kind = "brk", last.by = "step"
               PROVE  last' \in {last, None}
    OBVIOUS
  <2>1. at \in {"test", "unshield", "rest", "report"}
    BY DEF BrkInv
  <2>2. CASE Boot
    BY <2>1, <2>2 DEF Boot
  <2>3. CASE RunStep
    BY <2>1, <2>3 DEF RunStep, ClearBreak, ZeroInterrupt, StepOffBreakpoint, RefreshVideo, Shield,
                HitBreakpoint, PassBreakpoints, StepInLoop, TestLoop, Unshield, RestVideo, Report,
                Goto, Return
  <2>4. CASE Signal
    BY <2>4 DEF Signal
  <2>5. CASE Command
    BY <2>5 DEF Command, RunCommand, BreakpointCommand, StepCommand, AssemblyLine, PokeVideo,
                Quit, Jump, ResetCommand, SetStatus
  <2> QED
    BY <2>2, <2>3, <2>4, <2>5 DEF Next
<1> QED
  BY <1>1, <1>2, <1>3, PTL DEF Spec, BrkEndsLoop

\* After a ^C in the loop a run goes ahead only, until it is over: what is left of the proof
\* that it ends is that the thread is scheduled.
THEOREM InterruptedRunsGoAhead == Spec => InterruptedLoopAdvances
<1>1. TypeOK /\ [Next]_vars =>
        [interrupt > 0 /\ at \in DOMAIN StatementOrder \ {"prompt"} =>
           \/ StatementOrder[at'] > StatementOrder[at] /\ interrupt' = interrupt
           \/ interrupt' > interrupt]_vars
  <2> SUFFICES ASSUME TypeOK, Next, interrupt > 0, at \in DOMAIN StatementOrder \ {"prompt"}
               PROVE  \/ StatementOrder[at'] > StatementOrder[at] /\ interrupt' = interrupt
                      \/ interrupt' > interrupt
    OBVIOUS
  <2>1. /\ at \in {"check", "step", "test", "unshield", "rest", "report"}
        /\ interrupt \in Int
    BY DEF StatementOrder, TypeOK
  <2>2. /\ StatementOrder["check"] = 1 /\ StatementOrder["step"] = 2
        /\ StatementOrder["test"] = 3 /\ StatementOrder["unshield"] = 4
        /\ StatementOrder["rest"] = 5 /\ StatementOrder["report"] = 6
        /\ StatementOrder["prompt"] = 7
    BY DEF StatementOrder
  <2>3. CASE Boot \/ Command
    BY <2>1, <2>3 DEF Boot, Goto, Command, RunCommand, BreakpointCommand, StepCommand,
                AssemblyLine, PokeVideo, Quit, Jump, ResetCommand, SetStatus, AtPrompt
  <2>4. CASE ClearBreak \/ ZeroInterrupt \/ StepOffBreakpoint \/ RefreshVideo \/ Shield
    BY <2>1, <2>4 DEF ClearBreak, ZeroInterrupt, StepOffBreakpoint, RefreshVideo, Shield, Goto
  <2>5. CASE HitBreakpoint \/ Report
    BY <2>2, <2>5 DEF HitBreakpoint, Report, Return, Goto
  <2>6. CASE PassBreakpoints \/ StepInLoop \/ Unshield \/ RestVideo
    BY <2>2, <2>6 DEF PassBreakpoints, StepInLoop, Unshield, RestVideo, Goto
  <2>7. CASE TestLoop
    BY <2>2, <2>7 DEF TestLoop, Halts, Goto
  <2>8. CASE Signal
    BY <2>1, <2>8 DEF Signal
  <2> QED
    BY <2>3, <2>4, <2>5, <2>6, <2>7, <2>8 DEF Next, RunStep
<1> QED
  BY <1>1, TypeCorrect, PTL DEF Spec, InterruptedLoopAdvances

=============================================================================
