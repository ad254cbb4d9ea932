------------------------------- MODULE MCLive --------------------------------
(***************************************************************************)
(* Constants of the run Live, on what processes wait for: the log, input     *)
(* from the console, output to it, the clock, and the start of the           *)
(* processors, side by side.  A behaviour is one of one of the five, the      *)
(* others stay in their initial state.                                      *)
(***************************************************************************)
EXTENDS Log, Console, Printing, Clock, Boot

CONSTANTS p1, p2, b1, b2, b3, v1

MCProcs  == {p1, p2}
MCBlocks == {b1, b2, b3}
MCVals   == {v1}

\* Three processors that are started by the second; ids with a gap; no table; an entry
\* of a type that is not known.
Proc1(i) == [type |-> "proc", id |-> i]
Entry1(t) == [type |-> t, id |-> -1]
MCLowPages == <<1, 2, 3, 4, 5>>
MCHighPages == <<6>>
MCTables ==
  {[entries |-> <<Proc1(0), Entry1("other"), Proc1(1), Proc1(2)>>, bsp |-> 1],
   [entries |-> <<Proc1(0), Proc1(1)>>, bsp |-> 1],
   [entries |-> <<Proc1(0), Proc1(2)>>, bsp |-> 2],
   [entries |-> << >>, bsp |-> 0],
   [entries |-> <<Proc1(0), Entry1("unknown"), Proc1(1)>>, bsp |-> 0]}

VARIABLE which

allVars == <<vars, consoleVars, printVars, clockVars, bootVars, which>>

MCInit ==
  /\ which \in {"log", "console", "print", "clock", "boot"}
  /\ Init /\ ConsoleInit /\ PrintInit /\ ClockInit /\ BootInit
  /\ which # "boot" => table.entries = << >>

Only(w, A, others) == which = w /\ A /\ UNCHANGED <<others, which>>
InLog(A)     == Only("log", A, <<consoleVars, printVars, clockVars, bootVars>>)
InConsole(A) == Only("console", A, <<vars, printVars, clockVars, bootVars>>)
InPrint(A)   == Only("print", A, <<vars, consoleVars, clockVars, bootVars>>)
InClock(A)   == Only("clock", A, <<vars, consoleVars, printVars, bootVars>>)
InBoot(A)    == Only("boot", A, <<vars, consoleVars, printVars, clockVars>>)

\* Output stops after a panic, and input when nobody types.
MCNext ==
  \/ InLog(Next)
  \/ InConsole(ConsoleNext)
  \/ InPrint(PrintNext)
  \/ InClock(ClockNext)
  \/ InBoot(BootNext)
  \/ which \in {"console", "print"} /\ UNCHANGED allVars

\* The fairness of each part, as it is stated there.
MCSpec ==
  /\ MCInit /\ [][MCNext]_allVars
  /\ \A p \in Procs : WF_allVars(InLog(Continue(p))) /\ SF_allVars(InLog(EndOp(p)))
  /\ WF_allVars(InLog(Recover \/ BootDone))
  /\ \A p \in Readers : WF_allVars(InConsole(Consoleread(p)))
  /\ \A c \in Printers : WF_allVars(InPrint(PrintStep(c)))
  /\ WF_allVars(InBoot(Main)) /\ \A c \in CpuIds : WF_allVars(InBoot(c \in Machine /\ CpuStep(c)))
  /\ WF_allVars(InClock(Tick)) /\ \A p \in Sleepers : WF_allVars(InClock(SleepLoop(p)))

\* The property of Boot, of its behaviours.
ProcessorsStart == which = "boot" => BootRight
=============================================================================
