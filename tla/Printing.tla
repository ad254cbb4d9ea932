------------------------------ MODULE Printing ------------------------------
(***************************************************************************)
(* Output to the console, and panic (console.c): several CPUs print with      *)
(* cprintf and consolewrite, under cons.lock, until one of them panics, which *)
(* must get its message out whoever holds the lock, and freezes the others.   *)
(***************************************************************************)
EXTENDS Naturals

CONSTANTS
  Printers,     \* the CPUs
  NoPrinter,
  Chars         \* characters of a message

ASSUME PrintingAssumption == Chars \in Nat \ {0} /\ NoPrinter \notin Printers

VARIABLES
  conslock,     \* who holds cons.lock
  locking,      \* cons.locking
  panicking,    \* the CPUs that have called panic
  frozen,       \* panicked of console.c
  step,         \* where a CPU is
  locked1,      \* its local variable locking
  more,         \* characters it still has to print
  late          \* characters it has printed since panicked was set

printVars == <<conslock, locking, panicking, frozen, step, locked1, more, late>>

Steps == {"run", "cprintf", "acquire", "putc", "uart", "release", "halt"}
ToStep(c, l) == step[c] = l /\ UNCHANGED <<panicking>>
NextStep(c, l) == step' = [step EXCEPT ![c] = l]

\* Mutant: panic prints under the lock.
StillLocking == locking

WithoutLock == FALSE

\* cprintf reads cons.locking once.
Cprintf(c) ==
  /\ ToStep(c, "run")
  /\ locked1' = [locked1 EXCEPT ![c] = locking]
  /\ more' = [more EXCEPT ![c] = Chars]
  /\ NextStep(c, IF locking THEN "acquire" ELSE "putc")
  /\ UNCHANGED <<conslock, locking, frozen, late>>

\* consolewrite takes the lock whatever cons.locking is.
Consolewrite(c) ==
  /\ ToStep(c, "run") /\ c \notin panicking
  /\ locked1' = [locked1 EXCEPT ![c] = TRUE]
  /\ more' = [more EXCEPT ![c] = Chars]
  /\ NextStep(c, "acquire")
  /\ UNCHANGED <<conslock, locking, frozen, late>>

AcquireCons(c) ==
  /\ ToStep(c, "acquire") /\ conslock = NoPrinter
  /\ conslock' = c
  /\ NextStep(c, "putc")
  /\ UNCHANGED <<locking, frozen, locked1, more, late>>

\* consputc: if panicked the CPU stays there.
Consputc(c) ==
  /\ ToStep(c, "putc")
  /\ NextStep(c, IF frozen THEN "halt" ELSE "uart")
  /\ UNCHANGED <<conslock, locking, frozen, locked1, more, late>>

\* Mutant: panicked is looked at once in a message.
LookOnce(c) == IF more[c] > 1 THEN "uart" ELSE "release"

AfterPutc(c) == IF more[c] > 1 THEN "putc" ELSE "release"

\* uartputc and cgaputc.
Putc(c) ==
  /\ ToStep(c, "uart")
  /\ more' = [more EXCEPT ![c] = @ - 1]
  /\ late' = [late EXCEPT ![c] = IF frozen THEN @ + 1 ELSE @]
  /\ NextStep(c, AfterPutc(c))
  /\ UNCHANGED <<conslock, locking, frozen, locked1>>

\* A panic is at its end after its message.
ReleaseCons(c) ==
  /\ ToStep(c, "release")
  /\ conslock' = IF locked1[c] THEN NoPrinter ELSE conslock
  /\ NextStep(c, IF c \in panicking THEN "halt" ELSE "run")
  /\ frozen' = (frozen \/ c \in panicking)
  /\ UNCHANGED <<locking, locked1, more, late>>

\* panic, in code that prints nothing, or in cprintf("null fmt"): its own cprintf.
PanicCall(c) ==
  /\ step[c] = "run" \/ (step[c] = "putc" /\ more[c] = Chars)
  /\ c \notin panicking
  /\ panicking' = panicking \cup {c}
  /\ locking' = WithoutLock
  /\ locked1' = [locked1 EXCEPT ![c] = locking']
  /\ more' = [more EXCEPT ![c] = Chars]
  /\ NextStep(c, IF locking' THEN "acquire" ELSE "putc")
  /\ UNCHANGED <<conslock, frozen, late>>

PrintStep(c) ==
  Consputc(c) \/ Putc(c) \/ AcquireCons(c) \/ ReleaseCons(c)

PrintInit ==
  /\ conslock = NoPrinter /\ locking = TRUE /\ panicking = {} /\ frozen = FALSE
  /\ step = [c \in Printers |-> "run"] /\ locked1 = [c \in Printers |-> FALSE]
  /\ more = [c \in Printers |-> 0] /\ late = [c \in Printers |-> 0]

PrintNext == \E c \in Printers : PrintStep(c) \/ Cprintf(c) \/ Consolewrite(c) \/ PanicCall(c)

\* CPUs run.
PrintSpec ==
  /\ PrintInit /\ [][PrintNext]_printVars
  /\ \A c \in Printers : WF_printVars(PrintStep(c))

-----------------------------------------------------------------------------
\* A panic comes to its end, on that CPU or on another that panics too, whoever holds
\* cons.lock (panic, cprintf).
PanicShown == panicking # {} ~> frozen

\* Until the first panic messages are not mixed; when a panic has been shown each CPU
\* prints the character it is at and no other (cprintf, consolewrite, consputc, panic).
MessagesApart ==
  /\ panicking = {} => \A c, d \in Printers :
       {step[c], step[d]} \subseteq {"putc", "uart", "release"} => c = d
  /\ \A c \in Printers : late[c] <= 1
=============================================================================
