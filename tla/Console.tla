------------------------------ MODULE Console -------------------------------
(***************************************************************************)
(* Input from the console (console.c): a ring that interrupts of the keyboard *)
(* and the serial line fill and edit, and that processes read.             *)
(*                                                                         *)
(* A critical section of input.lock is one step: the handling of one         *)
(* character, since those of one interrupt are no different from those of     *)
(* several, and what a reader does until it sleeps or is done.               *)
(***************************************************************************)
EXTENDS Integers, Sequences

CONSTANTS
  Readers,
  ReadSizes,      \* the n of their reads
  Printable,
  INPUT_BUF,
  Wrap         \* 2^32, of the indexes

ASSUME ConsoleAssumption ==
  INPUT_BUF \in Nat \ {0} /\ Wrap \in Nat /\ Wrap % INPUT_BUF = 0 /\ Wrap > INPUT_BUF

VARIABLES
  input,           \* buf and the indexes r, w and e
  doing,              \* where a reader is
  want, target,    \* its n, and what it was at first
  dead             \* its proc->killed

readerVars  == <<doing, want, target>>
consoleVars == <<input, readerVars, dead>>

Add(x, y)  == (x + y) % Wrap
Diff(x, y) == (x + Wrap - y) % Wrap
At(k)      == input.buf[k % INPUT_BUF]
EndsLine   == {"nl", "eof"}

-----------------------------------------------------------------------------
\* Mutant: the indexes are compared as they are.
FullRaw == input.e >= input.r + INPUT_BUF

Full1 == Diff(input.e, input.r) >= INPUT_BUF

\* Mutant: the reader is not woken.
RouseNobody == UNCHANGED doing

\* wakeup(&input.r)
RouseReaders == doing' = [p \in Readers |-> IF doing[p] = "asleep" THEN "reading" ELSE doing[p]]

\* Without room a character is dropped.
Typed(c) ==
  LET end == Add(input.e, 1)
      put == [input EXCEPT !.buf[input.e % INPUT_BUF] = c, !.e = end]
  IN  /\ ~ Full1
      /\ IF c \in EndsLine \/ end = Add(input.r, INPUT_BUF)
         THEN input' = [put EXCEPT !.w = end] /\ RouseReaders
         ELSE input' = put /\ UNCHANGED doing
      /\ UNCHANGED <<want, target, dead>>

Back1(k) == input' = [input EXCEPT !.e = Add(@, Wrap - k)] /\ UNCHANGED <<readerVars, dead>>

BackspaceKey == input.e # input.w /\ Back1(1)

\* Control-U: back to the last newline, or w.
KillLineKey ==
  LET Stops(k) == k = Diff(input.e, input.w) \/ At(Add(input.e, Wrap - k - 1)) = "nl"
  IN  \E k \in 0..Diff(input.e, input.w) :
        Stops(k) /\ (\A j \in 0..(k - 1) : ~ Stops(j)) /\ Back1(k)

Consoleintr == (\E c \in Printable \cup EndsLine : Typed(c)) \/ BackspaceKey \/ KillLineKey

-----------------------------------------------------------------------------
StartRead(p) ==
  /\ doing[p] = "idle" /\ ~ dead[p]
  /\ \E k \in ReadSizes : want' = [want EXCEPT ![p] = k] /\ target' = [target EXCEPT ![p] = k]
  /\ doing' = [doing EXCEPT ![p] = "reading"]
  /\ UNCHANGED <<input, dead>>

\* The local variables are gone.
Return(p) ==
  /\ doing' = [doing EXCEPT ![p] = "idle"]
  /\ want' = [want EXCEPT ![p] = 0] /\ target' = [target EXCEPT ![p] = 0]

\* The ring is empty: give up or sleep.
NothingThere(p) ==
  /\ doing[p] = "reading" /\ input.r = input.w
  /\ IF dead[p] THEN Return(p)
     ELSE doing' = [doing EXCEPT ![p] = "asleep"] /\ UNCHANGED <<want, target>>
  /\ UNCHANGED <<input, dead>>

\* The loop, k characters on: as far as the ring, n and the line go.
Ends1(p, k) ==
  k = want[p] \/ Add(input.r, k) = input.w \/ (k > 0 /\ At(Add(input.r, k - 1)) \in EndsLine)
Taken(p) == CHOOSE k \in 1..INPUT_BUF : Ends1(p, k) /\ \A j \in 1..(k - 1) : ~ Ends1(p, j)

\* A ^D is put back unless it is the first.
KeepEof(p, left) == left < target[p]

TakeLine(p) ==
  LET k    == Taken(p)
      last == At(Add(input.r, k - 1))
      left == IF last = "eof" THEN want[p] - k + 1 ELSE want[p] - k
  IN  /\ doing[p] = "reading" /\ input.r # input.w
      /\ input' = [input EXCEPT !.r = Add(@, IF last = "eof" /\ KeepEof(p, left) THEN k - 1 ELSE k)]
      /\ IF last \in EndsLine \/ left = 0 THEN Return(p)
         ELSE want' = [want EXCEPT ![p] = left] /\ UNCHANGED <<doing, target>>
      /\ UNCHANGED dead

\* kill: a sleeper becomes runnable.
KillReader(p) ==
  /\ ~ dead[p]
  /\ dead' = [dead EXCEPT ![p] = TRUE]
  /\ doing' = [doing EXCEPT ![p] = IF @ = "asleep" THEN "reading" ELSE @]
  /\ UNCHANGED <<input, want, target>>

Consoleread(p) == NothingThere(p) \/ TakeLine(p)

ConsoleInit ==
  /\ input = [buf |-> [i \in 0..(INPUT_BUF - 1) |-> "nul"], r |-> 0, w |-> 0, e |-> 0]
  /\ doing = [p \in Readers |-> "idle"]
  /\ want = [p \in Readers |-> 0] /\ target = [p \in Readers |-> 0]
  /\ dead = [p \in Readers |-> FALSE]

ConsoleNext ==
  \/ Consoleintr
  \/ \E p \in Readers : StartRead(p) \/ Consoleread(p) \/ KillReader(p)

\* Readers that are runnable run; nobody has to type.
ConsoleSpec ==
  /\ ConsoleInit /\ [][ConsoleNext]_consoleVars
  /\ \A p \in Readers : WF_consoleVars(Consoleread(p))

-----------------------------------------------------------------------------
Between(i, j) == [k \in 1..Diff(j, i) |-> At(Add(i, k - 1))]

L == INSTANCE LineDiscipline
       WITH ready <- Between(input.r, input.w), edit <- Between(input.w, input.e), Room <- INPUT_BUF

\* The ring is a line discipline, wherever its indexes are and also when they wrap:
\* nothing is lost, read twice or edited after it has been entered (consoleintr,
\* consoleread).
Disciplined == L!Init /\ [][L!Next]_(L!vars)

\* A reader does not sleep on while there is something to read, which a ring without
\* room always has; and a killed one comes back (consoleintr, consoleread, kill).
ReadersServed ==
  /\ [](Full1 => input.r # input.w)
  /\ \A p \in Readers : doing[p] = "asleep" /\ input.r # input.w ~> doing[p] # "asleep" \/ input.r = input.w
  /\ \A p \in Readers : dead[p] ~> doing[p] = "idle" \/ input.r # input.w
=============================================================================
