--------------------------- MODULE LineDiscipline ---------------------------
(***************************************************************************)
(* What the console promises the readers of its input: characters are put    *)
(* into a line, which can be edited until it is complete; complete lines are  *)
(* read in order, every character once, and no read goes beyond the end of a *)
(* line.  Characters for which there is no room are dropped.                *)
(***************************************************************************)
EXTENDS Naturals, Sequences

CONSTANTS
  Printable,    \* characters without a meaning for the console
  Room          \* characters that can be kept

VARIABLES
  ready,    \* what can be read
  edit      \* the line that is being typed

vars == <<ready, edit>>

Enders == {"nl", "eof"}

Enter(c) ==
  LET full == Len(ready) + Len(edit) + 1 = Room
  IN  /\ Len(ready) + Len(edit) < Room
      /\ IF c \in Enders \/ full
         THEN ready' = ready \o Append(edit, c) /\ edit' = << >>
         ELSE edit' = Append(edit, c) /\ UNCHANGED ready

Backspace == edit # << >> /\ edit' = SubSeq(edit, 1, Len(edit) - 1) /\ UNCHANGED ready

KillLine == edit' = << >> /\ UNCHANGED ready

Read ==
  \E k \in DOMAIN ready :
    /\ \A i \in 1..(k - 1) : ready[i] \notin Enders
    /\ ready' = SubSeq(ready, k + 1, Len(ready))
    /\ UNCHANGED edit

Init == ready = << >> /\ edit = << >>
Next == (\E c \in Printable \cup Enders : Enter(c)) \/ Backspace \/ KillLine \/ Read

Spec == Init /\ [][Next]_vars
=============================================================================
