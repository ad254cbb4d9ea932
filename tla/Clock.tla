------------------------------- MODULE Clock --------------------------------
(***************************************************************************)
(* The tick counter and sleep (trap.c, sysproc.c): the timer of CPU 0 counts, *)
(* processes sleep until enough ticks have passed.  All of it is under        *)
(* tickslock: a pass through the loop of sys_sleep is one step.             *)
(***************************************************************************)
EXTENDS Integers

CONSTANTS
  Sleepers,
  Ns,          \* the n of their calls; a negative int is an unsigned number here
  TickWrap,    \* 2^32
  Lag          \* ticks that pass at most until a process that is woken is run

ASSUME ClockAssumption == TickWrap \in Nat \ {0} /\ Ns \subseteq 0..(TickWrap - 1) /\ Lag \in Nat

VARIABLES
  ticks,
  ticks0, nticks,   \* of sys_sleep
  spot,             \* "user", "loop", "sleep"
  ended,            \* its proc->killed
  passed,           \* how many ticks have come since the call
  waits             \* and since the sleeper was woken

clockVars == <<ticks, ticks0, nticks, spot, ended, passed, waits>>

Capped(x) == IF x < TickWrap + Lag THEN x + 1 ELSE x

\* Mutant: the tick at which to wake is computed first.
TimeBySum(p) == ticks >= (ticks0[p] + nticks[p]) % TickWrap

\* Mutant: only the very tick will do.
TimeExact(p) == (ticks + TickWrap - ticks0[p]) % TickWrap = nticks[p]

TimeUp(p) == (ticks + TickWrap - ticks0[p]) % TickWrap >= nticks[p]

\* The timer interrupt: ticks++, wakeup(&ticks).
Tick ==
  /\ \A p \in Sleepers : spot[p] = "loop" => waits[p] < Lag
  /\ ticks' = (ticks + 1) % TickWrap
  /\ spot' = [p \in Sleepers |-> IF spot[p] = "sleep" THEN "loop" ELSE spot[p]]
  /\ passed' = [p \in Sleepers |-> IF spot[p] = "user" THEN passed[p] ELSE Capped(passed[p])]
  /\ waits' = [p \in Sleepers |-> IF spot[p] = "loop" THEN waits[p] + 1 ELSE 0]
  /\ UNCHANGED <<ticks0, nticks, ended>>

SleepCall(p) ==
  /\ spot[p] = "user" /\ ~ ended[p]
  /\ \E k \in Ns : nticks' = [nticks EXCEPT ![p] = k]
  /\ ticks0' = [ticks0 EXCEPT ![p] = ticks]
  /\ spot' = [spot EXCEPT ![p] = "loop"]
  /\ passed' = [passed EXCEPT ![p] = 0]
  /\ UNCHANGED <<ticks, ended, waits>>

SleepLoop(p) ==
  /\ spot[p] = "loop"
  /\ spot' = [spot EXCEPT ![p] = IF TimeUp(p) \/ ended[p] THEN "user" ELSE "sleep"]
  /\ waits' = [waits EXCEPT ![p] = 0]
  /\ UNCHANGED <<ticks, ended>>
  /\ IF spot'[p] = "sleep" THEN UNCHANGED <<ticks0, nticks, passed>>
     ELSE \* the local variables are gone
          /\ ticks0' = [ticks0 EXCEPT ![p] = 0] /\ nticks' = [nticks EXCEPT ![p] = 0]
          /\ passed' = [passed EXCEPT ![p] = 0]

KillSleeper(p) ==
  /\ ~ ended[p]
  /\ ended' = [ended EXCEPT ![p] = TRUE]
  /\ spot' = [spot EXCEPT ![p] = IF @ = "sleep" THEN "loop" ELSE @]
  /\ UNCHANGED <<ticks, ticks0, nticks, passed, waits>>

ClockInit ==
  /\ ticks = 0
  /\ ticks0 = [p \in Sleepers |-> 0] /\ nticks = [p \in Sleepers |-> 0]
  /\ spot = [p \in Sleepers |-> "user"] /\ ended = [p \in Sleepers |-> FALSE]
  /\ passed = [p \in Sleepers |-> 0] /\ waits = [p \in Sleepers |-> 0]

ClockNext == Tick \/ \E p \in Sleepers : SleepCall(p) \/ SleepLoop(p) \/ KillSleeper(p)

\* The timer goes on, and processes that are woken run.
ClockSpec ==
  /\ ClockInit /\ [][ClockNext]_clockVars
  /\ WF_clockVars(Tick) /\ \A p \in Sleepers : WF_clockVars(SleepLoop(p))

-----------------------------------------------------------------------------
\* sleep(n) returns after n ticks, not before, and no later than its process is run
\* after the n-th, wherever the counter is and when it wraps (sys_sleep).  Not so late is
\* not said of the n that are so large that the difference wraps before the process looks
\* again: such a call may sleep on.
OnTime(p) ==
  /\ passed[p] >= nticks[p]
  /\ nticks[p] + Lag < TickWrap => passed[p] <= nticks[p] + Lag
SleepsOnTime ==
  [][\A p \in Sleepers :
       spot[p] = "loop" /\ spot'[p] = "user" /\ ~ ended[p] => OnTime(p)]_clockVars

\* Sleepers come back, killed ones too, but for the n that are so large (sys_sleep).
SleepsRight ==
  \A p \in Sleepers :
    spot[p] = "sleep" /\ (nticks[p] + Lag < TickWrap \/ ended[p]) ~> spot[p] = "user"
=============================================================================
