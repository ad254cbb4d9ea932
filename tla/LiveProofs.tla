----------------------------- MODULE LiveProofs -----------------------------
(***************************************************************************)
(* Proofs about what the modules Printing, Clock, Console and Boot keep     *)
(* safe, for any number of processors, processes and characters, wherever   *)
(* counters wrap, and for any table of the firmware.                       *)
(***************************************************************************)
EXTENDS Printing, Clock, Console, Boot, SequenceTheorems, WellFoundedInduction, TLAPS

LEMMA Division ==
  ASSUME NEW a \in Int, NEW w \in Nat \ {0}
  PROVE  a = w * (a \div w) + (a % w) /\ a \div w \in Int /\ a % w \in 0..(w - 1)
OBVIOUS

LEMMA DivisionIs ==
  ASSUME NEW a \in Int, NEW w \in Nat \ {0}, NEW q \in Int, NEW r \in 0..(w - 1),
         a = w * q + r
  PROVE  a \div w = q /\ a % w = r
OBVIOUS

LEMMA Remainder ==
  ASSUME NEW a \in Int, NEW w \in Nat \ {0}
  PROVE  \E q \in Int, x \in Int, r \in Int :
           x = w * q /\ a = x + r /\ r = a % w /\ 0 <= r /\ r < w
<1>1. PICK q \in Int, r \in Int : q = a \div w /\ r = a % w
  BY Division
<1>2. a = w * q + r /\ 0 <= r /\ r < w
  BY <1>1, Division
<1>3. PICK x \in Int : x = w * q
  OBVIOUS
<1>4. a = x + r
  BY <1>2, <1>3
<1> QED BY <1>1, <1>2, <1>3, <1>4

LEMMA RemainderIs ==
  ASSUME NEW a \in Int, NEW w \in Nat \ {0}, NEW q \in Int, NEW x \in Int, NEW r \in Int,
         x = w * q, a = x + r, 0 <= r, r < w
  PROVE  a % w = r
<1>1. r \in 0..(w - 1) /\ a = w * q + r
  OBVIOUS
<1> QED BY <1>1, DivisionIs

LEMMA ModBelow ==
  ASSUME NEW w \in Nat \ {0}, NEW a \in 0..(w - 1)
  PROVE  a % w = a
<1> DEFINE q == 0
<1>1. a \in Int /\ q \in Int /\ a = w * q + a
  OBVIOUS
<1> HIDE DEF q
<1> QED BY <1>1, DivisionIs

\* Around the counter once.
LEMMA ModMore ==
  ASSUME NEW w \in Nat \ {0}, NEW a \in Int
  PROVE  (a + w) % w = a % w
<1>1. PICK q \in Int, r \in 0..(w - 1) : a = w * q + r /\ r = a % w
  BY Division
<1>2. PICK n \in Int : n = q + 1
  OBVIOUS
<1>3. w * n = w * q + w /\ w * q \in Int /\ w * n \in Int
  BY <1>2
<1>4. PICK x \in Int, y \in Int : x = w * q /\ y = w * n
  BY <1>3
<1>5. a = x + r /\ y = x + w
  BY <1>1, <1>3, <1>4
<1>6. PICK b \in Int : b = a + w
  OBVIOUS
<1>7. b = y + r
  BY <1>5, <1>6
<1>8. b % w = r
  BY <1>2, <1>4, <1>7, DivisionIs
<1> QED BY <1>1, <1>6, <1>8

LEMMA ModAdd ==
  ASSUME NEW w \in Nat \ {0}, NEW a \in Int, NEW b \in Int
  PROVE  ((a % w) + b) % w = (a + b) % w
<1>1. PICK q \in Int, r \in 0..(w - 1) : a = w * q + r /\ r = a % w
  BY Division
<1>2. PICK m \in Int, t \in 0..(w - 1) : r + b = w * m + t /\ t = (r + b) % w
  <2>1. PICK c \in Int : c = r + b
    OBVIOUS
  <2> QED BY <2>1, Division
<1>3. PICK n \in Int : n = q + m
  OBVIOUS
<1>4. w * n = w * q + w * m /\ w * q \in Int /\ w * m \in Int /\ w * n \in Int
  BY <1>3
<1>5. PICK x \in Int, y \in Int, z \in Int : x = w * q /\ y = w * m /\ z = w * n
  BY <1>4
<1>6. a = x + r /\ r + b = y + t /\ z = x + y
  BY <1>1, <1>2, <1>4, <1>5
<1>7. PICK c \in Int : c = a + b
  OBVIOUS
<1>8. c = z + t
  BY <1>6, <1>7
<1>9. c % w = t
  BY <1>3, <1>5, <1>8, DivisionIs
<1> QED BY <1>1, <1>2, <1>7, <1>9

-----------------------------------------------------------------------------
(* Printing.                                                               *)

Shows == {"putc", "uart", "release"}

PrintInv ==
  /\ step \in [Printers -> Steps] /\ late \in [Printers -> 0..1]
  /\ locked1 \in [Printers -> BOOLEAN] /\ more \in [Printers -> Int]
  /\ locking \in BOOLEAN /\ frozen \in BOOLEAN
  /\ panicking = {} => /\ locking = TRUE /\ ~ frozen
                       /\ \A c \in Printers : /\ step[c] # "run" => locked1[c]
                                              /\ step[c] \in Shows => conslock = c
  /\ ~ frozen => \A c \in Printers : late[c] = 0
  /\ \A c \in Printers : step[c] = "uart" => late[c] = 0

LEMMA InitPrinting == PrintInit => PrintInv
<1> SUFFICES ASSUME PrintInit
             PROVE  PrintInv
  OBVIOUS
<1>1. /\ step \in [Printers -> Steps] /\ late \in [Printers -> 0..1]
      /\ locked1 \in [Printers -> BOOLEAN] /\ more \in [Printers -> Int]
      /\ locking = TRUE /\ frozen = FALSE
  BY DEF PrintInit, Steps
<1>2. \A c \in Printers : step[c] = "run" /\ late[c] = 0
  BY DEF PrintInit
<1> QED BY <1>1, <1>2 DEF PrintInv, Shows

LEMMA StepPrinting == PrintInv /\ [PrintNext]_printVars => PrintInv'
<1> SUFFICES ASSUME PrintInv, [PrintNext]_printVars
             PROVE  PrintInv'
  OBVIOUS
<1> USE DEF PrintInv, Steps, Shows, ToStep, NextStep
<1>1. ASSUME NEW c \in Printers, Cprintf(c)
      PROVE  PrintInv'
  BY <1>1, PrintingAssumption DEF Cprintf
<1>2. ASSUME NEW c \in Printers, Consolewrite(c)
      PROVE  PrintInv'
  BY <1>2, PrintingAssumption DEF Consolewrite
<1>3. ASSUME NEW c \in Printers, AcquireCons(c)
      PROVE  PrintInv'
  BY <1>3, PrintingAssumption DEF AcquireCons
<1>4. ASSUME NEW c \in Printers, Consputc(c)
      PROVE  PrintInv'
  BY <1>4 DEF Consputc
<1>5. ASSUME NEW c \in Printers, Putc(c)
      PROVE  PrintInv'
  BY <1>5 DEF Putc, AfterPutc
<1>6. ASSUME NEW c \in Printers, ReleaseCons(c)
      PROVE  PrintInv'
  BY <1>6 DEF ReleaseCons
<1>7. ASSUME NEW c \in Printers, PanicCall(c)
      PROVE  PrintInv'
  <2>1. /\ panicking' # {} /\ locking' = FALSE /\ UNCHANGED <<frozen, late>>
        /\ step' = [step EXCEPT ![c] = "putc"]
        /\ locked1' = [locked1 EXCEPT ![c] = FALSE] /\ more' = [more EXCEPT ![c] = Chars]
    BY <1>7 DEF PanicCall, WithoutLock
  <2>2. step' \in [Printers -> Steps] /\ locked1' \in [Printers -> BOOLEAN]
    BY <2>1
  <2>3. more' \in [Printers -> Int] /\ late' \in [Printers -> 0..1]
    BY <2>1, PrintingAssumption
  <2>4. locking' \in BOOLEAN /\ frozen' \in BOOLEAN
    BY <2>1
  <2>5. \A d \in Printers : step'[d] = "uart" => step[d] = "uart"
    BY <2>1
  <2> QED BY <2>1, <2>2, <2>3, <2>4, <2>5
<1>8. CASE UNCHANGED printVars
  BY <1>8 DEF printVars
<1> QED BY <1>1, <1>2, <1>3, <1>4, <1>5, <1>6, <1>7, <1>8 DEF PrintNext, PrintStep

\* Until the first panic no CPU prints into the message of another; when a panic has been
\* shown each CPU prints the character it is at and no other, whatever it holds (cprintf,
\* consolewrite, consputc and panic, which prints without the lock).
THEOREM MessagesKeptApart == PrintSpec => []MessagesApart
<1>1. PrintInit => PrintInv
  BY InitPrinting
<1>2. PrintInv /\ [PrintNext]_printVars => PrintInv'
  BY StepPrinting
<1>3. PrintInv => MessagesApart
  BY DEF PrintInv, MessagesApart, Shows
<1> QED BY <1>1, <1>2, <1>3, PTL DEF PrintSpec

-----------------------------------------------------------------------------
(* Clock.                                                                  *)

Most == TickWrap + Lag     \* where passed stops

\* How the counter stands to the ticks that have passed, and how many may have.
SleeperOK(p) ==
  /\ spot[p] \in {"user", "loop", "sleep"}
  /\ ticks0[p] \in 0..(TickWrap - 1) /\ nticks[p] \in 0..(TickWrap - 1)
  /\ passed[p] \in 0..Most /\ waits[p] \in 0..Lag /\ ended[p] \in BOOLEAN
  /\ spot[p] # "loop" => waits[p] = 0
  /\ spot[p] # "user" /\ passed[p] < Most => ticks = (ticks0[p] + passed[p]) % TickWrap
  /\ nticks[p] + Lag < TickWrap /\ ~ ended[p] =>
       /\ spot[p] = "loop"  => passed[p] <= nticks[p] + waits[p]
       /\ spot[p] = "sleep" => passed[p] < nticks[p]

ClockInv ==
  /\ ticks \in 0..(TickWrap - 1)
  /\ DOMAIN spot = Sleepers /\ DOMAIN ticks0 = Sleepers /\ DOMAIN nticks = Sleepers
  /\ DOMAIN passed = Sleepers /\ DOMAIN waits = Sleepers /\ DOMAIN ended = Sleepers
  /\ \A p \in Sleepers : SleeperOK(p)

\* What the process computes, ticks - ticks0 in 32 bits.
LEMMA DifferenceIs ==
  ASSUME ClockInv, NEW p \in Sleepers, spot[p] # "user"
  PROVE  LET d == (ticks + TickWrap - ticks0[p]) % TickWrap
         IN  /\ d \in 0..(TickWrap - 1)
             /\ passed[p] < Most => d = passed[p] % TickWrap /\ d <= passed[p]
             /\ passed[p] < TickWrap => d = passed[p]
<1> DEFINE d == (ticks + TickWrap - ticks0[p]) % TickWrap
<1>1. /\ TickWrap \in Nat \ {0} /\ Lag \in Nat /\ ticks \in Int
      /\ ticks0[p] \in Int /\ passed[p] \in Nat /\ ticks0[p] \in 0..(TickWrap - 1)
  BY ClockAssumption DEF ClockInv, SleeperOK
<1>2. d \in 0..(TickWrap - 1)
  BY <1>1, Division
<1>3. ASSUME passed[p] < Most
      PROVE  d = passed[p] % TickWrap /\ d <= passed[p]
  <2>1. ticks = (ticks0[p] + passed[p]) % TickWrap
    BY <1>3 DEF ClockInv, SleeperOK
  <2>2. PICK b \in Int : b = TickWrap - ticks0[p]
    BY <1>1
  <2>3. PICK a \in Int : a = ticks0[p] + passed[p]
    BY <1>1
  <2>4. ticks + TickWrap - ticks0[p] = ticks + b
    BY <1>1, <2>2
  <2>5. d = (a + b) % TickWrap
    BY <1>1, <2>1, <2>2, <2>3, <2>4, ModAdd
  <2>6. a + b = passed[p] + TickWrap
    BY <1>1, <2>2, <2>3
  <2>7. d = passed[p] % TickWrap
    <3>1. PICK x \in Int : x = passed[p]
      BY <1>1
    <3>2. (x + TickWrap) % TickWrap = x % TickWrap
      BY <1>1, ModMore
    <3> QED BY <2>5, <2>6, <3>1, <3>2
  <2>8. passed[p] % TickWrap <= passed[p]
    <3>1. PICK q \in Int, r \in 0..(TickWrap - 1) :
            passed[p] = TickWrap * q + r /\ r = passed[p] % TickWrap
      <4>1. PICK x \in Int : x = passed[p]
        BY <1>1
      <4> QED BY <1>1, <4>1, Division
    <3>2. q >= 0
      <4>1. ASSUME q <= -1
            PROVE  FALSE
        <5>1. PICK m \in Nat : m = -1 - q
          BY <4>1
        <5>2. TickWrap * q = - TickWrap - TickWrap * m /\ TickWrap * m >= 0
          <6>1. q = -1 - m
            BY <5>1
          <6> QED BY <1>1, <6>1
        <5> QED BY <1>1, <3>1, <5>2
      <4> QED BY <4>1
    <3>3. TickWrap * q >= 0
      BY <1>1, <3>2
    <3> QED BY <1>1, <3>1, <3>3
  <2> QED BY <2>7, <2>8
<1>4. ASSUME passed[p] < TickWrap
      PROVE  d = passed[p]
  <2>1. passed[p] < Most
    BY <1>1, <1>4 DEF Most
  <2>2. passed[p] \in 0..(TickWrap - 1)
    BY <1>1, <1>4
  <2> QED BY <1>1, <1>3, <2>1, <2>2, ModBelow
<1> QED BY <1>2, <1>3, <1>4

LEMMA InitClock == ClockInit => ClockInv
BY ClockAssumption DEF ClockInit, ClockInv, SleeperOK, Most

LEMMA TickKeeps == ClockInv /\ Tick => ClockInv'
<1> SUFFICES ASSUME ClockInv, Tick
             PROVE  ClockInv'
  OBVIOUS
<1>1. TickWrap \in Nat \ {0} /\ Lag \in Nat /\ ticks \in 0..(TickWrap - 1)
  BY ClockAssumption DEF ClockInv
<1>2. ticks' \in 0..(TickWrap - 1) /\ ticks' = (ticks + 1) % TickWrap
  <2>1. ticks + 1 \in Int
    BY <1>1
  <2> QED BY <1>1, <2>1, Division DEF Tick
<1>3. ASSUME NEW p \in Sleepers
      PROVE  SleeperOK(p)'
  <2>1. /\ SleeperOK(p)
        /\ spot'[p] = IF spot[p] = "sleep" THEN "loop" ELSE spot[p]
        /\ passed'[p] = IF spot[p] = "user" THEN passed[p]
                        ELSE IF passed[p] < Most THEN passed[p] + 1 ELSE passed[p]
        /\ waits'[p] = IF spot[p] = "loop" THEN waits[p] + 1 ELSE 0
        /\ spot[p] = "loop" => waits[p] < Lag
        /\ UNCHANGED <<ticks0, nticks, ended>>
    BY <1>1 DEF ClockInv, Tick, Capped, Most
  <2>2. spot[p] # "user" /\ passed[p] < Most =>
          ticks' = (ticks0[p] + (passed[p] + 1)) % TickWrap
    <3> SUFFICES ASSUME spot[p] # "user", passed[p] < Most
                 PROVE  ticks' = (ticks0[p] + (passed[p] + 1)) % TickWrap
      OBVIOUS
    <3>1. ticks = (ticks0[p] + passed[p]) % TickWrap
      BY <2>1 DEF SleeperOK
    <3>2. PICK a \in Int : a = ticks0[p] + passed[p]
      BY <2>1 DEF SleeperOK
    <3>3. ((a % TickWrap) + 1) % TickWrap = (a + 1) % TickWrap
      <4>1. PICK one \in Int : one = 1
        OBVIOUS
      <4>2. ((a % TickWrap) + one) % TickWrap = (a + one) % TickWrap
        BY <1>1, ModAdd
      <4> QED BY <4>1, <4>2
    <3>4. a + 1 = ticks0[p] + (passed[p] + 1)
      BY <2>1, <3>2 DEF SleeperOK
    <3> QED BY <1>2, <3>1, <3>2, <3>3, <3>4
  <2>3. Most \in Nat
    BY <1>1 DEF Most
  <2>4. /\ spot[p] # "user" /\ passed'[p] < Most =>
             ticks' = (ticks0[p] + passed'[p]) % TickWrap
    BY <2>1, <2>2, <2>3 DEF SleeperOK
  <2> QED BY <1>1, <2>1, <2>3, <2>4 DEF SleeperOK
<1> QED BY <1>2, <1>3 DEF ClockInv, Tick

LEMMA StepClock == ClockInv /\ [ClockNext]_clockVars => ClockInv'
<1> SUFFICES ASSUME ClockInv, [ClockNext]_clockVars
             PROVE  ClockInv'
  OBVIOUS
<1>0. TickWrap \in Nat \ {0} /\ Lag \in Nat /\ ticks \in 0..(TickWrap - 1) /\ Most \in Nat
  BY ClockAssumption DEF ClockInv, Most
<1>1. CASE Tick
  BY <1>1, TickKeeps
<1>2. ASSUME NEW p \in Sleepers, SleepCall(p)
      PROVE  ClockInv'
  <2>1. PICK k \in Ns : nticks' = [nticks EXCEPT ![p] = k]
    BY <1>2 DEF SleepCall
  <2>2. k \in 0..(TickWrap - 1)
    BY ClockAssumption
  <2>3. (ticks + 0) % TickWrap = ticks
    BY <1>0, ModBelow
  <2>4. SleeperOK(p)'
    BY <1>0, <1>2, <2>1, <2>2, <2>3 DEF SleepCall, ClockInv, SleeperOK
  <2>5. ASSUME NEW r \in Sleepers, r # p
        PROVE  SleeperOK(r)'
    BY <1>2, <2>1, <2>5 DEF SleepCall, ClockInv, SleeperOK
  <2> QED BY <1>2, <2>1, <2>4, <2>5 DEF SleepCall, ClockInv
<1>3. ASSUME NEW p \in Sleepers, SleepLoop(p)
      PROVE  ClockInv'
  <2>1. spot'[p] = IF TimeUp(p) \/ ended[p] THEN "user" ELSE "sleep"
    BY <1>3 DEF SleepLoop, ClockInv
  <2>2. SleeperOK(p)'
    <3>1. CASE TimeUp(p) \/ ended[p]
      BY <1>0, <1>3, <2>1, <3>1 DEF SleepLoop, ClockInv, SleeperOK
    <3>2. CASE ~ (TimeUp(p) \/ ended[p])
      <4>1. nticks[p] + Lag < TickWrap => passed[p] < nticks[p]
        <5> SUFFICES ASSUME nticks[p] + Lag < TickWrap
                     PROVE  passed[p] < nticks[p]
          OBVIOUS
        <5>1. passed[p] < TickWrap
          BY <1>0, <1>3, <3>2 DEF SleepLoop, ClockInv, SleeperOK
        <5>2. spot[p] # "user" /\ nticks[p] \in Nat
          BY <1>3 DEF SleepLoop, ClockInv, SleeperOK
        <5>3. (ticks + TickWrap - ticks0[p]) % TickWrap = passed[p]
          BY <5>1, <5>2, DifferenceIs
        <5>4. passed[p] \in Nat
          BY DEF ClockInv, SleeperOK
        <5> QED BY <3>2, <5>2, <5>3, <5>4 DEF TimeUp
      <4> QED BY <1>0, <1>3, <2>1, <3>2, <4>1 DEF SleepLoop, ClockInv, SleeperOK
    <3> QED BY <3>1, <3>2
  <2>3. ASSUME NEW r \in Sleepers, r # p
        PROVE  SleeperOK(r)'
    BY <1>3, <2>3 DEF SleepLoop, ClockInv, SleeperOK
  <2> QED BY <1>3, <2>2, <2>3 DEF SleepLoop, ClockInv
<1>4. ASSUME NEW p \in Sleepers, KillSleeper(p)
      PROVE  ClockInv'
  <2>1. SleeperOK(p)'
    BY <1>0, <1>4 DEF KillSleeper, ClockInv, SleeperOK
  <2>2. ASSUME NEW r \in Sleepers, r # p
        PROVE  SleeperOK(r)'
    BY <1>4, <2>2 DEF KillSleeper, ClockInv, SleeperOK
  <2> QED BY <1>4, <2>1, <2>2 DEF KillSleeper, ClockInv
<1>5. CASE UNCHANGED clockVars
  BY <1>5 DEF clockVars, ClockInv, SleeperOK
<1> QED BY <1>1, <1>2, <1>3, <1>4, <1>5 DEF ClockNext

LEMMA ReturnsOnTime ==
  ASSUME ClockInv, [ClockNext]_clockVars, NEW p \in Sleepers,
         spot[p] = "loop", spot'[p] = "user", ~ ended[p]
  PROVE  OnTime(p)
<1>0. /\ TickWrap \in Nat \ {0} /\ Lag \in Nat /\ DOMAIN spot = Sleepers /\ SleeperOK(p)
      /\ Most = TickWrap + Lag
  BY ClockAssumption DEF ClockInv, Most
<1>1. TimeUp(p)
  <2>1. CASE Tick
    BY <1>0, <2>1 DEF Tick
  <2>2. ASSUME NEW r \in Sleepers, SleepCall(r)
        PROVE  TimeUp(p)
    BY <1>0, <2>2 DEF SleepCall
  <2>3. ASSUME NEW r \in Sleepers, SleepLoop(r)
        PROVE  TimeUp(p)
    BY <1>0, <2>3 DEF SleepLoop
  <2>4. ASSUME NEW r \in Sleepers, KillSleeper(r)
        PROVE  TimeUp(p)
    BY <1>0, <2>4 DEF KillSleeper
  <2> QED BY <2>1, <2>2, <2>3, <2>4 DEF ClockNext, clockVars
<1>2. passed[p] \in 0..Most /\ nticks[p] \in 0..(TickWrap - 1) /\ waits[p] \in 0..Lag
  BY <1>0 DEF SleeperOK
<1>3. PICK d \in Nat : d = (ticks + TickWrap - ticks0[p]) % TickWrap
  BY <1>0, DifferenceIs
<1>4. d >= nticks[p]
  BY <1>1, <1>3 DEF TimeUp
<1>5. passed[p] < Most => d <= passed[p]
  BY <1>3, DifferenceIs
<1>6. passed[p] >= nticks[p]
  BY <1>0, <1>2, <1>4, <1>5
<1>7. nticks[p] + Lag < TickWrap => passed[p] <= nticks[p] + waits[p]
  BY <1>0 DEF SleeperOK
<1> QED BY <1>0, <1>2, <1>6, <1>7 DEF OnTime

\* sleep(n) returns after n ticks or more, and, if its process is run within Lag ticks of
\* every wakeup, after n + Lag or less, wherever ticks is when it is called and also when it
\* wraps meanwhile (sys_sleep, trap).
THEOREM ReturnOnTime == ClockSpec => SleepsOnTime
<1>1. ClockInit => ClockInv
  BY InitClock
<1>2. ClockInv /\ [ClockNext]_clockVars => ClockInv'
  BY StepClock
<1>3. ClockInv /\ [ClockNext]_clockVars =>
        [\A p \in Sleepers :
           spot[p] = "loop" /\ spot'[p] = "user" /\ ~ ended[p] => OnTime(p)]_clockVars
  BY ReturnsOnTime
<1> QED BY <1>1, <1>2, <1>3, PTL DEF ClockSpec, SleepsOnTime

-----------------------------------------------------------------------------
(* Console: the ring.                                                      *)

Letters == Printable \cup EndsLine \cup {"nul"}
Index   == 0..(Wrap - 1)
Ring    == [buf : [0..(INPUT_BUF - 1) -> Letters], r : Index, w : Index, e : Index]

LEMMA RingConstants ==
  /\ INPUT_BUF \in Nat \ {0} /\ Wrap \in Nat \ {0} /\ INPUT_BUF < Wrap
  /\ \E m \in Int : Wrap = INPUT_BUF * m
<1>1. INPUT_BUF \in Nat \ {0} /\ Wrap \in Nat \ {0} /\ INPUT_BUF < Wrap /\ Wrap % INPUT_BUF = 0
  BY ConsoleAssumption
<1>2. PICK m \in Int, z \in Int : Wrap = INPUT_BUF * m + z /\ z = 0
  BY <1>1, Division
<1> QED BY <1>1, <1>2

LEMMA AddIs ==
  ASSUME NEW i \in Int, NEW k \in Int
  PROVE  Add(i, k) \in Index /\ Add(i, k) \in Int
<1>1. PICK a \in Int : a = i + k
  OBVIOUS
<1>2. a % Wrap \in 0..(Wrap - 1)
  BY RingConstants, Division
<1> QED BY <1>1, <1>2, RingConstants DEF Add, Index

LEMMA AddAdd ==
  ASSUME NEW i \in Int, NEW k \in Int, NEW n \in Int
  PROVE  Add(Add(i, k), n) = Add(i, k + n)
<1>1. PICK a \in Int : a = i + k
  OBVIOUS
<1>2. ((a % Wrap) + n) % Wrap = (a + n) % Wrap
  BY RingConstants, ModAdd
<1>3. a + n = i + (k + n)
  BY <1>1
<1> QED BY <1>1, <1>2, <1>3 DEF Add

LEMMA AddNone ==
  ASSUME NEW i \in Index
  PROVE  Add(i, 0) = i /\ Add(i, Wrap) = i
<1>1. Wrap \in Nat \ {0} /\ i \in Int /\ i \in 0..(Wrap - 1)
  BY RingConstants DEF Index
<1>2. i % Wrap = i /\ (i + Wrap) % Wrap = i % Wrap
  BY <1>1, ModBelow, ModMore
<1> QED BY <1>1, <1>2 DEF Add

LEMMA AddAround ==
  ASSUME NEW i \in Int, NEW k \in Int
  PROVE  Add(i, k + Wrap) = Add(i, k) /\ Add(i, k) \in Index
<1>1. PICK w \in Int : w = Wrap
  BY RingConstants
<1>2. Add(Add(i, k), w) = Add(i, k + w)
  BY AddAdd
<1>3. Add(i, k) \in Index
  BY AddIs
<1> QED BY <1>1, <1>2, <1>3, AddNone

LEMMA DiffOfAdd ==
  ASSUME NEW i \in Index, NEW n \in Index
  PROVE  Diff(Add(i, n), i) = n
<1>1. Wrap \in Nat \ {0} /\ i \in Int /\ n \in 0..(Wrap - 1)
  BY RingConstants DEF Index
<1>2. PICK a \in Int, b \in Int : a = i + n /\ b = Wrap - i
  BY <1>1
<1>3. ((a % Wrap) + b) % Wrap = (a + b) % Wrap
  BY <1>1, ModAdd
<1>4. a + b = n + Wrap /\ (n + Wrap) % Wrap = n % Wrap /\ n % Wrap = n
  <2>1. a + b = n + Wrap /\ n \in Int
    BY <1>1, <1>2
  <2> QED BY <1>1, <2>1, ModMore, ModBelow
<1>5. Add(i, n) \in Int /\ Add(i, n) + Wrap - i = (a % Wrap) + b
  BY <1>1, <1>2, AddIs DEF Add
<1> QED BY <1>3, <1>4, <1>5 DEF Diff

LEMMA AddOfDiff ==
  ASSUME NEW i \in Index, NEW j \in Index
  PROVE  Diff(j, i) \in Index /\ Add(i, Diff(j, i)) = j
<1>1. Wrap \in Nat \ {0} /\ i \in Int /\ j \in 0..(Wrap - 1) /\ j \in Int
  BY RingConstants DEF Index
<1>2. PICK a \in Int : a = j + Wrap - i
  BY <1>1
<1>3. a % Wrap \in Index /\ a % Wrap \in Int
  BY <1>1, Division DEF Index
<1>4. ((a % Wrap) + i) % Wrap = (a + i) % Wrap
  BY <1>1, ModAdd
<1>5. a + i = j + Wrap /\ (j + Wrap) % Wrap = j % Wrap /\ j % Wrap = j
  <2>1. a + i = j + Wrap
    BY <1>1, <1>2
  <2> QED BY <1>1, <2>1, ModMore, ModBelow
<1>6. Add(i, Diff(j, i)) = ((a % Wrap) + i) % Wrap
  <2>1. i + (a % Wrap) = (a % Wrap) + i
    BY <1>1, <1>3
  <2> QED BY <1>2, <2>1 DEF Add, Diff
<1> QED BY <1>2, <1>3, <1>4, <1>5, <1>6 DEF Diff

\* Where index i + k is in buf, also when it has wrapped.
LEMMA Place ==
  ASSUME NEW i \in Int, NEW k \in Int
  PROVE  Add(i, k) % INPUT_BUF = (i + k) % INPUT_BUF
<1>1. INPUT_BUF \in Nat \ {0} /\ Wrap \in Nat \ {0}
  BY RingConstants
<1>2. PICK a \in Int : a = i + k
  OBVIOUS
<1>3. PICK q \in Int, x \in Int, r \in Int :
        x = Wrap * q /\ a = x + r /\ r = a % Wrap /\ 0 <= r /\ r < Wrap
  BY <1>1, <1>2, Remainder, Zenon
<1>4. PICK s \in Int, y \in Int, t \in Int :
        /\ y = INPUT_BUF * s /\ r = y + t /\ t = r % INPUT_BUF
        /\ 0 <= t /\ t < INPUT_BUF
  BY <1>1, Remainder
<1>5. PICK m \in Int : Wrap = INPUT_BUF * m
  BY RingConstants
<1>6. Wrap * q = INPUT_BUF * (m * q) /\ m * q \in Int
  BY <1>1, <1>5
<1>7. PICK n \in Int : n = m * q + s
  BY <1>6
<1>8. INPUT_BUF * n = INPUT_BUF * (m * q) + INPUT_BUF * s
  BY <1>1, <1>6, <1>7
<1>9. PICK z \in Int : z = INPUT_BUF * n
  BY <1>1
<1>10. z = x + y
  BY <1>3, <1>4, <1>6, <1>8, <1>9
<1>11. a = z + t
  <2>1. a = x + r /\ a \in Int /\ x \in Int /\ r \in Int
    BY <1>2, <1>3, Zenon
  <2>2. r = y + t /\ y \in Int /\ t \in Int
    BY <1>4, Zenon
  <2>3. z = x + y /\ z \in Int
    BY <1>9, <1>10, Zenon
  <2> QED BY <2>1, <2>2, <2>3
<1>12. a % INPUT_BUF = t
  BY <1>1, <1>2, <1>4, <1>7, <1>9, <1>11, RemainderIs
<1> QED BY <1>2, <1>3, <1>4, <1>12 DEF Add

LEMMA PlacesApart ==
  ASSUME NEW i \in Int, NEW k \in Int, NEW n \in Int, k < n, n - k < INPUT_BUF
  PROVE  Add(i, k) % INPUT_BUF # Add(i, n) % INPUT_BUF
<1> SUFFICES ASSUME (i + k) % INPUT_BUF = (i + n) % INPUT_BUF
             PROVE  FALSE
  BY Place
<1>1. INPUT_BUF \in Nat \ {0}
  BY RingConstants
<1>2. PICK a \in Int, b \in Int : a = i + k /\ b = i + n
  OBVIOUS
<1>3. PICK q \in Int, x \in Int, t \in Int :
        x = INPUT_BUF * q /\ a = x + t /\ t = a % INPUT_BUF /\ 0 <= t /\ t < INPUT_BUF
  BY <1>1, <1>2, Remainder, Zenon
<1>4. PICK s \in Int, y \in Int, u \in Int :
        y = INPUT_BUF * s /\ b = y + u /\ u = b % INPUT_BUF /\ 0 <= u /\ u < INPUT_BUF
  BY <1>1, <1>2, Remainder, Zenon
<1>5. PICK d \in Int : d = s - q
  OBVIOUS
<1>6. INPUT_BUF * s = INPUT_BUF * q + INPUT_BUF * d
  <2>1. s = q + d
    BY <1>5
  <2> QED BY <1>1, <2>1
<1>7. PICK z \in Int : z = INPUT_BUF * d
  BY <1>1
<1>8. y = x + z /\ t = u
  BY <1>2, <1>3, <1>4, <1>6, <1>7
<1>9. z > 0 /\ z < INPUT_BUF
  <2>1. b - a = z
    <3>1. a = x + t /\ a \in Int /\ x \in Int /\ t \in Int
      BY <1>2, <1>3, Zenon
    <3>2. b = y + u /\ b \in Int /\ y \in Int
      BY <1>2, <1>4, Zenon
    <3>3. y = x + z /\ z \in Int /\ t = u
      BY <1>7, <1>8, Zenon
    <3> QED BY <3>1, <3>2, <3>3
  <2> QED BY <1>1, <1>2, <1>7, <2>1
<1>10. CASE d <= 0
  <2>1. PICK m \in Nat : m = - d
    BY <1>10
  <2>2. INPUT_BUF * m >= 0 /\ INPUT_BUF * d = - (INPUT_BUF * m)
    BY <1>1, <2>1
  <2> QED BY <1>1, <1>7, <1>9, <2>2
<1>11. CASE d >= 1
  <2>1. PICK m \in Nat : m = d - 1
    BY <1>11
  <2>2. INPUT_BUF * m >= 0 /\ INPUT_BUF * d = INPUT_BUF + INPUT_BUF * m
    BY <1>1, <2>1
  <2> QED BY <1>1, <1>7, <1>9, <2>2
<1> QED BY <1>10, <1>11

\* n characters of the ring from i on.
Line(buf, i, n) == [k \in 1..n |-> buf[Add(i, k - 1) % INPUT_BUF]]

LEMMA LineIs ==
  ASSUME NEW buf \in [0..(INPUT_BUF - 1) -> Letters], NEW i \in Int, NEW n \in Nat
  PROVE  /\ Line(buf, i, n) \in Seq(Letters) /\ Len(Line(buf, i, n)) = n
         /\ \A k \in 1..n : Line(buf, i, n)[k] = buf[Add(i, k - 1) % INPUT_BUF]
<1>1. \A k \in 1..n : buf[Add(i, k - 1) % INPUT_BUF] \in Letters
  <2> SUFFICES ASSUME NEW k \in 1..n
               PROVE  Add(i, k - 1) % INPUT_BUF \in 0..(INPUT_BUF - 1)
    OBVIOUS
  <2>1. PICK x \in Int : x = Add(i, k - 1)
    <3>1. k - 1 \in Int
      OBVIOUS
    <3> QED BY <3>1, AddIs
  <2> QED BY <2>1, RingConstants, Division
<1>2. Line(buf, i, n) \in [1..n -> Letters]
  BY <1>1 DEF Line
<1>3. Line(buf, i, n) \in Seq(Letters) /\ Len(Line(buf, i, n)) = n
  BY <1>2
<1> QED BY <1>3 DEF Line

\* Character c at index x.
Put(buf, x, c) == [buf EXCEPT ![x % INPUT_BUF] = c]

LEMMA LineKept ==
  ASSUME NEW buf \in [0..(INPUT_BUF - 1) -> Letters], NEW c \in Letters, NEW i \in Int,
         NEW n \in Nat, NEW m \in Nat, n <= m, m < INPUT_BUF
  PROVE  Line(Put(buf, Add(i, m), c), i, n) = Line(buf, i, n)
<1> DEFINE after == Put(buf, Add(i, m), c)
<1>1. ASSUME NEW k \in 1..n
      PROVE  after[Add(i, k - 1) % INPUT_BUF] = buf[Add(i, k - 1) % INPUT_BUF]
  <2>1. PICK h \in Int : h = k - 1
    OBVIOUS
  <2>2. h < m /\ m - h < INPUT_BUF
    <3>1. INPUT_BUF \in Nat /\ h >= 0 /\ h < n
      BY <2>1, RingConstants
    <3> QED BY <3>1
  <2>3. Add(i, h) % INPUT_BUF # Add(i, m) % INPUT_BUF
    BY <2>2, PlacesApart
  <2>4. Add(i, h) % INPUT_BUF \in 0..(INPUT_BUF - 1)
    <3>1. PICK g \in Int : g = Add(i, h)
      BY AddIs
    <3> QED BY <3>1, RingConstants, Division
  <2> QED BY <2>1, <2>3, <2>4 DEF Put
<1> QED BY <1>1 DEF Line

LEMMA LineConcat ==
  ASSUME NEW buf \in [0..(INPUT_BUF - 1) -> Letters], NEW i \in Int, NEW n \in Nat, NEW m \in Nat
  PROVE  Line(buf, i, n + m) = Line(buf, i, n) \o Line(buf, Add(i, n), m)
<1>1. PICK s, t, u : /\ s = Line(buf, i, n) /\ t = Line(buf, Add(i, n), m)
                     /\ u = Line(buf, i, n + m)
  OBVIOUS
<1>2. /\ s \in Seq(Letters) /\ Len(s) = n
      /\ \A k \in 1..n : s[k] = buf[Add(i, k - 1) % INPUT_BUF]
  BY <1>1, LineIs
<1>3. /\ t \in Seq(Letters) /\ Len(t) = m
      /\ \A k \in 1..m : t[k] = buf[Add(Add(i, n), k - 1) % INPUT_BUF]
  <2>1. PICK h \in Int : h = Add(i, n)
    BY AddIs
  <2> QED BY <1>1, <2>1, LineIs
<1>4. /\ u \in Seq(Letters) /\ Len(u) = n + m
      /\ \A k \in 1..(n + m) : u[k] = buf[Add(i, k - 1) % INPUT_BUF]
  <2>1. PICK l \in Nat : l = n + m
    OBVIOUS
  <2> QED BY <1>1, <2>1, LineIs
<1>5. PICK v : v = s \o t
  OBVIOUS
<1>6. /\ v \in Seq(Letters) /\ Len(v) = n + m
      /\ \A k \in 1..(n + m) : v[k] = IF k <= n THEN s[k] ELSE t[k - n]
  <2>1. /\ s \o t \in Seq(Letters) /\ Len(s \o t) = Len(s) + Len(t)
        /\ \A k \in 1..(Len(s) + Len(t)) :
             (s \o t)[k] = IF k <= Len(s) THEN s[k] ELSE t[k - Len(s)]
    BY <1>2, <1>3, ConcatProperties
  <2> QED BY <1>2, <1>3, <1>5, <2>1
<1>7. ASSUME NEW k \in 1..(n + m)
      PROVE  u[k] = v[k]
  <2>1. CASE k <= n
    BY <2>1, <1>2, <1>4, <1>6
  <2>2. CASE k > n
    <3>1. PICK h \in Int : h = k - n - 1
      OBVIOUS
    <3>2. k - n \in 1..m /\ h = (k - n) - 1 /\ n + h = k - 1
      BY <2>2, <3>1
    <3>3. Add(Add(i, n), h) = Add(i, n + h)
      BY AddAdd
    <3> QED BY <2>2, <3>2, <3>3, <1>3, <1>4, <1>6
  <2> QED BY <2>1, <2>2
<1>8. u = v
  BY <1>4, <1>6, <1>7, SeqEqual
<1> QED BY <1>1, <1>5, <1>8

LEMMA LineAppend ==
  ASSUME NEW buf \in [0..(INPUT_BUF - 1) -> Letters], NEW c \in Letters, NEW i \in Int,
         NEW n \in Nat, n < INPUT_BUF
  PROVE  Line(Put(buf, Add(i, n), c), i, n + 1) = Append(Line(buf, i, n), c)
<1>0. PICK after : after = Put(buf, Add(i, n), c)
  OBVIOUS
<1>1. PICK s, u : s = Line(buf, i, n) /\ u = Line(after, i, n + 1)
  OBVIOUS
<1>2. after \in [0..(INPUT_BUF - 1) -> Letters] /\ after[Add(i, n) % INPUT_BUF] = c
  <2>1. Add(i, n) % INPUT_BUF \in 0..(INPUT_BUF - 1)
    <3>1. PICK h \in Int : h = Add(i, n)
      BY AddIs
    <3> QED BY <3>1, RingConstants, Division
  <2> QED BY <1>0, <2>1 DEF Put
<1>3. /\ s \in Seq(Letters) /\ Len(s) = n
  BY <1>1, LineIs
<1>4. s = Line(after, i, n)
  <2>1. n <= n
    OBVIOUS
  <2>2. Line(after, i, n) = Line(buf, i, n)
    BY <1>0, <2>1, LineKept
  <2> QED BY <1>1, <2>2
<1>5. \A k \in 1..n : s[k] = after[Add(i, k - 1) % INPUT_BUF]
  <2>1. PICK g \in [0..(INPUT_BUF - 1) -> Letters] : g = after
    BY <1>2
  <2>2. \A k \in 1..n : Line(g, i, n)[k] = g[Add(i, k - 1) % INPUT_BUF]
    BY <2>1, LineIs
  <2> QED BY <1>4, <2>1, <2>2
<1>6. /\ u \in Seq(Letters) /\ Len(u) = n + 1
      /\ \A k \in 1..(n + 1) : u[k] = after[Add(i, k - 1) % INPUT_BUF]
  <2>1. PICK l \in Nat : l = n + 1
    OBVIOUS
  <2>2. PICK g \in [0..(INPUT_BUF - 1) -> Letters] : g = after
    BY <1>2
  <2>3. /\ Line(g, i, l) \in Seq(Letters) /\ Len(Line(g, i, l)) = l
        /\ \A k \in 1..l : Line(g, i, l)[k] = g[Add(i, k - 1) % INPUT_BUF]
    <3>1. g \in [0..(INPUT_BUF - 1) -> Letters] /\ l \in Nat
      BY <2>1, <2>2, Zenon
    <3> QED BY <3>1, LineIs, Zenon
  <2> QED BY <1>1, <2>1, <2>2, <2>3
<1>7. PICK v : v = Append(s, c)
  OBVIOUS
<1>8. /\ v \in Seq(Letters) /\ Len(v) = n + 1
      /\ \A k \in 1..n : v[k] = s[k]
      /\ v[n + 1] = c
  BY <1>3, <1>7
<1>9. ASSUME NEW k \in 1..(n + 1)
      PROVE  u[k] = v[k]
  <2>1. CASE k \in 1..n
    BY <2>1, <1>5, <1>6, <1>8
  <2>2. CASE k = n + 1
    <3>1. k - 1 = n
      BY <2>2
    <3> QED BY <2>2, <3>1, <1>2, <1>6, <1>8
  <2> QED BY <2>1, <2>2
<1>10. u = v
  BY <1>6, <1>8, <1>9, SeqEqual
<1> QED BY <1>0, <1>1, <1>7, <1>10

\* The first m of a line, and the rest.
LEMMA LineCut ==
  ASSUME NEW buf \in [0..(INPUT_BUF - 1) -> Letters], NEW i \in Int, NEW n \in Nat,
         NEW m \in 0..n
  PROVE  /\ SubSeq(Line(buf, i, n), 1, m) = Line(buf, i, m)
         /\ SubSeq(Line(buf, i, n), m + 1, n) = Line(buf, Add(i, m), n - m)
<1>1. PICK s, t, u : /\ s = Line(buf, i, n) /\ t = Line(buf, i, m)
                     /\ u = Line(buf, Add(i, m), n - m)
  OBVIOUS
<1>2. /\ s \in Seq(Letters) /\ Len(s) = n
      /\ \A k \in 1..n : s[k] = buf[Add(i, k - 1) % INPUT_BUF] /\ s[k] \in Letters
  <2>1. /\ s \in Seq(Letters) /\ Len(s) = n
        /\ \A k \in 1..n : s[k] = buf[Add(i, k - 1) % INPUT_BUF]
    BY <1>1, LineIs
  <2>2. \A k \in 1..n : s[k] \in Letters
    BY <2>1, ElementOfSeq
  <2> QED BY <2>1, <2>2
<1>3. /\ t \in Seq(Letters) /\ Len(t) = m
      /\ \A k \in 1..m : t[k] = buf[Add(i, k - 1) % INPUT_BUF]
  <2>1. m \in Nat
    OBVIOUS
  <2> QED BY <1>1, <2>1, LineIs
<1>4. /\ u \in Seq(Letters) /\ Len(u) = n - m
      /\ \A k \in 1..(n - m) : u[k] = buf[Add(Add(i, m), k - 1) % INPUT_BUF]
  <2>1. PICK l \in Nat : l = n - m
    OBVIOUS
  <2>2. PICK h \in Int : h = Add(i, m)
    BY AddIs
  <2> QED BY <1>1, <2>1, <2>2, LineIs
<1>5. PICK v, x : v = SubSeq(s, 1, m) /\ x = SubSeq(s, m + 1, n)
  OBVIOUS
<1>6. /\ v \in Seq(Letters) /\ Len(v) = m
      /\ \A k \in 1..m : v[k] = s[k]
  <2>1. \A k \in 1..m : s[k] \in Letters
    BY <1>2
  <2>2. m \in Int /\ m - 1 + 1 = m
    OBVIOUS
  <2>3. /\ v \in Seq(Letters) /\ Len(v) = IF 1 <= m THEN m - 1 + 1 ELSE 0
        /\ \A k \in 1..(m - 1 + 1) : v[k] = s[1 + k - 1]
    BY <1>5, <2>1, <2>2, SubSeqProperties
  <2>4. \A k \in 1..m : 1 + k - 1 = k
    OBVIOUS
  <2> QED BY <2>2, <2>3, <2>4
<1>7. /\ x \in Seq(Letters) /\ Len(x) = n - m
      /\ \A k \in 1..(n - m) : x[k] = s[m + k]
  <2>1. PICK h \in Int : h = m + 1
    OBVIOUS
  <2>2. \A k \in h..n : s[k] \in Letters
    BY <1>2, <2>1
  <2>3. /\ x \in Seq(Letters) /\ Len(x) = IF h <= n THEN n - h + 1 ELSE 0
        /\ \A k \in 1..(n - h + 1) : x[k] = s[h + k - 1]
    BY <1>5, <2>1, <2>2, SubSeqProperties
  <2>4. n - h + 1 = n - m /\ \A k \in 1..(n - m) : h + k - 1 = m + k
    BY <2>1
  <2> QED BY <2>1, <2>3, <2>4
<1>8. t = v
  BY <1>2, <1>3, <1>6, SeqEqual
<1>9. ASSUME NEW k \in 1..(n - m)
      PROVE  u[k] = x[k]
  <2>1. PICK h \in Int : h = k - 1
    OBVIOUS
  <2>2. m + k \in 1..n /\ m + h = (m + k) - 1
    BY <2>1
  <2>3. Add(Add(i, m), h) = Add(i, m + h)
    BY AddAdd
  <2> QED BY <2>1, <2>2, <2>3, <1>2, <1>4, <1>7
<1>10. u = x
  BY <1>4, <1>7, <1>9, SeqEqual
<1> QED BY <1>1, <1>5, <1>8, <1>10

-----------------------------------------------------------------------------
(* Console: its steps.                                                     *)

\* There are a characters to read, and b in the line that is typed.
Has(i, a, b) ==
  /\ a + b <= INPUT_BUF /\ i.w = Add(i.r, a) /\ i.e = Add(i.w, b)
  /\ \A k \in 0..(b - 1) : i.buf[Add(i.w, k) % INPUT_BUF] \notin EndsLine

ConsoleInv == input \in Ring /\ \E a, b \in Nat : Has(input, a, b)

ReadyIn(i) == Line(i.buf, i.r, Diff(i.w, i.r))
EditIn(i)  == Line(i.buf, i.w, Diff(i.e, i.w))

LEMMA RingIs ==
  ASSUME NEW i \in Ring
  PROVE  /\ i.buf \in [0..(INPUT_BUF - 1) -> Letters]
         /\ i.r \in Index /\ i.w \in Index /\ i.e \in Index
         /\ i.r \in Int /\ i.w \in Int /\ i.e \in Int
BY DEF Ring, Index

LEMMA HasIs ==
  ASSUME NEW i \in Ring, NEW a \in Nat, NEW b \in Nat, Has(i, a, b)
  PROVE  /\ Diff(i.w, i.r) = a /\ Diff(i.e, i.w) = b /\ Diff(i.e, i.r) = a + b
         /\ i.e = Add(i.r, a + b)
         /\ ReadyIn(i) = Line(i.buf, i.r, a) /\ EditIn(i) = Line(i.buf, i.w, b)
<1>1. a \in Index /\ b \in Index /\ a + b \in Index
  BY RingConstants DEF Has, Index
<1>2. PICK r \in Int, w \in Int : r = i.r /\ w = i.w /\ r \in Index /\ w \in Index
  BY RingIs
<1>3. w = Add(r, a) /\ i.e = Add(w, b) /\ i.e = Add(r, a + b)
  <2>1. PICK m \in Int, n \in Int : m = a /\ n = b
    OBVIOUS
  <2>2. Add(Add(r, m), n) = Add(r, m + n)
    <3>1. r \in Int /\ m \in Int /\ n \in Int
      BY <1>2, <2>1, Zenon
    <3> QED BY <3>1, AddAdd
  <2> QED BY <1>2, <2>1, <2>2 DEF Has
<1>4. Diff(i.w, i.r) = a /\ Diff(i.e, i.w) = b /\ Diff(i.e, i.r) = a + b
  <2>1. Diff(Add(r, a), r) = a
    BY <1>1, <1>2, DiffOfAdd, Zenon
  <2>2. Diff(Add(w, b), w) = b
    BY <1>1, <1>2, DiffOfAdd, Zenon
  <2>3. Diff(Add(r, a + b), r) = a + b
    BY <1>1, <1>2, DiffOfAdd, Zenon
  <2> QED BY <1>2, <1>3, <2>1, <2>2, <2>3
<1> QED BY <1>2, <1>3, <1>4 DEF ReadyIn, EditIn

LEMMA SeenIs ==
  /\ Between(input.r, input.w) = ReadyIn(input) /\ Between(input.w, input.e) = EditIn(input)
  /\ Between(input.r, input.w)' = ReadyIn(input') /\ Between(input.w, input.e)' = EditIn(input')
BY DEF Between, ReadyIn, EditIn, Line, At

LEMMA TypedRight ==
  ASSUME ConsoleInv, NEW c \in Printable \cup EndsLine, Typed(c)
  PROVE  ConsoleInv' /\ L!Enter(c)
<1>1. PICK i \in Ring : i = input
  BY DEF ConsoleInv
<1>2. PICK a \in Nat, b \in Nat : Has(i, a, b)
  BY <1>1 DEF ConsoleInv
<1>3. /\ Diff(i.w, i.r) = a /\ Diff(i.e, i.w) = b /\ Diff(i.e, i.r) = a + b
      /\ i.e = Add(i.r, a + b) /\ i.e = Add(i.w, b) /\ i.w = Add(i.r, a)
      /\ ReadyIn(i) = Line(i.buf, i.r, a) /\ EditIn(i) = Line(i.buf, i.w, b)
  BY <1>2, HasIs DEF Has
<1>4. /\ i.buf \in [0..(INPUT_BUF - 1) -> Letters]
      /\ i.r \in Index /\ i.w \in Index /\ i.e \in Index
      /\ i.r \in Int /\ i.w \in Int /\ i.e \in Int
  BY RingIs
<1>5. a + b < INPUT_BUF /\ INPUT_BUF \in Nat \ {0} /\ Wrap \in Nat /\ INPUT_BUF < Wrap
  BY <1>1, <1>2, <1>3, RingConstants DEF Typed, Full1
<1>6. PICK n \in Nat : n = a + b
  BY <1>2
<1>7. c \in Letters
  BY DEF Letters
<1>8. PICK buf : buf = [i.buf EXCEPT ![i.e % INPUT_BUF] = c] /\ buf = Put(i.buf, i.e, c)
  BY DEF Put
<1>9. i.e % INPUT_BUF \in 0..(INPUT_BUF - 1) /\ buf \in [0..(INPUT_BUF - 1) -> Letters]
  <2>1. i.e % INPUT_BUF \in 0..(INPUT_BUF - 1)
    BY <1>4, <1>5, Division
  <2> QED BY <1>4, <1>7, <1>8, <2>1
<1>10. PICK end \in Index : end = Add(i.e, 1) /\ end = Add(i.w, b + 1) /\ end = Add(i.r, n + 1)
  <2>1. PICK one \in Int : one = 1
    OBVIOUS
  <2>2. PICK r \in Int, w \in Int, e \in Int : r = i.r /\ w = i.w /\ e = i.e
    BY <1>4, Zenon
  <2>3. PICK l \in Int, m \in Int : l = n /\ m = b
    BY <1>2, <1>6
  <2>4. Add(e, one) \in Index
    BY AddIs
  <2>5. Add(Add(w, m), one) = Add(w, m + one) /\ Add(Add(r, l), one) = Add(r, l + one)
    BY AddAdd
  <2> QED BY <1>3, <1>6, <2>1, <2>2, <2>3, <2>4, <2>5
<1>11. end = Add(i.r, INPUT_BUF) <=> n + 1 = INPUT_BUF
  <2>1. n + 1 \in Index /\ INPUT_BUF \in Index
    BY <1>5, <1>6 DEF Index
  <2>2. Diff(Add(i.r, n + 1), i.r) = n + 1 /\ Diff(Add(i.r, INPUT_BUF), i.r) = INPUT_BUF
    BY <1>4, <2>1, DiffOfAdd
  <2> QED BY <1>10, <2>2
<1>12. Line(buf, i.r, a) = Line(i.buf, i.r, a)
  <2>1. a <= n /\ n < INPUT_BUF /\ buf = Put(i.buf, Add(i.r, n), c)
    BY <1>2, <1>3, <1>5, <1>6, <1>8
  <2> QED BY <1>2, <1>4, <1>6, <1>7, <2>1, LineKept
<1>13. Line(buf, i.w, b) = Line(i.buf, i.w, b)
       /\ Line(buf, i.w, b + 1) = Append(Line(i.buf, i.w, b), c)
  <2>1. b <= b /\ b < INPUT_BUF /\ buf = Put(i.buf, Add(i.w, b), c)
    BY <1>2, <1>3, <1>5, <1>8
  <2>2. Line(buf, i.w, b) = Line(i.buf, i.w, b)
    BY <1>2, <1>4, <1>7, <2>1, LineKept
  <2>3. Line(buf, i.w, b + 1) = Append(Line(i.buf, i.w, b), c)
    BY <1>2, <1>4, <1>7, <2>1, LineAppend
  <2> QED BY <2>2, <2>3
<1>14. Len(Line(i.buf, i.r, a)) = a /\ Len(Line(i.buf, i.w, b)) = b
  BY <1>2, <1>4, LineIs
<1>15. CASE c \in EndsLine \/ n + 1 = INPUT_BUF
  <2>1. input' = [i EXCEPT !.buf = buf, !.e = end, !.w = end]
    <3>1. input' = [[i EXCEPT !.buf[i.e % INPUT_BUF] = c, !.e = end] EXCEPT !.w = end]
      BY <1>1, <1>10, <1>11, <1>15 DEF Typed
    <3> QED BY <1>8, <3>1 DEF Ring
  <2>2. PICK j : j = input'
    OBVIOUS
  <2>3. j \in Ring /\ j.buf = buf /\ j.r = i.r /\ j.w = end /\ j.e = end
    BY <1>9, <1>10, <2>1, <2>2 DEF Ring
  <2>4. n + 1 \in Nat /\ 0 \in Nat
    BY <1>6
  <2>5. Has(j, n + 1, 0)
    <3>1. Add(end, 0) = end
      BY <1>10, AddNone
    <3> QED BY <1>5, <1>6, <1>10, <2>3, <3>1 DEF Has
  <2>6. ReadyIn(j) = Line(buf, i.r, n + 1) /\ EditIn(j) = Line(buf, end, 0)
    BY <2>3, <2>4, <2>5, HasIs
  <2>7. Line(buf, end, 0) = << >>
    BY DEF Line
  <2>8. Line(buf, i.r, n + 1) = Line(buf, i.r, a) \o Line(buf, i.w, b + 1)
    <3>1. PICK m \in Nat : m = b + 1
      BY <1>2
    <3>2. Line(buf, i.r, a + m) = Line(buf, i.r, a) \o Line(buf, Add(i.r, a), m)
      <4>1. buf \in [0..(INPUT_BUF - 1) -> Letters] /\ i.r \in Int /\ a \in Nat /\ m \in Nat
        BY <1>2, <1>4, <1>9, <3>1, Zenon
      <4> QED BY <4>1, LineConcat
    <3>3. a + m = n + 1
      BY <1>2, <1>6, <3>1
    <3> QED BY <1>3, <3>1, <3>2, <3>3
  <2>9. ConsoleInv'
    BY <2>2, <2>3, <2>4, <2>5 DEF ConsoleInv
  <2>10. L!Enter(c)
    <3>1. PICK rd, ed : rd = Line(i.buf, i.r, a) /\ ed = Line(i.buf, i.w, b)
      OBVIOUS
    <3>2. Between(input.r, input.w) = rd /\ Between(input.w, input.e) = ed
      BY <1>1, <1>3, <3>1, SeenIs
    <3>3. Between(input.r, input.w)' = rd \o Append(ed, c) /\ Between(input.w, input.e)' = << >>
      BY <1>12, <1>13, <2>2, <2>6, <2>7, <2>8, <3>1, SeenIs
    <3>4. Len(rd) + Len(ed) < INPUT_BUF
          /\ (c \in L!Enders \/ Len(rd) + Len(ed) + 1 = INPUT_BUF)
      BY <1>5, <1>6, <1>14, <1>15, <3>1 DEF L!Enders, EndsLine
    <3> QED BY <3>2, <3>3, <3>4 DEF L!Enter
  <2> QED BY <2>9, <2>10
<1>16. CASE ~ (c \in EndsLine \/ n + 1 = INPUT_BUF)
  <2>1. input' = [i EXCEPT !.buf = buf, !.e = end]
    <3>1. input' = [i EXCEPT !.buf[i.e % INPUT_BUF] = c, !.e = end]
      BY <1>1, <1>10, <1>11, <1>16 DEF Typed
    <3> QED BY <1>8, <3>1 DEF Ring
  <2>2. PICK j : j = input'
    OBVIOUS
  <2>3. j \in Ring /\ j.buf = buf /\ j.r = i.r /\ j.w = i.w /\ j.e = end
    BY <1>9, <1>10, <2>1, <2>2 DEF Ring
  <2>4. PICK m \in Nat : m = b + 1
    BY <1>2
  <2>5. Has(j, a, m)
    <3>1. a + m <= INPUT_BUF
      BY <1>2, <1>5, <2>4
    <3>2. ASSUME NEW k \in 0..(m - 1)
          PROVE  buf[Add(i.w, k) % INPUT_BUF] \notin EndsLine
      <4>1. CASE k = b
        <5>1. buf[i.e % INPUT_BUF] = c
          BY <1>4, <1>8, <1>9
        <5> QED BY <1>3, <1>16, <4>1, <5>1
      <4>2. CASE k # b
        <5>1. k \in 0..(b - 1) /\ k + 1 \in 1..b /\ (k + 1) - 1 = k
          BY <1>2, <2>4, <4>2
        <5>2. Line(buf, i.w, b)[k + 1] = buf[Add(i.w, k) % INPUT_BUF]
          BY <5>1 DEF Line
        <5>3. Line(i.buf, i.w, b)[k + 1] = i.buf[Add(i.w, k) % INPUT_BUF]
          BY <5>1 DEF Line
        <5>4. i.buf[Add(i.w, k) % INPUT_BUF] \notin EndsLine
          BY <1>2, <5>1 DEF Has
        <5> QED BY <1>13, <5>2, <5>3, <5>4
      <4> QED BY <4>1, <4>2
    <3> QED BY <1>3, <1>10, <2>3, <2>4, <3>1, <3>2 DEF Has
  <2>6. ReadyIn(j) = Line(buf, i.r, a) /\ EditIn(j) = Line(buf, i.w, m)
    BY <1>2, <2>3, <2>4, <2>5, HasIs
  <2>7. ConsoleInv'
    BY <1>2, <2>2, <2>3, <2>4, <2>5 DEF ConsoleInv
  <2>8. L!Enter(c)
    <3>1. PICK rd, ed : rd = Line(i.buf, i.r, a) /\ ed = Line(i.buf, i.w, b)
      OBVIOUS
    <3>2. Between(input.r, input.w) = rd /\ Between(input.w, input.e) = ed
      BY <1>1, <1>3, <3>1, SeenIs
    <3>3. Between(input.r, input.w)' = rd /\ Between(input.w, input.e)' = Append(ed, c)
      BY <1>12, <1>13, <2>2, <2>4, <2>6, <3>1, SeenIs
    <3>4. Len(rd) + Len(ed) < INPUT_BUF
          /\ ~ (c \in L!Enders \/ Len(rd) + Len(ed) + 1 = INPUT_BUF)
      BY <1>5, <1>6, <1>14, <1>16, <3>1 DEF L!Enders, EndsLine
    <3> QED BY <3>2, <3>3, <3>4 DEF L!Enter
  <2> QED BY <2>7, <2>8
<1> QED BY <1>15, <1>16

\* e goes back by k.
LEMMA BackIs ==
  ASSUME ConsoleInv, NEW a \in Nat, NEW b \in Nat, Has(input, a, b), NEW k \in 0..b, Back1(k)
  PROVE  /\ ConsoleInv'
         /\ Between(input.r, input.w)' = Between(input.r, input.w)
         /\ Between(input.w, input.e)' = SubSeq(Between(input.w, input.e), 1, b - k)
<1>1. PICK i \in Ring : i = input
  BY DEF ConsoleInv
<1>2. Has(i, a, b) /\ i.w \in Int /\ i.e \in Int /\ i.buf \in [0..(INPUT_BUF - 1) -> Letters]
  BY <1>1, RingIs
<1>3. PICK n \in Nat : n = b - k
  OBVIOUS
<1>4. Add(i.e, Wrap - k) = Add(i.w, n) /\ Add(i.w, n) \in Index
  <2>1. PICK x \in Int : x = Wrap - k
    BY RingConstants
  <2>2. PICK w \in Int : w = i.w
    BY <1>2
  <2>3. b + x = n + Wrap /\ b \in Int /\ n \in Int
    BY <1>3, <2>1, RingConstants
  <2>4. Add(Add(w, b), x) = Add(w, b + x)
    BY <2>1, <2>2, <2>3, AddAdd
  <2>5. Add(w, n + Wrap) = Add(w, n) /\ Add(w, n) \in Index
    BY <2>2, <2>3, AddAround
  <2> QED BY <1>2, <2>1, <2>2, <2>3, <2>4, <2>5 DEF Has
<1>5. PICK j : j = input'
  OBVIOUS
<1>6. j \in Ring /\ j.buf = i.buf /\ j.r = i.r /\ j.w = i.w /\ j.e = Add(i.w, n)
  BY <1>1, <1>4, <1>5 DEF Back1, Ring
<1>7. Has(j, a, n)
  <2>1. n <= b /\ \A h \in 0..(n - 1) : h \in 0..(b - 1)
    BY <1>3
  <2>2. a + n <= INPUT_BUF
    <3>1. a + b <= INPUT_BUF /\ INPUT_BUF \in Nat
      BY <1>2, RingConstants DEF Has
    <3> QED BY <1>3, <2>1, <3>1
  <2> QED BY <1>2, <1>6, <2>1, <2>2 DEF Has
<1>8. ReadyIn(j) = Line(i.buf, i.r, a) /\ EditIn(j) = Line(i.buf, i.w, n)
  BY <1>3, <1>6, <1>7, HasIs
<1>9. ReadyIn(i) = Line(i.buf, i.r, a) /\ EditIn(i) = Line(i.buf, i.w, b)
  BY <1>2, HasIs
<1>10. SubSeq(Line(i.buf, i.w, b), 1, n) = Line(i.buf, i.w, n)
  <2>1. n \in 0..b
    BY <1>3
  <2> QED BY <1>2, <2>1, LineCut
<1>11. ConsoleInv'
  BY <1>3, <1>5, <1>6, <1>7 DEF ConsoleInv
<1> QED BY <1>1, <1>3, <1>5, <1>8, <1>9, <1>10, <1>11, SeenIs

LEMMA BackspaceRight ==
  ASSUME ConsoleInv, BackspaceKey
  PROVE  ConsoleInv' /\ L!Backspace
<1>1. PICK a \in Nat, b \in Nat : Has(input, a, b)
  BY DEF ConsoleInv
<1>2. input \in Ring /\ input.e # input.w /\ Back1(1)
  BY DEF ConsoleInv, BackspaceKey
<1>3. b # 0
  BY <1>1, <1>2, RingIs, AddNone DEF Has
<1>4. PICK k \in 0..b : k = 1
  BY <1>1, <1>3
<1>5. /\ ConsoleInv'
      /\ Between(input.r, input.w)' = Between(input.r, input.w)
      /\ Between(input.w, input.e)' = SubSeq(Between(input.w, input.e), 1, b - 1)
  BY <1>1, <1>2, <1>4, BackIs
<1>6. Len(Between(input.w, input.e)) = b
  <2>1. Between(input.w, input.e) = Line(input.buf, input.w, b)
    BY <1>1, <1>2, HasIs, SeenIs
  <2>2. input.buf \in [0..(INPUT_BUF - 1) -> Letters] /\ input.w \in Int
    BY <1>2, RingIs
  <2>3. Len(Line(input.buf, input.w, b)) = b
    BY <1>1, <2>2, LineIs, Zenon
  <2> QED BY <2>1, <2>3
<1>7. Between(input.w, input.e) # << >>
  <2>1. Len(<< >>) = 0
    OBVIOUS
  <2> QED BY <1>3, <1>6, <2>1
<1> QED BY <1>5, <1>6, <1>7 DEF L!Backspace

LEMMA KillLineRight ==
  ASSUME ConsoleInv, KillLineKey
  PROVE  ConsoleInv' /\ L!KillLine
<1>1. PICK a \in Nat, b \in Nat : Has(input, a, b)
  BY DEF ConsoleInv
<1>2. input \in Ring /\ input.e = Add(input.w, b) /\ input.w \in Int
  BY <1>1, RingIs DEF ConsoleInv, Has
<1>3. Diff(input.e, input.w) = b
  BY <1>1, <1>2, HasIs
<1>4. PICK k \in 0..b :
        /\ k = b \/ At(Add(input.e, Wrap - k - 1)) = "nl"
        /\ Back1(k)
  BY <1>3 DEF KillLineKey
<1>5. k = b
  <2> SUFFICES ASSUME k # b
               PROVE  FALSE
    OBVIOUS
  <2>1. PICK h \in 0..(b - 1) : h = b - k - 1
    BY <1>1, <1>4
  <2>2. Add(input.e, Wrap - k - 1) = Add(input.w, h)
    <3>1. PICK x \in Int : x = Wrap - k - 1
      BY <1>4, RingConstants
    <3>2. PICK w \in Int : w = input.w
      BY <1>2
    <3>3. b + x = h + Wrap /\ b \in Int /\ h \in Int
      BY <1>1, <1>4, <2>1, <3>1, RingConstants
    <3>4. Add(Add(w, b), x) = Add(w, b + x)
      BY <3>1, <3>2, <3>3, AddAdd
    <3>5. Add(w, h + Wrap) = Add(w, h)
      BY <3>2, <3>3, AddAround
    <3> QED BY <1>2, <3>1, <3>2, <3>3, <3>4, <3>5
  <2>3. input.buf[Add(input.w, h) % INPUT_BUF] \notin EndsLine
    BY <1>1, <2>1 DEF Has
  <2> QED BY <1>4, <2>2, <2>3 DEF At, EndsLine
<1>6. /\ ConsoleInv'
      /\ Between(input.r, input.w)' = Between(input.r, input.w)
      /\ Between(input.w, input.e)' = SubSeq(Between(input.w, input.e), 1, b - b)
  BY <1>1, <1>4, <1>5, BackIs
<1>7. SubSeq(Between(input.w, input.e), 1, b - b) = << >>
  <2>1. PICK z \in Int, one \in Int : z = b - b /\ one = 1
    OBVIOUS
  <2>2. z < one
    BY <2>1
  <2> QED BY <2>1, <2>2, SubSeqEmpty
<1> QED BY <1>6, <1>7 DEF L!KillLine

LEMMA LeastMember ==
  ASSUME NEW S \in SUBSET Nat, S # {}
  PROVE  \E x \in S : \A y \in S : x <= y
<1>1. IsWellFoundedOn(OpToRel(<, Nat), Nat)
  BY NatLessThanWellFounded
<1>2. PICK x \in S : \A y \in S : ~ (<<y, x>> \in OpToRel(<, Nat))
  BY <1>1, WFMin, Zenon
<1>3. \A y \in S : ~ (y < x)
  BY <1>2, Zenon DEF OpToRel
<1> QED BY <1>3

\* The loop ends, and no later than at w.
LEMMA TakenIs ==
  ASSUME NEW p, NEW a \in 1..INPUT_BUF, Add(input.r, a) = input.w
  PROVE  /\ Taken(p) \in 1..a
         /\ \A j \in 1..(Taken(p) - 1) : ~ Ends1(p, j)
<1>1. Ends1(p, a)
  BY DEF Ends1
<1>2. PICK S : S = {k \in 1..INPUT_BUF : Ends1(p, k)}
  OBVIOUS
<1>3. S \in SUBSET Nat /\ S # {} /\ INPUT_BUF \in Nat
  BY <1>1, <1>2, RingConstants
<1>4. PICK k \in S : \A y \in S : k <= y
  BY <1>3, LeastMember
<1>5. k \in 1..INPUT_BUF /\ Ends1(p, k) /\ \A j \in 1..(k - 1) : ~ Ends1(p, j)
  <2>1. ASSUME NEW j \in 1..(k - 1), Ends1(p, j)
        PROVE  FALSE
    <3>1. k \in 1..INPUT_BUF
      BY <1>2, <1>4
    <3>2. j \in 1..INPUT_BUF /\ j < k
      BY <1>3, <2>1, <3>1
    <3>3. j \in S
      BY <1>2, <2>1, <3>2
    <3> QED BY <1>3, <1>4, <3>2, <3>3
  <2> QED BY <1>2, <1>4, <2>1
<1>6. PICK t : t = Taken(p)
  OBVIOUS
<1>7. t \in 1..INPUT_BUF /\ Ends1(p, t) /\ \A j \in 1..(t - 1) : ~ Ends1(p, j)
  BY <1>5, <1>6, Zenon DEF Taken
<1>8. t <= a
  <2> SUFFICES ASSUME t > a
               PROVE  FALSE
    BY <1>3, <1>7
  <2>1. a \in 1..(t - 1)
    BY <1>3, <1>7
  <2> QED BY <1>1, <1>7, <2>1
<1> QED BY <1>3, <1>6, <1>7, <1>8

LEMMA TakeLineRight ==
  ASSUME ConsoleInv, NEW p \in Readers, TakeLine(p)
  PROVE  ConsoleInv' /\ [L!Next]_(L!vars)
<1>1. PICK i \in Ring : i = input
  BY DEF ConsoleInv
<1>2. PICK a \in Nat, b \in Nat : Has(i, a, b)
  BY <1>1 DEF ConsoleInv
<1>3. /\ i.buf \in [0..(INPUT_BUF - 1) -> Letters] /\ i.r \in Index /\ i.r \in Int
      /\ i.w = Add(i.r, a) /\ i.w # i.r /\ INPUT_BUF \in Nat /\ a + b <= INPUT_BUF
  BY <1>1, <1>2, RingIs, RingConstants DEF Has, TakeLine
<1>4. a \in 1..INPUT_BUF
  <2>1. a # 0
    BY <1>3, AddNone
  <2> QED BY <1>2, <1>3, <2>1
<1>5. PICK k \in 1..a : k = Taken(p) /\ \A j \in 1..(k - 1) : ~ Ends1(p, j)
  BY <1>1, <1>3, <1>4, TakenIs
<1>6. PICK m \in {k - 1, k} : input' = [i EXCEPT !.r = Add(i.r, m)]
  BY <1>1, <1>5 DEF TakeLine
<1>7. m \in 0..a /\ m \in Int /\ m - 1 <= k - 1
  BY <1>5, <1>6
<1>8. PICK j : j = input'
  OBVIOUS
<1>9. PICK n \in Nat : n = a - m
  BY <1>7
<1>10. Add(i.r, m) \in Index /\ Add(Add(i.r, m), n) = i.w
  <2>1. m + n = a /\ m \in Int /\ n \in Int
    BY <1>7, <1>9
  <2>2. PICK r \in Int : r = i.r
    BY <1>3
  <2>3. Add(r, m) \in Index /\ Add(Add(r, m), n) = Add(r, m + n)
    BY <2>1, <2>2, AddIs, AddAdd
  <2> QED BY <1>3, <2>1, <2>2, <2>3
<1>11. j \in Ring /\ j.buf = i.buf /\ j.r = Add(i.r, m) /\ j.w = i.w /\ j.e = i.e
  BY <1>6, <1>8, <1>10 DEF Ring
<1>12. Has(j, n, b)
  <2>1. n + b <= INPUT_BUF
    BY <1>2, <1>3, <1>7, <1>9
  <2> QED BY <1>2, <1>10, <1>11, <2>1 DEF Has
<1>13. ReadyIn(j) = Line(i.buf, Add(i.r, m), n) /\ EditIn(j) = Line(i.buf, i.w, b)
  BY <1>2, <1>9, <1>11, <1>12, HasIs
<1>14. ReadyIn(i) = Line(i.buf, i.r, a) /\ EditIn(i) = Line(i.buf, i.w, b)
  BY <1>2, HasIs
<1>15. ConsoleInv'
  BY <1>2, <1>8, <1>9, <1>11, <1>12 DEF ConsoleInv
<1>16. PICK rd : rd = Line(i.buf, i.r, a)
  OBVIOUS
<1>17. /\ Between(input.r, input.w) = rd
       /\ Between(input.w, input.e)' = Between(input.w, input.e)
  BY <1>1, <1>8, <1>13, <1>14, <1>16, SeenIs
<1>18. CASE m = 0
  <2>1. Add(i.r, m) = i.r /\ n = a
    BY <1>2, <1>3, <1>9, <1>18, AddNone
  <2>2. Between(input.r, input.w)' = rd
    BY <1>8, <1>13, <1>16, <2>1, SeenIs
  <2> QED BY <1>15, <1>17, <2>2 DEF L!vars
<1>19. CASE m # 0
  <2>1. Len(rd) = a /\ DOMAIN rd = 1..a
        /\ \A h \in 1..a : rd[h] = i.buf[Add(i.r, h - 1) % INPUT_BUF]
    <3>1. Len(rd) = a /\ \A h \in 1..a : rd[h] = i.buf[Add(i.r, h - 1) % INPUT_BUF]
      BY <1>2, <1>3, <1>16, LineIs
    <3> QED BY <1>16, <3>1 DEF Line
  <2>2. m \in DOMAIN rd
    BY <1>7, <1>19, <2>1
  <2>3. ASSUME NEW h \in 1..(m - 1)
        PROVE  rd[h] \notin L!Enders
    <3>1. h \in 1..(k - 1) /\ h \in 1..a /\ h > 0
      BY <1>5, <1>7, <2>3
    <3>2. ~ Ends1(p, h)
      BY <1>5, <3>1
    <3>3. At(Add(i.r, h - 1)) \notin EndsLine
      BY <1>1, <3>1, <3>2 DEF Ends1
    <3> QED BY <1>1, <2>1, <3>1, <3>3 DEF At, EndsLine, L!Enders
  <2>4. Between(input.r, input.w)' = SubSeq(rd, m + 1, Len(rd))
    <3>1. SubSeq(rd, m + 1, a) = Line(i.buf, Add(i.r, m), a - m)
      BY <1>2, <1>3, <1>7, <1>16, LineCut
    <3> QED BY <1>8, <1>9, <1>13, <2>1, <3>1, SeenIs
  <2>5. L!Read
    BY <1>17, <2>2, <2>3, <2>4 DEF L!Read
  <2> QED BY <1>15, <2>5 DEF L!Next
<1> QED BY <1>18, <1>19

LEMMA SameInput ==
  ASSUME ConsoleInv, UNCHANGED input
  PROVE  ConsoleInv' /\ [L!Next]_(L!vars)
<1>1. ConsoleInv'
  BY DEF ConsoleInv
<1>2. /\ Between(input.r, input.w)' = Between(input.r, input.w)
      /\ Between(input.w, input.e)' = Between(input.w, input.e)
  BY SeenIs
<1> QED BY <1>1, <1>2 DEF L!vars

LEMMA StepConsole == ConsoleInv /\ [ConsoleNext]_consoleVars => ConsoleInv' /\ [L!Next]_(L!vars)
<1> SUFFICES ASSUME ConsoleInv, [ConsoleNext]_consoleVars
             PROVE  ConsoleInv' /\ [L!Next]_(L!vars)
  OBVIOUS
<1>1. ASSUME NEW c \in Printable \cup EndsLine, Typed(c)
      PROVE  ConsoleInv' /\ [L!Next]_(L!vars)
  <2>1. ConsoleInv' /\ L!Enter(c)
    BY <1>1, TypedRight
  <2>2. c \in Printable \cup L!Enders
    BY DEF EndsLine, L!Enders
  <2> QED BY <2>1, <2>2 DEF L!Next
<1>2. CASE BackspaceKey
  BY <1>2, BackspaceRight DEF L!Next
<1>3. CASE KillLineKey
  BY <1>3, KillLineRight DEF L!Next
<1>4. ASSUME NEW p \in Readers, StartRead(p) \/ NothingThere(p) \/ KillReader(p)
      PROVE  ConsoleInv' /\ [L!Next]_(L!vars)
  <2>1. UNCHANGED input
    BY <1>4 DEF StartRead, NothingThere, KillReader
  <2> QED BY <2>1, SameInput
<1>5. ASSUME NEW p \in Readers, TakeLine(p)
      PROVE  ConsoleInv' /\ [L!Next]_(L!vars)
  BY <1>5, TakeLineRight
<1>6. CASE UNCHANGED consoleVars
  BY <1>6, SameInput DEF consoleVars
<1> QED BY <1>1, <1>2, <1>3, <1>4, <1>5, <1>6 DEF ConsoleNext, Consoleintr, Consoleread

LEMMA InitConsole == ConsoleInit => ConsoleInv /\ L!Init
<1> SUFFICES ASSUME ConsoleInit
             PROVE  ConsoleInv /\ L!Init
  OBVIOUS
<1>1. PICK z : z = 0
  OBVIOUS
<1>2. z \in Index /\ z \in Nat /\ INPUT_BUF \in Nat
  BY <1>1, RingConstants DEF Index
<1>3. PICK i : i = [buf |-> [h \in 0..(INPUT_BUF - 1) |-> "nul"], r |-> z, w |-> z, e |-> z]
  OBVIOUS
<1>4. i = input /\ i \in Ring /\ i.r = z /\ i.w = z /\ i.e = z
  BY <1>1, <1>2, <1>3 DEF ConsoleInit, Ring, Letters
<1>5. Has(i, z, z)
  BY <1>1, <1>2, <1>4, AddNone DEF Has
<1>6. ReadyIn(i) = Line(i.buf, i.r, z) /\ EditIn(i) = Line(i.buf, i.w, z)
  BY <1>2, <1>4, <1>5, HasIs
<1>7. \A buf, x : Line(buf, x, z) = << >>
  BY <1>1 DEF Line
<1> QED BY <1>2, <1>4, <1>5, <1>6, <1>7, SeenIs DEF ConsoleInv, L!Init

\* Console implements LineDiscipline: whatever is typed and edited, and however many read,
\* every character is read once, in order and not before its line is complete, and none is
\* edited after that.  The ring's indexes may have wrapped, each for itself (consoleintr,
\* consoleread).
THEOREM RingIsDisciplined == ConsoleSpec => Disciplined
<1>1. ConsoleInit => ConsoleInv /\ L!Init
  BY InitConsole
<1>2. ConsoleInv /\ [ConsoleNext]_consoleVars => ConsoleInv' /\ [L!Next]_(L!vars)
  BY StepConsole
<1> QED BY <1>1, <1>2, PTL DEF ConsoleSpec, Disciplined


-----------------------------------------------------------------------------
(* Boot.                                                                   *)

InAlloc  == {"kalloc", "kalloc2"}
InFree   == {"kfree", "kfree2"}
Before   == {"kinit1", "kvmalloc", "switchkvm", "mpinit", "devices"}
Starting == {"startothers", "startap", "wait"}
Alone    == Before \cup Starting \cup {"kinit2"}
Coming   == {"entryother", "mpenter", "lapicinit"}
Running  == {"scheduler", "user"}
Entering == {"mpmain", "started"}
Locked   == {"userinit", "runnable"} \cup Entering \cup Running

\* Where a processor is in main and after, also while it allocates or frees.
Phase(c) == IF cpu[c].at \in InAlloc \cup InFree THEN cpu[c].then ELSE cpu[c].at

Lists == Seq(Nat \ {NoPage})
CpuPlaces == InAlloc \cup InFree \cup Alone \cup Locked \cup {"off"} \cup Coming

CpuState ==
  [at : CpuPlaces, seen : Lists, then : CpuPlaces, page : Nat, stack : Nat,
   pgdir : {"entrypgdir", "kpgdir"}, timer : BOOLEAN, idt : BOOLEAN, started : BOOLEAN]

BootTypes ==
  /\ table \in Tables
  /\ mp \in [ncpu : Nat, ismp : BOOLEAN, next : Nat \ {0}]
  /\ kmem \in [freelist : Lists, lock : Int, use_lock : BOOLEAN]
  /\ code \in Nat /\ live \in BOOLEAN
  /\ cpu \in [Machine -> CpuState]

\* The boot processor, and the one it starts.
FirstRight ==
  /\ Phase(Boot1) \in Alone \cup Locked
  /\ cpu[Boot1].at \in InAlloc => cpu[Boot1].then \in {"switchkvm", "startap", "runnable", "user"}
  /\ cpu[Boot1].at \in InFree => cpu[Boot1].then \in {"kinit1", "kinit2", "scheduler"}
  /\ kmem.use_lock <=> Phase(Boot1) \in Locked
  /\ live => Phase(Boot1) \in Entering \cup Running

OthersRight ==
  \A c \in Machine \ {Boot1} :
    /\ Phase(c) \in {"off"} \cup Coming \cup Entering \cup Running
    /\ cpu[c].at \in InAlloc => cpu[c].then = "user"
    /\ cpu[c].at \in InFree => cpu[c].then = "scheduler"
    /\ cpu[c].at \in InAlloc \cup InFree \cup {"user"} => live
    /\ cpu[c].started <=> Phase(c) \in Running
    /\ Phase(c) \in Coming \cup Entering => cpu[Boot1].at = "wait" /\ c = mp.next - 1

\* Those that have been started, and those that have not.
StartRight ==
  /\ \A c \in Machine \ {Boot1} :
       /\ Phase(Boot1) \in Before => cpu[c].at = "off"
       /\ Phase(Boot1) \in Starting /\ c >= mp.next => cpu[c].at = "off"
       /\ Phase(Boot1) \in {"startothers", "startap"} /\ c = mp.next - 1 => cpu[c].at = "off"
       /\ mp.ismp /\ Phase(Boot1) \in Starting /\ c < mp.next - 1 => cpu[c].started
       /\ mp.ismp /\ Phase(Boot1) \in {"kinit2"} \cup Locked /\ c < mp.ncpu => cpu[c].started
  /\ Phase(Boot1) \in {"startap", "wait"} =>
       mp.ismp /\ mp.next <= mp.ncpu /\ mp.next - 1 # Boot1
  /\ cpu[Boot1].at = "wait" =>
       /\ code = cpu[Boot1].page
       /\ mp.next - 1 \in Machine /\ cpu[mp.next - 1].at # "off"
       /\ cpu[mp.next - 1].at = "mpenter" => cpu[mp.next - 1].stack # NoPage

TableRight ==
  /\ Phase(Boot1) \in {"kinit1", "kvmalloc", "switchkvm"} =>
       mp.ncpu = 0 /\ (mp.ismp <=> table.entries # << >>)
  /\ Phase(Boot1) \in {"kvmalloc", "switchkvm"} => mp.next = 1
  /\ cpu[Boot1].at = "mpinit" =>
       /\ mp.ncpu < mp.next /\ mp.next <= Len(table.entries) + 1
       /\ mp.ismp => table.entries # << >>
       /\ \A j \in 1..(mp.next - 1) : table.entries[j].type = "proc" => mp.ncpu >= 1
  /\ mp.ncpu <= Len(table.entries)
  /\ mp.ismp => \A k \in 0..(mp.ncpu - 1) : k \in Listed(table)
  /\ Phase(Boot1) \notin Before \ {"devices"} =>
       IF mp.ismp THEN mp.ncpu >= 1 ELSE mp.ncpu <= 1

FlagsRight ==
  /\ Phase(Boot1) \in Starting \cup {"kinit2"} \cup Locked => cpu[Boot1].timer
  /\ \A c \in Machine :
       /\ Phase(c) \in Entering \cup Running => cpu[c].timer
       /\ Phase(c) \in {"started"} \cup Running => cpu[c].idt

\* Nobody else changes the free list between a read of it and the write.
ReadRight ==
  \A c \in Machine :
    /\ cpu[c].at \in InFree => cpu[c].page # NoPage
    /\ cpu[c].at \in {"kalloc2", "kfree2"} =>
         cpu[c].seen = kmem.freelist /\ (kmem.use_lock => kmem.lock = c)

\* The page of c is its own, and not a page table's or what it has freed: also when it is
\* the stack of a processor that has not got there.
Holds(c) ==
  /\ cpu[c].page # NoPage
  /\ \/ cpu[c].at \in {"startap", "user"} \cup InFree
     \/ cpu[c].at = "wait" /\ cpu[mp.next - 1].at = "entryother"

\* Every page has one place.
PagesApart ==
  /\ IsInjective(kmem.freelist)
  /\ \A c \in Machine :
       /\ cpu[c].stack \notin ToSet(kmem.freelist)
       /\ Holds(c) => cpu[c].page \notin ToSet(kmem.freelist)
       /\ \A d \in Machine :
            /\ Holds(c) => cpu[c].page # cpu[d].stack
            /\ Holds(c) /\ Holds(d) /\ cpu[c].page = cpu[d].page => c = d
            /\ cpu[c].stack = cpu[d].stack /\ cpu[c].stack # NoPage => c = d

\* The pages that have been given to kfree.
Known(p) ==
  /\ Phase(Boot1) = "kinit1" => \E i \in DOMAIN LowPages : i < mp.next /\ p = LowPages[i]
  /\ Phase(Boot1) = "kinit2" =>
       p \in ToSet(LowPages) \/ \E i \in DOMAIN HighPages : i < mp.next /\ p = HighPages[i]
  /\ Phase(Boot1) \notin {"kinit1", "kinit2"} \cup Locked => p \in ToSet(LowPages)

PagesKnown ==
  /\ \A i \in DOMAIN kmem.freelist : Known(kmem.freelist[i])
  /\ \A c \in Machine :
       /\ Holds(c) => Known(cpu[c].page)
       /\ cpu[c].stack # NoPage => Known(cpu[c].stack)

\* There are pages left for the stacks.
PagesEnough ==
  LET left == Len(kmem.freelist)
      low  == Len(LowPages)
  IN  /\ cpu[Boot1].at = "kinit1" => left >= mp.next - 1
      /\ Phase(Boot1) = "kinit1" => left >= mp.next - 2 /\ mp.next <= low + 1
      /\ cpu[Boot1].at = "kvmalloc" => left >= low
      /\ cpu[Boot1].at \in InAlloc /\ cpu[Boot1].then = "switchkvm" => left >= low
      /\ cpu[Boot1].at \in {"switchkvm", "mpinit", "devices"} => left >= low - 1
      /\ cpu[Boot1].at = "startothers" => left >= low - mp.next
      /\ cpu[Boot1].at \in InAlloc /\ cpu[Boot1].then = "startap" => left >= low - mp.next
      /\ cpu[Boot1].at \in {"startap", "wait"} =>
           left >= low - mp.next - 1 /\ cpu[Boot1].page # NoPage

BootInv ==
  /\ BootTypes /\ FirstRight /\ OthersRight /\ StartRight /\ TableRight /\ FlagsRight
  /\ ReadRight /\ PagesApart /\ PagesKnown /\ PagesEnough

LEMMA TailIs ==
  ASSUME NEW s \in Lists, s # << >>, IsInjective(s)
  PROVE  /\ Tail(s) \in Lists /\ Len(Tail(s)) = Len(s) - 1 /\ IsInjective(Tail(s))
         /\ Head(s) \in ToSet(s) /\ Head(s) \in Nat \ {NoPage}
         /\ ToSet(Tail(s)) \subseteq ToSet(s) /\ Head(s) \notin ToSet(Tail(s))
<1>1. PICK t \in Seq(Nat \ {NoPage}), n \in Nat :
        /\ t = Tail(s) /\ n = Len(s) /\ n # 0 /\ Len(t) = n - 1
        /\ \A i \in 1..(n - 1) : t[i] = s[i + 1]
  <2>1. s \in Seq(Nat \ {NoPage}) /\ s # << >>
    BY DEF Lists
  <2>2. Tail(s) \in Seq(Nat \ {NoPage}) /\ Len(s) \in Nat /\ Len(s) # 0 /\ Len(Tail(s)) = Len(s) - 1
        /\ \A i \in 1..(Len(s) - 1) : Tail(s)[i] = s[i + 1]
    BY <2>1
  <2> QED BY <2>2
<1>2. s \in Seq(Nat \ {NoPage}) /\ DOMAIN s = 1..n /\ DOMAIN t = 1..(n - 1) /\ Head(s) = s[1]
  BY <1>1 DEF Lists
<1>3. \A i, j \in 1..n : s[i] = s[j] => i = j
  BY <1>2 DEF IsInjective
<1>4. IsInjective(t)
  <2> SUFFICES ASSUME NEW i \in 1..(n - 1), NEW j \in 1..(n - 1), t[i] = t[j]
               PROVE  i = j
    BY <1>2 DEF IsInjective
  <2>1. i + 1 \in 1..n /\ j + 1 \in 1..n /\ s[i + 1] = s[j + 1]
    BY <1>1
  <2> QED BY <1>3, <2>1
<1>5. s[1] \in ToSet(s) /\ s[1] \in Nat \ {NoPage}
  BY <1>1, <1>2 DEF ToSet
<1>6. ToSet(t) \subseteq ToSet(s) /\ s[1] \notin ToSet(t)
  BY <1>1, <1>2, <1>3 DEF ToSet
<1> QED BY <1>1, <1>2, <1>4, <1>5, <1>6 DEF Lists

LEMMA PushIs ==
  ASSUME NEW s \in Lists, NEW p \in Nat \ {NoPage}, p \notin ToSet(s), IsInjective(s)
  PROVE  /\ <<p>> \o s \in Lists /\ Len(<<p>> \o s) = Len(s) + 1 /\ IsInjective(<<p>> \o s)
         /\ ToSet(<<p>> \o s) = ToSet(s) \cup {p}
<1>1. PICK t, n : t = <<p>> \o s /\ n = Len(s)
  OBVIOUS
<1>2. /\ t \in Seq(Nat \ {NoPage}) /\ n \in Nat /\ Len(t) = n + 1
       /\ t[1] = p /\ \A i \in 2..(n + 1) : t[i] = s[i - 1]
  <2>1. s \in Seq(Nat \ {NoPage}) /\ <<p>> \in Seq(Nat \ {NoPage}) /\ Len(<<p>>) = 1 /\ <<p>>[1] = p
    BY DEF Lists
  <2>2. /\ t \in Seq(Nat \ {NoPage}) /\ Len(t) = Len(<<p>>) + Len(s)
        /\ \A i \in 1..(Len(<<p>>) + Len(s)) :
             t[i] = IF i <= Len(<<p>>) THEN <<p>>[i] ELSE s[i - Len(<<p>>)]
    BY <1>1, <2>1, ConcatProperties
  <2>3. n \in Nat
    BY <1>1, <2>1
  <2>4. Len(t) = n + 1 /\ \A i \in 1..(n + 1) : t[i] = IF i <= 1 THEN p ELSE s[i - 1]
    BY <1>1, <2>1, <2>2, <2>3
  <2>5. 1 \in 1..(n + 1) /\ \A i \in 2..(n + 1) : i \in 1..(n + 1) /\ ~ (i <= 1)
    BY <2>3
  <2> QED BY <2>2, <2>3, <2>4, <2>5
<1>3. s \in Seq(Nat \ {NoPage}) /\ DOMAIN s = 1..n /\ DOMAIN t = 1..(n + 1)
  BY <1>1, <1>2 DEF Lists
<1>4. \A i, j \in 1..n : s[i] = s[j] => i = j
  BY <1>3 DEF IsInjective
<1>5. \A i \in 1..n : s[i] # p
  BY <1>3 DEF ToSet
<1>6. IsInjective(t)
  <2> SUFFICES ASSUME NEW i \in 1..(n + 1), NEW j \in 1..(n + 1), t[i] = t[j]
               PROVE  i = j
    BY <1>3 DEF IsInjective
  <2>1. \A k \in 2..(n + 1) : k - 1 \in 1..n /\ t[k] = s[k - 1]
    BY <1>1, <1>2
  <2>2. (i = 1 \/ i \in 2..(n + 1)) /\ (j = 1 \/ j \in 2..(n + 1))
    BY <1>2
  <2>3. \A k \in 2..(n + 1) : t[k] # t[1]
    BY <1>2, <1>5, <2>1
  <2>4. CASE i \in 2..(n + 1) /\ j \in 2..(n + 1)
    <3>1. i - 1 \in 1..n /\ j - 1 \in 1..n /\ s[i - 1] = s[j - 1]
      BY <2>1, <2>4
    <3>2. i - 1 = j - 1
      BY <1>4, <3>1
    <3> QED BY <2>4, <3>2
  <2> QED BY <2>2, <2>3, <2>4
<1>7. ToSet(t) = ToSet(s) \cup {p}
  <2>1. ASSUME NEW i \in 1..(n + 1)
        PROVE  t[i] \in ToSet(s) \cup {p}
    <3>1. CASE i = 1
      BY <1>1, <1>2, <3>1
    <3>2. CASE i # 1
      <4>1. i \in 2..(n + 1) /\ i - 1 \in 1..n
        BY <1>1, <1>2, <3>2
      <4> QED BY <1>1, <1>2, <1>3, <4>1 DEF ToSet
    <3> QED BY <3>1, <3>2
  <2>2. ASSUME NEW i \in 1..n
        PROVE  s[i] \in ToSet(t)
    <3>1. i + 1 \in 2..(n + 1) /\ i + 1 \in 1..(n + 1) /\ (i + 1) - 1 = i
      BY <1>1, <1>2
    <3>2. t[i + 1] = s[i]
      BY <1>1, <1>2, <3>1
    <3> QED BY <1>3, <3>1, <3>2 DEF ToSet
  <2>3. p \in ToSet(t)
    BY <1>1, <1>2, <1>3 DEF ToSet
  <2> QED BY <1>3, <2>1, <2>2, <2>3 DEF ToSet
<1> QED BY <1>1, <1>2, <1>6, <1>7 DEF Lists

USE DEF InAlloc, InFree, Before, Starting, Alone, Coming, Running, Entering, Locked, Phase

LEMMA PlacesAre ==
  {"kinit1", "kvmalloc", "switchkvm", "mpinit", "devices", "startothers", "startap", "wait",
   "kinit2", "userinit", "runnable", "mpmain", "started", "scheduler", "user", "entryother",
   "mpenter", "lapicinit", "off", "kalloc", "kalloc2", "kfree", "kfree2"} \subseteq CpuPlaces
BY DEF CpuPlaces

LEMMA Still ==
  ASSUME BootInv, UNCHANGED table
  PROVE  /\ Machine' = Machine /\ Boot1' = Boot1 /\ Boot1 \in Machine /\ table \in Tables
         /\ cpu \in [Machine -> CpuState] /\ mp.next \in Nat
         /\ cpu[Boot1].at = "wait" => mp.next - 1 \in Machine
         /\ \A c \in Machine : cpu[c].at \in {"startap", "wait"} => c = Boot1
         /\ Machine \subseteq Nat
<1>1. table \in Tables /\ table.bsp \in CpuIds /\ Listed(table) \subseteq CpuIds
      /\ CpuIds \subseteq Nat
  BY BootAssumption DEF BootInv, BootTypes
<1> QED BY <1>1 DEF BootInv, BootTypes, OthersRight, StartRight, Machine, Boot1

LEMMA PagesStay ==
  ASSUME BootInv, Machine' = Machine, kmem'.freelist = kmem.freelist,
         \A c \in Machine : cpu'[c].page = cpu[c].page /\ cpu'[c].stack = cpu[c].stack,
         \A c \in Machine : Holds(c)' => Holds(c),
         \A p : Known(p) => Known(p)'
  PROVE  PagesApart' /\ PagesKnown'
<1>1. PagesApart'
  BY DEF BootInv, PagesApart
<1>2. PagesKnown'
  BY DEF BootInv, PagesKnown
<1> QED BY <1>1, <1>2

\* What a jump, a call of kalloc and one of kfree do to the processor.
LEMMA JumpIs ==
  ASSUME cpu \in [Machine -> CpuState], Machine' = Machine, NEW c \in Machine,
         NEW l \in CpuPlaces, Jump(c, l)
  PROVE  /\ cpu' \in [Machine -> CpuState] /\ \A d \in Machine : d # c => cpu'[d] = cpu[d]
         /\ cpu'[c].at = l /\ cpu'[c].then = cpu[c].then /\ cpu'[c].seen = cpu[c].seen
         /\ cpu'[c].page = cpu[c].page /\ cpu'[c].stack = cpu[c].stack
         /\ cpu'[c].timer = cpu[c].timer /\ cpu'[c].idt = cpu[c].idt
         /\ cpu'[c].started = cpu[c].started
<1>1. PICK r \in CpuState : r = cpu[c]
  OBVIOUS
<1>2. PICK q : q = [r EXCEPT !.at = l]
  OBVIOUS
<1>3. /\ q \in CpuState /\ q.at = l /\ q.then = r.then /\ q.page = r.page
      /\ q.seen = r.seen /\ q.stack = r.stack /\ q.timer = r.timer /\ q.idt = r.idt
      /\ q.started = r.started
  BY <1>1, <1>2, PlacesAre DEF CpuState
<1>4. cpu' = [cpu EXCEPT ![c] = q]
  BY <1>1, <1>2 DEF Jump
<1> QED BY <1>1, <1>3, <1>4

LEMMA AllocIs ==
  ASSUME cpu \in [Machine -> CpuState], Machine' = Machine, NEW c \in Machine,
         NEW l \in CpuPlaces, Alloc(c, l)
  PROVE  /\ cpu' \in [Machine -> CpuState] /\ \A d \in Machine : d # c => cpu'[d] = cpu[d]
         /\ cpu'[c].at = "kalloc" /\ cpu'[c].then = l /\ cpu'[c].seen = cpu[c].seen
         /\ cpu'[c].page = cpu[c].page /\ cpu'[c].stack = cpu[c].stack
         /\ cpu'[c].timer = cpu[c].timer /\ cpu'[c].idt = cpu[c].idt
         /\ cpu'[c].started = cpu[c].started
<1>1. PICK r \in CpuState : r = cpu[c]
  OBVIOUS
<1>2. PICK q : q = [r EXCEPT !.at = "kalloc", !.then = l]
  OBVIOUS
<1>3. /\ q \in CpuState /\ q.at = "kalloc" /\ q.then = l /\ q.page = r.page
      /\ q.seen = r.seen /\ q.stack = r.stack /\ q.timer = r.timer /\ q.idt = r.idt
      /\ q.started = r.started
  BY <1>1, <1>2, PlacesAre DEF CpuState
<1>4. cpu' = [cpu EXCEPT ![c] = q]
  BY <1>1, <1>2 DEF Alloc
<1> QED BY <1>1, <1>3, <1>4

LEMMA FreeIs ==
  ASSUME cpu \in [Machine -> CpuState], Machine' = Machine, NEW c \in Machine,
         NEW p \in Nat, NEW l \in CpuPlaces, Free(c, p, l)
  PROVE  /\ cpu' \in [Machine -> CpuState] /\ \A d \in Machine : d # c => cpu'[d] = cpu[d]
         /\ cpu'[c].at = "kfree" /\ cpu'[c].then = l /\ cpu'[c].seen = cpu[c].seen
         /\ cpu'[c].page = p /\ cpu'[c].stack = cpu[c].stack
         /\ cpu'[c].timer = cpu[c].timer /\ cpu'[c].idt = cpu[c].idt
         /\ cpu'[c].started = cpu[c].started
<1>1. PICK r \in CpuState : r = cpu[c]
  OBVIOUS
<1>2. PICK q : q = [r EXCEPT !.at = "kfree", !.page = p, !.then = l]
  OBVIOUS
<1>3. /\ q \in CpuState /\ q.at = "kfree" /\ q.then = l /\ q.page = p
      /\ q.seen = r.seen /\ q.stack = r.stack /\ q.timer = r.timer /\ q.idt = r.idt
      /\ q.started = r.started
  BY <1>1, <1>2, PlacesAre DEF CpuState
<1>4. cpu' = [cpu EXCEPT ![c] = q]
  BY <1>1, <1>2 DEF Free
<1> QED BY <1>1, <1>3, <1>4

\* main, on the boot processor.

LEMMA KvmallocRight ==
  ASSUME BootInv, NEW c \in Machine, c = Boot1, cpu[c].at = "kvmalloc", Alloc(c, "switchkvm"),
         UNCHANGED <<table, mp, kmem, code, live>>
  PROVE  BootInv'
<1>1. /\ Machine' = Machine /\ Boot1' = Boot1 /\ Boot1 \in Machine /\ c \in Machine
      /\ cpu \in [Machine -> CpuState] /\ mp.next \in Nat
      /\ cpu[Boot1].at = "wait" => mp.next - 1 \in Machine
      /\ \A d \in Machine : cpu[d].at \in {"startap", "wait"} => d = Boot1
      /\ Machine \subseteq Nat
  BY Still
<1>2. cpu[c].at = "kvmalloc"
  BY <1>1 DEF BootInv, BootTypes, FirstRight, OthersRight, After
<1>3. /\ cpu' \in [Machine -> CpuState] /\ \A d \in Machine : d # c => cpu'[d] = cpu[d]
      /\ cpu'[c].at = "kalloc" /\ cpu'[c].seen = cpu[c].seen /\ cpu'[c].then = "switchkvm"
      /\ cpu'[c].page = cpu[c].page /\ cpu'[c].stack = cpu[c].stack
      /\ cpu'[c].timer = cpu[c].timer /\ cpu'[c].idt = cpu[c].idt
      /\ cpu'[c].started = cpu[c].started
  <2>1. cpu \in [Machine -> CpuState] /\ c \in Machine /\ Machine' = Machine
    BY <1>1
  <2>2. PICK l \in CpuPlaces : l = "switchkvm"
    BY PlacesAre
  <2> QED BY <2>1, <2>2, AllocIs
<1>4. BootTypes' /\ FirstRight' /\ FlagsRight' /\ ReadRight'
  BY <1>1, <1>2, <1>3 DEF BootInv, BootTypes, FirstRight, OthersRight, FlagsRight, ReadRight
<1>5. OthersRight'
  BY <1>1, <1>2, <1>3 DEF BootInv, OthersRight
<1>6. TableRight'
  BY <1>1, <1>2, <1>3 DEF BootInv, TableRight, Listed
<1>7. PagesEnough'
  BY <1>1, <1>2, <1>3 DEF BootInv, PagesEnough
<1>8. StartRight'
  BY <1>1, <1>2, <1>3 DEF BootInv, StartRight, OthersRight, TableRight, Self
<1>9. PagesApart' /\ PagesKnown'
  <2>1. \A p : Known(p) => Known(p)'
    BY <1>1, <1>2, <1>3 DEF Known, ToSet
  <2>2. \A d \in Machine : Holds(d)' => Holds(d)
    BY <1>1, <1>2, <1>3 DEF Holds
  <2>3. \A d \in Machine : cpu'[d].page = cpu[d].page /\ cpu'[d].stack = cpu[d].stack
    BY <1>3
  <2> QED BY <1>1, <2>1, <2>2, <2>3, PagesStay
<1> QED BY <1>4, <1>5, <1>6, <1>7, <1>8, <1>9 DEF BootInv

LEMMA SwitchkvmRight ==
  ASSUME BootInv, NEW c \in Machine, c = Boot1, cpu[c].at = "switchkvm", Switchkvm,
         UNCHANGED <<table, mp, kmem, code, live>>
  PROVE  BootInv'
<1>1. /\ Machine' = Machine /\ Boot1' = Boot1 /\ Boot1 \in Machine /\ c \in Machine
      /\ cpu \in [Machine -> CpuState] /\ mp.next \in Nat
      /\ cpu[Boot1].at = "wait" => mp.next - 1 \in Machine
      /\ \A d \in Machine : cpu[d].at \in {"startap", "wait"} => d = Boot1
      /\ Machine \subseteq Nat
  BY Still
<1>2. cpu[c].at = "switchkvm"
  BY <1>1 DEF BootInv, BootTypes, FirstRight, OthersRight, After, Switchkvm
<1>3. /\ cpu' \in [Machine -> CpuState] /\ \A d \in Machine : d # c => cpu'[d] = cpu[d]
      /\ cpu'[c].at = "mpinit" /\ cpu'[c].seen = cpu[c].seen /\ cpu'[c].then = cpu[c].then
      /\ cpu'[c].page = cpu[c].page /\ cpu'[c].stack = cpu[c].stack
      /\ cpu'[c].timer = cpu[c].timer /\ cpu'[c].idt = cpu[c].idt
      /\ cpu'[c].started = cpu[c].started
  <2>1. cpu \in [Machine -> CpuState] /\ c \in Machine /\ Machine' = Machine
    BY <1>1
  <2> QED BY <2>1, PlacesAre DEF Switchkvm, CpuState
<1>4. BootTypes' /\ FirstRight' /\ FlagsRight' /\ ReadRight'
  BY <1>1, <1>2, <1>3 DEF BootInv, BootTypes, FirstRight, OthersRight, FlagsRight, ReadRight
<1>5. OthersRight'
  BY <1>1, <1>2, <1>3 DEF BootInv, OthersRight
<1>6. TableRight'
  BY <1>1, <1>2, <1>3 DEF BootInv, TableRight, Listed
<1>7. PagesEnough'
  BY <1>1, <1>2, <1>3 DEF BootInv, PagesEnough
<1>8. StartRight'
  BY <1>1, <1>2, <1>3 DEF BootInv, StartRight, OthersRight, TableRight, Self
<1>9. PagesApart' /\ PagesKnown'
  <2>1. \A p : Known(p) => Known(p)'
    BY <1>1, <1>2, <1>3 DEF Known, ToSet
  <2>2. \A d \in Machine : Holds(d)' => Holds(d)
    BY <1>1, <1>2, <1>3 DEF Holds
  <2>3. \A d \in Machine : cpu'[d].page = cpu[d].page /\ cpu'[d].stack = cpu[d].stack
    BY <1>3
  <2> QED BY <1>1, <2>1, <2>2, <2>3, PagesStay
<1> QED BY <1>4, <1>5, <1>6, <1>7, <1>8, <1>9 DEF BootInv

LEMMA InitDevicesRight ==
  ASSUME BootInv, NEW c \in Machine, c = Boot1, cpu[c].at = "devices", InitDevices,
         UNCHANGED <<table, kmem, code, live>>
  PROVE  BootInv'
<1>1. /\ Machine' = Machine /\ Boot1' = Boot1 /\ Boot1 \in Machine /\ c \in Machine
      /\ cpu \in [Machine -> CpuState] /\ mp.next \in Nat
      /\ cpu[Boot1].at = "wait" => mp.next - 1 \in Machine
      /\ \A d \in Machine : cpu[d].at \in {"startap", "wait"} => d = Boot1
      /\ Machine \subseteq Nat
  BY Still
<1>2. cpu[c].at = "devices" /\ mp'.next = 1 /\ mp'.ncpu = mp.ncpu /\ mp'.ismp = mp.ismp
      /\ mp' \in [ncpu : Nat, ismp : BOOLEAN, next : Nat \ {0}]
  BY <1>1 DEF BootInv, BootTypes, FirstRight, OthersRight, After, InitDevices
<1>3. /\ cpu' \in [Machine -> CpuState] /\ \A d \in Machine : d # c => cpu'[d] = cpu[d]
      /\ cpu'[c].at = "startothers" /\ cpu'[c].seen = cpu[c].seen /\ cpu'[c].then = cpu[c].then
      /\ cpu'[c].page = cpu[c].page /\ cpu'[c].stack = cpu[c].stack
      /\ cpu'[c].timer = TRUE /\ cpu'[c].idt = cpu[c].idt /\ cpu'[c].started = cpu[c].started
  <2>1. cpu \in [Machine -> CpuState] /\ c \in Machine /\ Machine' = Machine
    BY <1>1
  <2>2. PICK r \in CpuState : r = cpu[c]
    BY <2>1
  <2>3. PICK q : q = [r EXCEPT !.at = "startothers", !.timer = TRUE]
    OBVIOUS
  <2>4. /\ q \in CpuState /\ q.at = "startothers" /\ q.seen = r.seen /\ q.then = r.then
        /\ q.page = r.page /\ q.stack = r.stack /\ q.timer = TRUE /\ q.idt = r.idt
        /\ q.started = r.started
    BY <2>3, PlacesAre DEF CpuState
  <2>5. cpu' = [cpu EXCEPT ![c] = q]
    BY <2>2, <2>3 DEF InitDevices, After
  <2> QED BY <2>1, <2>2, <2>4, <2>5
<1>4. BootTypes' /\ FirstRight' /\ FlagsRight' /\ ReadRight'
  BY <1>1, <1>2, <1>3 DEF BootInv, BootTypes, FirstRight, OthersRight, FlagsRight, ReadRight
<1>5. OthersRight'
  BY <1>1, <1>2, <1>3 DEF BootInv, OthersRight
<1>6. TableRight'
  BY <1>1, <1>2, <1>3 DEF BootInv, TableRight, Listed
<1>7. PagesEnough'
  BY <1>1, <1>2, <1>3 DEF BootInv, PagesEnough
<1>8. StartRight'
  BY <1>1, <1>2, <1>3 DEF BootInv, StartRight, OthersRight, TableRight, Self
<1>9. PagesApart' /\ PagesKnown'
  <2>1. \A p : Known(p) => Known(p)'
    BY <1>1, <1>2, <1>3 DEF Known, ToSet
  <2>2. \A d \in Machine : Holds(d)' => Holds(d)
    BY <1>1, <1>2, <1>3 DEF Holds
  <2>3. \A d \in Machine : cpu'[d].page = cpu[d].page /\ cpu'[d].stack = cpu[d].stack
    BY <1>3
  <2> QED BY <1>1, <2>1, <2>2, <2>3, PagesStay
<1> QED BY <1>4, <1>5, <1>6, <1>7, <1>8, <1>9 DEF BootInv

LEMMA StartEndRight ==
  ASSUME BootInv, NEW c \in Machine, c = Boot1, cpu[c].at = "startothers",
         Jump(c, After.startothers),
         mp' = [mp EXCEPT !.next = 1], mp.next - 1 >= mp.ncpu, UNCHANGED <<table, kmem, code, live>>
  PROVE  BootInv'
<1>1. /\ Machine' = Machine /\ Boot1' = Boot1 /\ Boot1 \in Machine /\ c \in Machine
      /\ cpu \in [Machine -> CpuState] /\ mp.next \in Nat
      /\ cpu[Boot1].at = "wait" => mp.next - 1 \in Machine
      /\ \A d \in Machine : cpu[d].at \in {"startap", "wait"} => d = Boot1
      /\ Machine \subseteq Nat
  BY Still
<1>2. cpu[c].at = "startothers" /\ mp'.next = 1 /\ mp'.ncpu = mp.ncpu /\ mp'.ismp = mp.ismp
      /\ mp' \in [ncpu : Nat, ismp : BOOLEAN, next : Nat \ {0}]
  BY <1>1 DEF BootInv, BootTypes, FirstRight, OthersRight, After, Jump
<1>3. /\ cpu' \in [Machine -> CpuState] /\ \A d \in Machine : d # c => cpu'[d] = cpu[d]
      /\ cpu'[c].at = "kinit2" /\ cpu'[c].seen = cpu[c].seen /\ cpu'[c].then = cpu[c].then
      /\ cpu'[c].page = cpu[c].page /\ cpu'[c].stack = cpu[c].stack
      /\ cpu'[c].timer = cpu[c].timer /\ cpu'[c].idt = cpu[c].idt
      /\ cpu'[c].started = cpu[c].started
  <2>1. cpu \in [Machine -> CpuState] /\ c \in Machine /\ Machine' = Machine
    BY <1>1
  <2>2. PICK l \in CpuPlaces : l = After.startothers
    BY PlacesAre DEF After
  <2> QED BY <2>1, <2>2, JumpIs DEF After
<1>4. BootTypes' /\ FirstRight' /\ FlagsRight' /\ ReadRight'
  BY <1>1, <1>2, <1>3 DEF BootInv, BootTypes, FirstRight, OthersRight, FlagsRight, ReadRight
<1>5. OthersRight'
  BY <1>1, <1>2, <1>3 DEF BootInv, OthersRight
<1>6. TableRight'
  BY <1>1, <1>2, <1>3 DEF BootInv, TableRight, Listed
<1>7. PagesEnough'
  BY <1>1, <1>2, <1>3 DEF BootInv, PagesEnough
<1>8. StartRight'
  BY <1>1, <1>2, <1>3 DEF BootInv, StartRight, OthersRight, TableRight, Self
<1>9. PagesApart' /\ PagesKnown'
  <2>1. \A p : Known(p) => Known(p)'
    BY <1>1, <1>2, <1>3 DEF Known, ToSet
  <2>2. \A d \in Machine : Holds(d)' => Holds(d)
    BY <1>1, <1>2, <1>3 DEF Holds
  <2>3. \A d \in Machine : cpu'[d].page = cpu[d].page /\ cpu'[d].stack = cpu[d].stack
    BY <1>3
  <2> QED BY <1>1, <2>1, <2>2, <2>3, PagesStay
<1> QED BY <1>4, <1>5, <1>6, <1>7, <1>8, <1>9 DEF BootInv

LEMMA StartSkipRight ==
  ASSUME BootInv, NEW c \in Machine, c = Boot1, cpu[c].at = "startothers", UNCHANGED cpu,
         mp' = [mp EXCEPT !.next = @ + 1], mp.next - 1 < mp.ncpu, mp.next - 1 = Self,
         UNCHANGED <<table, kmem, code, live>>
  PROVE  BootInv'
<1>1. /\ Machine' = Machine /\ Boot1' = Boot1 /\ Boot1 \in Machine /\ c \in Machine
      /\ cpu \in [Machine -> CpuState] /\ mp.next \in Nat
      /\ cpu[Boot1].at = "wait" => mp.next - 1 \in Machine
      /\ \A d \in Machine : cpu[d].at \in {"startap", "wait"} => d = Boot1
      /\ Machine \subseteq Nat
  BY Still
<1>2. cpu[c].at = "startothers" /\ mp'.next = mp.next + 1 /\ mp'.ncpu = mp.ncpu
      /\ mp'.ismp = mp.ismp /\ mp' \in [ncpu : Nat, ismp : BOOLEAN, next : Nat \ {0}]
  BY <1>1 DEF BootInv, BootTypes, FirstRight, OthersRight, After, Self
<1>3. /\ cpu' \in [Machine -> CpuState] /\ \A d \in Machine : d # c => cpu'[d] = cpu[d]
      /\ cpu'[c].at = cpu[c].at /\ cpu'[c].seen = cpu[c].seen /\ cpu'[c].then = cpu[c].then
      /\ cpu'[c].page = cpu[c].page /\ cpu'[c].stack = cpu[c].stack
      /\ cpu'[c].timer = cpu[c].timer /\ cpu'[c].idt = cpu[c].idt
      /\ cpu'[c].started = cpu[c].started
  <2>1. cpu \in [Machine -> CpuState] /\ c \in Machine /\ Machine' = Machine
    BY <1>1
  <2> QED BY <2>1, PlacesAre DEF Self, CpuState
<1>4. BootTypes' /\ FirstRight' /\ FlagsRight' /\ ReadRight'
  BY <1>1, <1>2, <1>3 DEF BootInv, BootTypes, FirstRight, OthersRight, FlagsRight, ReadRight
<1>5. OthersRight'
  BY <1>1, <1>2, <1>3 DEF BootInv, OthersRight
<1>6. TableRight'
  BY <1>1, <1>2, <1>3 DEF BootInv, TableRight, Listed
<1>7. PagesEnough'
  BY <1>1, <1>2, <1>3 DEF BootInv, PagesEnough
<1>8. StartRight'
  BY <1>1, <1>2, <1>3 DEF BootInv, StartRight, OthersRight, TableRight, Self
<1>9. PagesApart' /\ PagesKnown'
  <2>1. \A p : Known(p) => Known(p)'
    BY <1>1, <1>2, <1>3 DEF Known, ToSet
  <2>2. \A d \in Machine : Holds(d)' => Holds(d)
    BY <1>1, <1>2, <1>3 DEF Holds
  <2>3. \A d \in Machine : cpu'[d].page = cpu[d].page /\ cpu'[d].stack = cpu[d].stack
    BY <1>3
  <2> QED BY <1>1, <2>1, <2>2, <2>3, PagesStay
<1> QED BY <1>4, <1>5, <1>6, <1>7, <1>8, <1>9 DEF BootInv

LEMMA StartAllocRight ==
  ASSUME BootInv, NEW c \in Machine, c = Boot1, cpu[c].at = "startothers", Alloc(c, "startap"),
         mp.next - 1 < mp.ncpu, mp.next - 1 # Self, UNCHANGED <<table, mp, kmem, code, live>>
  PROVE  BootInv'
<1>1. /\ Machine' = Machine /\ Boot1' = Boot1 /\ Boot1 \in Machine /\ c \in Machine
      /\ cpu \in [Machine -> CpuState] /\ mp.next \in Nat
      /\ cpu[Boot1].at = "wait" => mp.next - 1 \in Machine
      /\ \A d \in Machine : cpu[d].at \in {"startap", "wait"} => d = Boot1
      /\ Machine \subseteq Nat
  BY Still
<1>2. cpu[c].at = "startothers"
  BY <1>1 DEF BootInv, BootTypes, FirstRight, OthersRight, After
<1>3. /\ cpu' \in [Machine -> CpuState] /\ \A d \in Machine : d # c => cpu'[d] = cpu[d]
      /\ cpu'[c].at = "kalloc" /\ cpu'[c].seen = cpu[c].seen /\ cpu'[c].then = "startap"
      /\ cpu'[c].page = cpu[c].page /\ cpu'[c].stack = cpu[c].stack
      /\ cpu'[c].timer = cpu[c].timer /\ cpu'[c].idt = cpu[c].idt
      /\ cpu'[c].started = cpu[c].started
  <2>1. cpu \in [Machine -> CpuState] /\ c \in Machine /\ Machine' = Machine
    BY <1>1
  <2>2. PICK l \in CpuPlaces : l = "startap"
    BY PlacesAre
  <2> QED BY <2>1, <2>2, AllocIs
<1>4. BootTypes' /\ FirstRight' /\ FlagsRight' /\ ReadRight'
  BY <1>1, <1>2, <1>3 DEF BootInv, BootTypes, FirstRight, OthersRight, FlagsRight, ReadRight
<1>5. OthersRight'
  BY <1>1, <1>2, <1>3 DEF BootInv, OthersRight
<1>6. TableRight'
  BY <1>1, <1>2, <1>3 DEF BootInv, TableRight, Listed
<1>7. PagesEnough'
  BY <1>1, <1>2, <1>3 DEF BootInv, PagesEnough
<1>8. StartRight'
  <2>1. mp'.ismp /\ mp'.next <= mp'.ncpu /\ mp'.next - 1 # Boot1
    BY <1>1, <1>2 DEF BootInv, BootTypes, TableRight, Self
  <2> QED BY <1>1, <1>2, <1>3, <2>1 DEF BootInv, StartRight
<1>9. PagesApart' /\ PagesKnown'
  <2>1. \A p : Known(p) => Known(p)'
    BY <1>1, <1>2, <1>3 DEF Known, ToSet
  <2>2. \A d \in Machine : Holds(d)' => Holds(d)
    BY <1>1, <1>2, <1>3 DEF Holds
  <2>3. \A d \in Machine : cpu'[d].page = cpu[d].page /\ cpu'[d].stack = cpu[d].stack
    BY <1>3
  <2> QED BY <1>1, <2>1, <2>2, <2>3, PagesStay
<1> QED BY <1>4, <1>5, <1>6, <1>7, <1>8, <1>9 DEF BootInv

LEMMA StartWaitRight ==
  ASSUME BootInv, NEW c \in Machine, c = Boot1, cpu[c].at = "wait", Jump(c, "startothers"),
         mp' = [mp EXCEPT !.next = @ + 1], cpu[mp.next - 1].started,
         UNCHANGED <<table, kmem, code, live>>
  PROVE  BootInv'
<1>1. /\ Machine' = Machine /\ Boot1' = Boot1 /\ Boot1 \in Machine /\ c \in Machine
      /\ cpu \in [Machine -> CpuState] /\ mp.next \in Nat
      /\ cpu[Boot1].at = "wait" => mp.next - 1 \in Machine
      /\ \A d \in Machine : cpu[d].at \in {"startap", "wait"} => d = Boot1
      /\ Machine \subseteq Nat
  BY Still
<1>2. cpu[c].at = "wait" /\ mp'.next = mp.next + 1 /\ mp'.ncpu = mp.ncpu /\ mp'.ismp = mp.ismp
      /\ mp' \in [ncpu : Nat, ismp : BOOLEAN, next : Nat \ {0}]
  BY <1>1 DEF BootInv, BootTypes, FirstRight, OthersRight, After
<1>3. /\ cpu' \in [Machine -> CpuState] /\ \A d \in Machine : d # c => cpu'[d] = cpu[d]
      /\ cpu'[c].at = "startothers" /\ cpu'[c].seen = cpu[c].seen /\ cpu'[c].then = cpu[c].then
      /\ cpu'[c].page = cpu[c].page /\ cpu'[c].stack = cpu[c].stack
      /\ cpu'[c].timer = cpu[c].timer /\ cpu'[c].idt = cpu[c].idt
      /\ cpu'[c].started = cpu[c].started
  <2>1. cpu \in [Machine -> CpuState] /\ c \in Machine /\ Machine' = Machine
    BY <1>1
  <2>2. PICK l \in CpuPlaces : l = "startothers"
    BY PlacesAre
  <2> QED BY <2>1, <2>2, JumpIs
<1>4. BootTypes' /\ FirstRight' /\ FlagsRight' /\ ReadRight'
  BY <1>1, <1>2, <1>3 DEF BootInv, BootTypes, FirstRight, OthersRight, FlagsRight, ReadRight
<1>5. OthersRight'
  BY <1>1, <1>2, <1>3 DEF BootInv, OthersRight
<1>6. TableRight'
  BY <1>1, <1>2, <1>3 DEF BootInv, TableRight, Listed
<1>7. PagesEnough'
  BY <1>1, <1>2, <1>3 DEF BootInv, PagesEnough
<1>8. StartRight'
  BY <1>1, <1>2, <1>3 DEF BootInv, StartRight, OthersRight, TableRight, Self
<1>9. PagesApart' /\ PagesKnown'
  <2>1. \A p : Known(p) => Known(p)'
    BY <1>1, <1>2, <1>3 DEF Known, ToSet
  <2>2. \A d \in Machine : Holds(d)' => Holds(d)
    BY <1>1, <1>2, <1>3 DEF Holds
  <2>3. \A d \in Machine : cpu'[d].page = cpu[d].page /\ cpu'[d].stack = cpu[d].stack
    BY <1>3
  <2> QED BY <1>1, <2>1, <2>2, <2>3, PagesStay
<1> QED BY <1>4, <1>5, <1>6, <1>7, <1>8, <1>9 DEF BootInv

LEMMA UserinitRight ==
  ASSUME BootInv, NEW c \in Machine, c = Boot1, cpu[c].at = "userinit", Alloc(c, "runnable"),
         UNCHANGED <<table, mp, kmem, code, live>>
  PROVE  BootInv'
<1>1. /\ Machine' = Machine /\ Boot1' = Boot1 /\ Boot1 \in Machine /\ c \in Machine
      /\ cpu \in [Machine -> CpuState] /\ mp.next \in Nat
      /\ cpu[Boot1].at = "wait" => mp.next - 1 \in Machine
      /\ \A d \in Machine : cpu[d].at \in {"startap", "wait"} => d = Boot1
      /\ Machine \subseteq Nat
  BY Still
<1>2. cpu[c].at = "userinit"
  BY <1>1 DEF BootInv, BootTypes, FirstRight, OthersRight, After
<1>3. /\ cpu' \in [Machine -> CpuState] /\ \A d \in Machine : d # c => cpu'[d] = cpu[d]
      /\ cpu'[c].at = "kalloc" /\ cpu'[c].seen = cpu[c].seen /\ cpu'[c].then = "runnable"
      /\ cpu'[c].page = cpu[c].page /\ cpu'[c].stack = cpu[c].stack
      /\ cpu'[c].timer = cpu[c].timer /\ cpu'[c].idt = cpu[c].idt
      /\ cpu'[c].started = cpu[c].started
  <2>1. cpu \in [Machine -> CpuState] /\ c \in Machine /\ Machine' = Machine
    BY <1>1
  <2>2. PICK l \in CpuPlaces : l = "runnable"
    BY PlacesAre
  <2> QED BY <2>1, <2>2, AllocIs
<1>4. BootTypes' /\ FirstRight' /\ FlagsRight' /\ ReadRight'
  BY <1>1, <1>2, <1>3 DEF BootInv, BootTypes, FirstRight, OthersRight, FlagsRight, ReadRight
<1>5. OthersRight'
  BY <1>1, <1>2, <1>3 DEF BootInv, OthersRight
<1>6. TableRight'
  BY <1>1, <1>2, <1>3 DEF BootInv, TableRight, Listed
<1>7. PagesEnough'
  BY <1>1, <1>2, <1>3 DEF BootInv, PagesEnough
<1>8. StartRight'
  BY <1>1, <1>2, <1>3 DEF BootInv, StartRight, OthersRight, TableRight, Self
<1>9. PagesApart' /\ PagesKnown'
  <2>1. \A p : Known(p) => Known(p)'
    BY <1>1, <1>2, <1>3 DEF Known, ToSet
  <2>2. \A d \in Machine : Holds(d)' => Holds(d)
    BY <1>1, <1>2, <1>3 DEF Holds
  <2>3. \A d \in Machine : cpu'[d].page = cpu[d].page /\ cpu'[d].stack = cpu[d].stack
    BY <1>3
  <2> QED BY <1>1, <2>1, <2>2, <2>3, PagesStay
<1> QED BY <1>4, <1>5, <1>6, <1>7, <1>8, <1>9 DEF BootInv

LEMMA RunnableRight ==
  ASSUME BootInv, NEW c \in Machine, c = Boot1, cpu[c].at = "runnable", Jump(c, "mpmain"),
         live', UNCHANGED <<table, mp, kmem, code>>
  PROVE  BootInv'
<1>1. /\ Machine' = Machine /\ Boot1' = Boot1 /\ Boot1 \in Machine /\ c \in Machine
      /\ cpu \in [Machine -> CpuState] /\ mp.next \in Nat
      /\ cpu[Boot1].at = "wait" => mp.next - 1 \in Machine
      /\ \A d \in Machine : cpu[d].at \in {"startap", "wait"} => d = Boot1
      /\ Machine \subseteq Nat
  BY Still
<1>2. cpu[c].at = "runnable" /\ live'
  BY <1>1 DEF BootInv, BootTypes, FirstRight, OthersRight, After
<1>3. /\ cpu' \in [Machine -> CpuState] /\ \A d \in Machine : d # c => cpu'[d] = cpu[d]
      /\ cpu'[c].at = "mpmain" /\ cpu'[c].seen = cpu[c].seen /\ cpu'[c].then = cpu[c].then
      /\ cpu'[c].page = cpu[c].page /\ cpu'[c].stack = cpu[c].stack
      /\ cpu'[c].timer = cpu[c].timer /\ cpu'[c].idt = cpu[c].idt
      /\ cpu'[c].started = cpu[c].started
  <2>1. cpu \in [Machine -> CpuState] /\ c \in Machine /\ Machine' = Machine
    BY <1>1
  <2>2. PICK l \in CpuPlaces : l = "mpmain"
    BY PlacesAre
  <2> QED BY <2>1, <2>2, JumpIs
<1>4. BootTypes' /\ FirstRight' /\ FlagsRight' /\ ReadRight'
  BY <1>1, <1>2, <1>3 DEF BootInv, BootTypes, FirstRight, OthersRight, FlagsRight, ReadRight
<1>5. OthersRight'
  BY <1>1, <1>2, <1>3 DEF BootInv, OthersRight
<1>6. TableRight'
  BY <1>1, <1>2, <1>3 DEF BootInv, TableRight, Listed
<1>7. PagesEnough'
  BY <1>1, <1>2, <1>3 DEF BootInv, PagesEnough
<1>8. StartRight'
  BY <1>1, <1>2, <1>3 DEF BootInv, StartRight, OthersRight, TableRight, Self
<1>9. PagesApart' /\ PagesKnown'
  <2>1. \A p : Known(p) => Known(p)'
    BY <1>1, <1>2, <1>3 DEF Known, ToSet
  <2>2. \A d \in Machine : Holds(d)' => Holds(d)
    BY <1>1, <1>2, <1>3 DEF Holds
  <2>3. \A d \in Machine : cpu'[d].page = cpu[d].page /\ cpu'[d].stack = cpu[d].stack
    BY <1>3
  <2> QED BY <1>1, <2>1, <2>2, <2>3, PagesStay
<1> QED BY <1>4, <1>5, <1>6, <1>7, <1>8, <1>9 DEF BootInv

LEMMA Kinit1EndRight ==
  ASSUME BootInv, NEW c \in Machine, c = Boot1, cpu[c].at = "kinit1", Jump(c, "kvmalloc"),
         mp' = [mp EXCEPT !.next = 1], kmem' = [kmem EXCEPT !.use_lock = FALSE],
         mp.next > Len(LowPages), UNCHANGED <<table, code, live>>
  PROVE  BootInv'
<1>1. /\ Machine' = Machine /\ Boot1' = Boot1 /\ Boot1 \in Machine /\ c \in Machine
      /\ cpu \in [Machine -> CpuState] /\ mp.next \in Nat
      /\ cpu[Boot1].at = "wait" => mp.next - 1 \in Machine
      /\ \A d \in Machine : cpu[d].at \in {"startap", "wait"} => d = Boot1
      /\ Machine \subseteq Nat
  BY Still
<1>2. /\ cpu[c].at = "kinit1" /\ mp'.next = 1 /\ mp'.ncpu = mp.ncpu /\ mp'.ismp = mp.ismp
      /\ mp' \in [ncpu : Nat, ismp : BOOLEAN, next : Nat \ {0}]
      /\ kmem'.freelist = kmem.freelist /\ kmem'.lock = kmem.lock /\ kmem'.use_lock = FALSE
      /\ kmem' \in [freelist : Lists, lock : Int, use_lock : BOOLEAN]
  <2>1. mp \in [ncpu : Nat, ismp : BOOLEAN, next : Nat \ {0}]
        /\ kmem \in [freelist : Lists, lock : Int, use_lock : BOOLEAN]
    BY DEF BootInv, BootTypes
  <2>2. PICK x \in BOOLEAN : x = FALSE
    OBVIOUS
  <2>3. kmem' = [kmem EXCEPT !.use_lock = x]
    BY <2>2
  <2>4. /\ kmem'.freelist = kmem.freelist /\ kmem'.lock = kmem.lock /\ kmem'.use_lock = x
        /\ kmem' \in [freelist : Lists, lock : Int, use_lock : BOOLEAN]
    BY <2>1, <2>3
  <2>5. /\ mp'.next = 1 /\ mp'.ncpu = mp.ncpu /\ mp'.ismp = mp.ismp
        /\ mp' \in [ncpu : Nat, ismp : BOOLEAN, next : Nat \ {0}]
    BY <2>1
  <2> QED BY <2>2, <2>4, <2>5
<1>3. /\ cpu' \in [Machine -> CpuState] /\ \A d \in Machine : d # c => cpu'[d] = cpu[d]
      /\ cpu'[c].at = "kvmalloc" /\ cpu'[c].seen = cpu[c].seen /\ cpu'[c].then = cpu[c].then
      /\ cpu'[c].page = cpu[c].page /\ cpu'[c].stack = cpu[c].stack
      /\ cpu'[c].timer = cpu[c].timer /\ cpu'[c].idt = cpu[c].idt
      /\ cpu'[c].started = cpu[c].started
  <2>1. cpu \in [Machine -> CpuState] /\ c \in Machine /\ Machine' = Machine
    BY <1>1
  <2>2. PICK l \in CpuPlaces : l = "kvmalloc"
    BY PlacesAre
  <2> QED BY <2>1, <2>2, JumpIs
<1>4. BootTypes'
  BY <1>1, <1>2, <1>3 DEF BootInv, BootTypes
<1>5. FirstRight'
  BY <1>1, <1>2, <1>3 DEF BootInv, FirstRight
<1>6. FlagsRight'
  BY <1>1, <1>2, <1>3 DEF BootInv, FlagsRight
<1>7. ReadRight'
  BY <1>1, <1>2, <1>3 DEF BootInv, FirstRight, OthersRight, ReadRight
<1>8. OthersRight'
  BY <1>1, <1>2, <1>3 DEF BootInv, OthersRight
<1>9. TableRight'
  BY <1>1, <1>2, <1>3 DEF BootInv, TableRight, Listed
<1>10. PagesEnough'
  BY <1>1, <1>2, <1>3 DEF BootInv, PagesEnough
<1>11. StartRight'
  BY <1>1, <1>2, <1>3 DEF BootInv, StartRight, OthersRight, TableRight, Self
<1>12. PagesApart' /\ PagesKnown'
  <2>1. \A p : Known(p) => Known(p)'
    BY <1>1, <1>2, <1>3 DEF Known, ToSet
  <2>2. \A d \in Machine : Holds(d)' => Holds(d)
    BY <1>1, <1>2, <1>3 DEF Holds
  <2>3. \A d \in Machine : cpu'[d].page = cpu[d].page /\ cpu'[d].stack = cpu[d].stack
    BY <1>3
  <2> QED BY <1>1, <2>1, <2>2, <2>3, PagesStay
<1> QED BY <1>4, <1>5, <1>6, <1>7, <1>8, <1>9, <1>10, <1>11, <1>12 DEF BootInv

LEMMA Kinit2EndRight ==
  ASSUME BootInv, NEW c \in Machine, c = Boot1, cpu[c].at = "kinit2", Jump(c, After.kinit2),
         mp' = [mp EXCEPT !.next = 1], kmem' = [kmem EXCEPT !.use_lock = TRUE],
         mp.next > Len(HighPages), UNCHANGED <<table, code, live>>
  PROVE  BootInv'
<1>1. /\ Machine' = Machine /\ Boot1' = Boot1 /\ Boot1 \in Machine /\ c \in Machine
      /\ cpu \in [Machine -> CpuState] /\ mp.next \in Nat
      /\ cpu[Boot1].at = "wait" => mp.next - 1 \in Machine
      /\ \A d \in Machine : cpu[d].at \in {"startap", "wait"} => d = Boot1
      /\ Machine \subseteq Nat
  BY Still
<1>2. /\ cpu[c].at = "kinit2" /\ mp'.next = 1 /\ mp'.ncpu = mp.ncpu /\ mp'.ismp = mp.ismp
      /\ mp' \in [ncpu : Nat, ismp : BOOLEAN, next : Nat \ {0}]
      /\ kmem'.freelist = kmem.freelist /\ kmem'.lock = kmem.lock /\ kmem'.use_lock = TRUE
      /\ kmem' \in [freelist : Lists, lock : Int, use_lock : BOOLEAN]
  <2>1. mp \in [ncpu : Nat, ismp : BOOLEAN, next : Nat \ {0}]
        /\ kmem \in [freelist : Lists, lock : Int, use_lock : BOOLEAN]
    BY DEF BootInv, BootTypes
  <2>2. PICK x \in BOOLEAN : x = TRUE
    OBVIOUS
  <2>3. kmem' = [kmem EXCEPT !.use_lock = x]
    BY <2>2
  <2>4. /\ kmem'.freelist = kmem.freelist /\ kmem'.lock = kmem.lock /\ kmem'.use_lock = x
        /\ kmem' \in [freelist : Lists, lock : Int, use_lock : BOOLEAN]
    BY <2>1, <2>3
  <2>5. /\ mp'.next = 1 /\ mp'.ncpu = mp.ncpu /\ mp'.ismp = mp.ismp
        /\ mp' \in [ncpu : Nat, ismp : BOOLEAN, next : Nat \ {0}]
    BY <2>1
  <2> QED BY <2>2, <2>4, <2>5
<1>3. /\ cpu' \in [Machine -> CpuState] /\ \A d \in Machine : d # c => cpu'[d] = cpu[d]
      /\ cpu'[c].at = "userinit" /\ cpu'[c].seen = cpu[c].seen /\ cpu'[c].then = cpu[c].then
      /\ cpu'[c].page = cpu[c].page /\ cpu'[c].stack = cpu[c].stack
      /\ cpu'[c].timer = cpu[c].timer /\ cpu'[c].idt = cpu[c].idt
      /\ cpu'[c].started = cpu[c].started
  <2>1. cpu \in [Machine -> CpuState] /\ c \in Machine /\ Machine' = Machine
    BY <1>1
  <2>2. PICK l \in CpuPlaces : l = After.kinit2
    BY PlacesAre DEF After
  <2> QED BY <2>1, <2>2, JumpIs DEF After
<1>4. BootTypes'
  BY <1>1, <1>2, <1>3 DEF BootInv, BootTypes
<1>5. FirstRight'
  BY <1>1, <1>2, <1>3 DEF BootInv, FirstRight
<1>6. FlagsRight'
  BY <1>1, <1>2, <1>3 DEF BootInv, FlagsRight
<1>7. ReadRight'
  BY <1>1, <1>2, <1>3 DEF BootInv, FirstRight, OthersRight, ReadRight
<1>8. OthersRight'
  BY <1>1, <1>2, <1>3 DEF BootInv, OthersRight
<1>9. TableRight'
  BY <1>1, <1>2, <1>3 DEF BootInv, TableRight, Listed
<1>10. PagesEnough'
  BY <1>1, <1>2, <1>3 DEF BootInv, PagesEnough
<1>11. StartRight'
  BY <1>1, <1>2, <1>3 DEF BootInv, StartRight, OthersRight, TableRight, Self
<1>12. PagesApart' /\ PagesKnown'
  <2>1. \A p : Known(p) => Known(p)'
    BY <1>1, <1>2, <1>3 DEF Known, ToSet
  <2>2. \A d \in Machine : Holds(d)' => Holds(d)
    BY <1>1, <1>2, <1>3 DEF Holds
  <2>3. \A d \in Machine : cpu'[d].page = cpu[d].page /\ cpu'[d].stack = cpu[d].stack
    BY <1>3
  <2> QED BY <1>1, <2>1, <2>2, <2>3, PagesStay
<1> QED BY <1>4, <1>5, <1>6, <1>7, <1>8, <1>9, <1>10, <1>11, <1>12 DEF BootInv

\* The other processors, and then all.

LEMMA MpenterRight ==
  ASSUME BootInv, NEW c \in Machine, Mpenter(c), UNCHANGED <<table, mp, kmem, code, live>>
  PROVE  BootInv'
<1>1. /\ Machine' = Machine /\ Boot1' = Boot1 /\ Boot1 \in Machine /\ c \in Machine
      /\ cpu \in [Machine -> CpuState] /\ mp.next \in Nat
      /\ cpu[Boot1].at = "wait" => mp.next - 1 \in Machine
      /\ \A d \in Machine : cpu[d].at \in {"startap", "wait"} => d = Boot1
      /\ Machine \subseteq Nat
  BY Still
<1>2. c # Boot1 /\ cpu[Boot1].at = "wait" /\ c = mp.next - 1 /\ Phase(Boot1) = "wait"
      /\ cpu[c].at = "mpenter"
  BY <1>1 DEF BootInv, BootTypes, FirstRight, OthersRight, Is, Mpenter
<1>3. /\ cpu' \in [Machine -> CpuState] /\ \A d \in Machine : d # c => cpu'[d] = cpu[d]
      /\ cpu'[c].at = "lapicinit" /\ cpu'[c].seen = cpu[c].seen /\ cpu'[c].then = cpu[c].then
      /\ cpu'[c].page = cpu[c].page /\ cpu'[c].stack = cpu[c].stack
      /\ cpu'[c].timer = cpu[c].timer /\ cpu'[c].idt = cpu[c].idt
      /\ cpu'[c].started = cpu[c].started
  <2>1. cpu \in [Machine -> CpuState] /\ c \in Machine /\ Machine' = Machine
    BY <1>1
  <2> QED BY <2>1, PlacesAre DEF Mpenter, CpuState
<1>4. BootTypes' /\ FirstRight' /\ FlagsRight' /\ ReadRight'
  BY <1>1, <1>2, <1>3 DEF BootInv, BootTypes, FirstRight, OthersRight, FlagsRight, ReadRight
<1>5. OthersRight'
  BY <1>1, <1>2, <1>3 DEF BootInv, OthersRight
<1>6. TableRight'
  BY <1>1, <1>2, <1>3 DEF BootInv, TableRight, Listed
<1>7. PagesEnough'
  BY <1>1, <1>2, <1>3 DEF BootInv, PagesEnough
<1>8. StartRight'
  BY <1>1, <1>2, <1>3 DEF BootInv, StartRight, OthersRight
<1>9. PagesApart' /\ PagesKnown'
  <2>1. \A p : Known(p) => Known(p)'
    BY <1>1, <1>2, <1>3 DEF Known, ToSet
  <2>2. \A d \in Machine : Holds(d)' => Holds(d)
    BY <1>1, <1>2, <1>3 DEF Holds
  <2>3. \A d \in Machine : cpu'[d].page = cpu[d].page /\ cpu'[d].stack = cpu[d].stack
    BY <1>3
  <2> QED BY <1>1, <2>1, <2>2, <2>3, PagesStay
<1> QED BY <1>4, <1>5, <1>6, <1>7, <1>8, <1>9 DEF BootInv

LEMMA LapicinitRight ==
  ASSUME BootInv, NEW c \in Machine, Lapicinit(c), UNCHANGED <<table, mp, kmem, code, live>>
  PROVE  BootInv'
<1>1. /\ Machine' = Machine /\ Boot1' = Boot1 /\ Boot1 \in Machine /\ c \in Machine
      /\ cpu \in [Machine -> CpuState] /\ mp.next \in Nat
      /\ cpu[Boot1].at = "wait" => mp.next - 1 \in Machine
      /\ \A d \in Machine : cpu[d].at \in {"startap", "wait"} => d = Boot1
      /\ Machine \subseteq Nat
  BY Still
<1>2. c # Boot1 /\ cpu[Boot1].at = "wait" /\ c = mp.next - 1 /\ Phase(Boot1) = "wait"
      /\ cpu[c].at = "lapicinit"
  BY <1>1 DEF BootInv, BootTypes, FirstRight, OthersRight, Is, Lapicinit
<1>3. /\ cpu' \in [Machine -> CpuState] /\ \A d \in Machine : d # c => cpu'[d] = cpu[d]
      /\ cpu'[c].at = "mpmain" /\ cpu'[c].seen = cpu[c].seen /\ cpu'[c].then = cpu[c].then
      /\ cpu'[c].page = cpu[c].page /\ cpu'[c].stack = cpu[c].stack
      /\ cpu'[c].timer = TRUE /\ cpu'[c].idt = cpu[c].idt /\ cpu'[c].started = cpu[c].started
  <2>1. cpu \in [Machine -> CpuState] /\ c \in Machine /\ Machine' = Machine
    BY <1>1
  <2> QED BY <2>1, PlacesAre DEF Lapicinit, CpuState
<1>4. BootTypes' /\ FirstRight' /\ FlagsRight' /\ ReadRight'
  BY <1>1, <1>2, <1>3 DEF BootInv, BootTypes, FirstRight, OthersRight, FlagsRight, ReadRight
<1>5. OthersRight'
  BY <1>1, <1>2, <1>3 DEF BootInv, OthersRight
<1>6. TableRight'
  BY <1>1, <1>2, <1>3 DEF BootInv, TableRight, Listed
<1>7. PagesEnough'
  BY <1>1, <1>2, <1>3 DEF BootInv, PagesEnough
<1>8. StartRight'
  BY <1>1, <1>2, <1>3 DEF BootInv, StartRight, OthersRight
<1>9. PagesApart' /\ PagesKnown'
  <2>1. \A p : Known(p) => Known(p)'
    BY <1>1, <1>2, <1>3 DEF Known, ToSet
  <2>2. \A d \in Machine : Holds(d)' => Holds(d)
    BY <1>1, <1>2, <1>3 DEF Holds
  <2>3. \A d \in Machine : cpu'[d].page = cpu[d].page /\ cpu'[d].stack = cpu[d].stack
    BY <1>3
  <2> QED BY <1>1, <2>1, <2>2, <2>3, PagesStay
<1> QED BY <1>4, <1>5, <1>6, <1>7, <1>8, <1>9 DEF BootInv

LEMMA IdtinitRight ==
  ASSUME BootInv, NEW c \in Machine, Idtinit(c), UNCHANGED <<table, mp, kmem, code, live>>
  PROVE  BootInv'
<1>1. /\ Machine' = Machine /\ Boot1' = Boot1 /\ Boot1 \in Machine /\ c \in Machine
      /\ cpu \in [Machine -> CpuState] /\ mp.next \in Nat
      /\ cpu[Boot1].at = "wait" => mp.next - 1 \in Machine
      /\ \A d \in Machine : cpu[d].at \in {"startap", "wait"} => d = Boot1
      /\ Machine \subseteq Nat
  BY Still
<1>2. (c # Boot1 => cpu[Boot1].at = "wait" /\ c = mp.next - 1 /\ Phase(Boot1) = "wait")
      /\ cpu[c].at = "mpmain"
  BY <1>1 DEF BootInv, BootTypes, FirstRight, OthersRight, Is, Idtinit
<1>3. /\ cpu' \in [Machine -> CpuState] /\ \A d \in Machine : d # c => cpu'[d] = cpu[d]
      /\ cpu'[c].at = "started" /\ cpu'[c].seen = cpu[c].seen /\ cpu'[c].then = cpu[c].then
      /\ cpu'[c].page = cpu[c].page /\ cpu'[c].stack = cpu[c].stack
      /\ cpu'[c].timer = cpu[c].timer /\ cpu'[c].idt = TRUE /\ cpu'[c].started = cpu[c].started
  <2>1. cpu \in [Machine -> CpuState] /\ c \in Machine /\ Machine' = Machine
    BY <1>1
  <2> QED BY <2>1, PlacesAre DEF Idtinit, CpuState
<1>4. BootTypes' /\ FirstRight' /\ FlagsRight' /\ ReadRight'
  BY <1>1, <1>2, <1>3 DEF BootInv, BootTypes, FirstRight, OthersRight, FlagsRight, ReadRight
<1>5. OthersRight'
  BY <1>1, <1>2, <1>3 DEF BootInv, OthersRight
<1>6. TableRight'
  BY <1>1, <1>2, <1>3 DEF BootInv, TableRight, Listed
<1>7. PagesEnough'
  BY <1>1, <1>2, <1>3 DEF BootInv, PagesEnough
<1>8. StartRight'
  BY <1>1, <1>2, <1>3 DEF BootInv, StartRight, OthersRight
<1>9. PagesApart' /\ PagesKnown'
  <2>1. \A p : Known(p) => Known(p)'
    BY <1>1, <1>2, <1>3 DEF Known, ToSet
  <2>2. \A d \in Machine : Holds(d)' => Holds(d)
    BY <1>1, <1>2, <1>3 DEF Holds
  <2>3. \A d \in Machine : cpu'[d].page = cpu[d].page /\ cpu'[d].stack = cpu[d].stack
    BY <1>3
  <2> QED BY <1>1, <2>1, <2>2, <2>3, PagesStay
<1> QED BY <1>4, <1>5, <1>6, <1>7, <1>8, <1>9 DEF BootInv

LEMMA SetStartedRight ==
  ASSUME BootInv, NEW c \in Machine, SetStarted(c), UNCHANGED <<table, mp, kmem, code, live>>
  PROVE  BootInv'
<1>1. /\ Machine' = Machine /\ Boot1' = Boot1 /\ Boot1 \in Machine /\ c \in Machine
      /\ cpu \in [Machine -> CpuState] /\ mp.next \in Nat
      /\ cpu[Boot1].at = "wait" => mp.next - 1 \in Machine
      /\ \A d \in Machine : cpu[d].at \in {"startap", "wait"} => d = Boot1
      /\ Machine \subseteq Nat
  BY Still
<1>2. (c # Boot1 => cpu[Boot1].at = "wait" /\ c = mp.next - 1 /\ Phase(Boot1) = "wait")
      /\ cpu[c].at = "started"
  BY <1>1 DEF BootInv, BootTypes, FirstRight, OthersRight, Is, SetStarted
<1>3. /\ cpu' \in [Machine -> CpuState] /\ \A d \in Machine : d # c => cpu'[d] = cpu[d]
      /\ cpu'[c].at = "scheduler" /\ cpu'[c].seen = cpu[c].seen /\ cpu'[c].then = cpu[c].then
      /\ cpu'[c].page = cpu[c].page /\ cpu'[c].stack = cpu[c].stack
      /\ cpu'[c].timer = cpu[c].timer /\ cpu'[c].idt = cpu[c].idt /\ cpu'[c].started = TRUE
  <2>1. cpu \in [Machine -> CpuState] /\ c \in Machine /\ Machine' = Machine
    BY <1>1
  <2> QED BY <2>1, PlacesAre DEF SetStarted, CpuState
<1>4. BootTypes' /\ FirstRight' /\ FlagsRight' /\ ReadRight'
  BY <1>1, <1>2, <1>3 DEF BootInv, BootTypes, FirstRight, OthersRight, FlagsRight, ReadRight
<1>5. OthersRight'
  BY <1>1, <1>2, <1>3 DEF BootInv, OthersRight
<1>6. TableRight'
  BY <1>1, <1>2, <1>3 DEF BootInv, TableRight, Listed
<1>7. PagesEnough'
  BY <1>1, <1>2, <1>3 DEF BootInv, PagesEnough
<1>8. StartRight'
  BY <1>1, <1>2, <1>3 DEF BootInv, StartRight, OthersRight
<1>9. PagesApart' /\ PagesKnown'
  <2>1. \A p : Known(p) => Known(p)'
    BY <1>1, <1>2, <1>3 DEF Known, ToSet
  <2>2. \A d \in Machine : Holds(d)' => Holds(d)
    BY <1>1, <1>2, <1>3 DEF Holds
  <2>3. \A d \in Machine : cpu'[d].page = cpu[d].page /\ cpu'[d].stack = cpu[d].stack
    BY <1>3
  <2> QED BY <1>1, <2>1, <2>2, <2>3, PagesStay
<1> QED BY <1>4, <1>5, <1>6, <1>7, <1>8, <1>9 DEF BootInv

LEMMA UserAllocRight ==
  ASSUME BootInv, NEW c \in Machine, cpu[c].at = "scheduler", Alloc(c, "user"), live,
         UNCHANGED <<table, mp, kmem, code, live>>
  PROVE  BootInv'
<1>1. /\ Machine' = Machine /\ Boot1' = Boot1 /\ Boot1 \in Machine /\ c \in Machine
      /\ cpu \in [Machine -> CpuState] /\ mp.next \in Nat
      /\ cpu[Boot1].at = "wait" => mp.next - 1 \in Machine
      /\ \A d \in Machine : cpu[d].at \in {"startap", "wait"} => d = Boot1
      /\ Machine \subseteq Nat
  BY Still
<1>2. cpu[c].at = "scheduler" /\ kmem.use_lock /\ Phase(Boot1) \in Locked
  BY <1>1 DEF BootInv, BootTypes, FirstRight, OthersRight
<1>3. /\ cpu' \in [Machine -> CpuState] /\ \A d \in Machine : d # c => cpu'[d] = cpu[d]
      /\ cpu'[c].at = "kalloc" /\ cpu'[c].seen = cpu[c].seen /\ cpu'[c].then = "user"
      /\ cpu'[c].page = cpu[c].page /\ cpu'[c].stack = cpu[c].stack
      /\ cpu'[c].timer = cpu[c].timer /\ cpu'[c].idt = cpu[c].idt
      /\ cpu'[c].started = cpu[c].started
  <2>1. cpu \in [Machine -> CpuState] /\ c \in Machine /\ Machine' = Machine
    BY <1>1
  <2>2. PICK l \in CpuPlaces : l = "user"
    BY PlacesAre
  <2> QED BY <2>1, <2>2, AllocIs
<1>4. BootTypes' /\ FirstRight' /\ FlagsRight' /\ ReadRight'
  BY <1>1, <1>2, <1>3 DEF BootInv, BootTypes, FirstRight, OthersRight, FlagsRight, ReadRight
<1>5. OthersRight'
  BY <1>1, <1>2, <1>3 DEF BootInv, OthersRight
<1>6. TableRight'
  BY <1>1, <1>2, <1>3 DEF BootInv, TableRight, Listed
<1>7. PagesEnough'
  BY <1>1, <1>2, <1>3 DEF BootInv, PagesEnough
<1>8. StartRight'
  BY <1>1, <1>2, <1>3 DEF BootInv, StartRight, OthersRight
<1>9. PagesApart' /\ PagesKnown'
  <2>1. \A p : Known(p) => Known(p)'
    BY <1>1, <1>2, <1>3 DEF Known, ToSet
  <2>2. \A d \in Machine : Holds(d)' => Holds(d)
    BY <1>1, <1>2, <1>3 DEF Holds
  <2>3. \A d \in Machine : cpu'[d].page = cpu[d].page /\ cpu'[d].stack = cpu[d].stack
    BY <1>3
  <2> QED BY <1>1, <2>1, <2>2, <2>3, PagesStay
<1> QED BY <1>4, <1>5, <1>6, <1>7, <1>8, <1>9 DEF BootInv

LEMMA UserNoneRight ==
  ASSUME BootInv, NEW c \in Machine, cpu[c].at = "user", Jump(c, "scheduler"),
         cpu[c].page = NoPage, UNCHANGED <<table, mp, kmem, code, live>>
  PROVE  BootInv'
<1>1. /\ Machine' = Machine /\ Boot1' = Boot1 /\ Boot1 \in Machine /\ c \in Machine
      /\ cpu \in [Machine -> CpuState] /\ mp.next \in Nat
      /\ cpu[Boot1].at = "wait" => mp.next - 1 \in Machine
      /\ \A d \in Machine : cpu[d].at \in {"startap", "wait"} => d = Boot1
      /\ Machine \subseteq Nat
  BY Still
<1>2. cpu[c].at = "user" /\ kmem.use_lock /\ Phase(Boot1) \in Locked
  BY <1>1 DEF BootInv, BootTypes, FirstRight, OthersRight
<1>3. /\ cpu' \in [Machine -> CpuState] /\ \A d \in Machine : d # c => cpu'[d] = cpu[d]
      /\ cpu'[c].at = "scheduler" /\ cpu'[c].seen = cpu[c].seen /\ cpu'[c].then = cpu[c].then
      /\ cpu'[c].page = cpu[c].page /\ cpu'[c].stack = cpu[c].stack
      /\ cpu'[c].timer = cpu[c].timer /\ cpu'[c].idt = cpu[c].idt
      /\ cpu'[c].started = cpu[c].started
  <2>1. cpu \in [Machine -> CpuState] /\ c \in Machine /\ Machine' = Machine
    BY <1>1
  <2>2. PICK l \in CpuPlaces : l = "scheduler"
    BY PlacesAre
  <2> QED BY <2>1, <2>2, JumpIs
<1>4. BootTypes' /\ FirstRight' /\ FlagsRight' /\ ReadRight'
  BY <1>1, <1>2, <1>3 DEF BootInv, BootTypes, FirstRight, OthersRight, FlagsRight, ReadRight
<1>5. OthersRight'
  BY <1>1, <1>2, <1>3 DEF BootInv, OthersRight
<1>6. TableRight'
  BY <1>1, <1>2, <1>3 DEF BootInv, TableRight, Listed
<1>7. PagesEnough'
  BY <1>1, <1>2, <1>3 DEF BootInv, PagesEnough
<1>8. StartRight'
  <2>1. /\ Phase(Boot1) \in Locked /\ Phase(Boot1)' \in Locked
        /\ cpu[Boot1].at # "wait" /\ cpu'[Boot1].at # "wait"
    BY <1>1, <1>2, <1>3 DEF BootInv, FirstRight, OthersRight
  <2>2. \A d \in Machine : cpu'[d].started = cpu[d].started
    BY <1>3
  <2> QED BY <1>1, <2>1, <2>2 DEF BootInv, StartRight
<1>9. PagesApart' /\ PagesKnown'
  <2>1. \A p : Known(p) => Known(p)'
    BY <1>1, <1>2, <1>3 DEF Known, ToSet
  <2>2. \A d \in Machine : Holds(d)' => Holds(d)
    BY <1>1, <1>2, <1>3 DEF Holds
  <2>3. \A d \in Machine : cpu'[d].page = cpu[d].page /\ cpu'[d].stack = cpu[d].stack
    BY <1>3
  <2> QED BY <1>1, <2>1, <2>2, <2>3, PagesStay
<1> QED BY <1>4, <1>5, <1>6, <1>7, <1>8, <1>9 DEF BootInv

LEMMA UserFreeRight ==
  ASSUME BootInv, NEW c \in Machine, cpu[c].at = "user", cpu[c].page # NoPage,
         Free(c, cpu[c].page, "scheduler"), UNCHANGED <<table, mp, kmem, code, live>>
  PROVE  BootInv'
<1>1. /\ Machine' = Machine /\ Boot1' = Boot1 /\ Boot1 \in Machine /\ c \in Machine
      /\ cpu \in [Machine -> CpuState] /\ mp.next \in Nat
      /\ cpu[Boot1].at = "wait" => mp.next - 1 \in Machine
      /\ \A d \in Machine : cpu[d].at \in {"startap", "wait"} => d = Boot1
      /\ Machine \subseteq Nat
  BY Still
<1>2. cpu[c].at = "user" /\ kmem.use_lock /\ Phase(Boot1) \in Locked
  BY <1>1 DEF BootInv, BootTypes, FirstRight, OthersRight
<1>3. /\ cpu' \in [Machine -> CpuState] /\ \A d \in Machine : d # c => cpu'[d] = cpu[d]
      /\ cpu'[c].at = "kfree" /\ cpu'[c].seen = cpu[c].seen /\ cpu'[c].then = "scheduler"
      /\ cpu'[c].page = cpu[c].page /\ cpu'[c].stack = cpu[c].stack
      /\ cpu'[c].timer = cpu[c].timer /\ cpu'[c].idt = cpu[c].idt
      /\ cpu'[c].started = cpu[c].started
  <2>1. cpu \in [Machine -> CpuState] /\ c \in Machine /\ Machine' = Machine
    BY <1>1
  <2>2. PICK l \in CpuPlaces, p \in Nat : l = "scheduler" /\ p = cpu[c].page
    BY <2>1, PlacesAre DEF CpuState
  <2> QED BY <2>1, <2>2, FreeIs
<1>4. BootTypes' /\ FirstRight' /\ FlagsRight' /\ ReadRight'
  BY <1>1, <1>2, <1>3 DEF BootInv, BootTypes, FirstRight, OthersRight, FlagsRight, ReadRight
<1>5. OthersRight'
  BY <1>1, <1>2, <1>3 DEF BootInv, OthersRight
<1>6. TableRight'
  BY <1>1, <1>2, <1>3 DEF BootInv, TableRight, Listed
<1>7. PagesEnough'
  BY <1>1, <1>2, <1>3 DEF BootInv, PagesEnough
<1>8. StartRight'
  BY <1>1, <1>2, <1>3 DEF BootInv, StartRight, OthersRight
<1>9. PagesApart' /\ PagesKnown'
  <2>1. \A p : Known(p) => Known(p)'
    BY <1>1, <1>2, <1>3 DEF Known, ToSet
  <2>2. \A d \in Machine : Holds(d)' => Holds(d)
    BY <1>1, <1>2, <1>3 DEF Holds
  <2>3. \A d \in Machine : cpu'[d].page = cpu[d].page /\ cpu'[d].stack = cpu[d].stack
    BY <1>3
  <2> QED BY <1>1, <2>1, <2>2, <2>3, PagesStay
<1> QED BY <1>4, <1>5, <1>6, <1>7, <1>8, <1>9 DEF BootInv

\* kalloc and kfree.

LEMMA OneAtATime ==
  ASSUME BootInv, NEW c \in Machine, NEW d \in Machine,
         {cpu[c].at, cpu[d].at} \subseteq {"kalloc2", "kfree2"}
  PROVE  c = d
BY DEF BootInv, FirstRight, OthersRight, ReadRight

LEMMA ReadListRight ==
  ASSUME BootInv, NEW c \in Machine, ReadList(c)
  PROVE  BootInv'
<1>1. /\ Machine' = Machine /\ Boot1' = Boot1 /\ Boot1 \in Machine /\ c \in Machine
      /\ cpu \in [Machine -> CpuState] /\ mp.next \in Nat
      /\ cpu[Boot1].at = "wait" => mp.next - 1 \in Machine
      /\ \A d \in Machine : cpu[d].at \in {"startap", "wait"} => d = Boot1
      /\ Machine \subseteq Nat
      /\ mp' = mp /\ code' = code /\ live' = live /\ table' = table
  BY Still DEF ReadList
<1>2. cpu[c].at \in {"kalloc", "kfree"} /\ (kmem.use_lock => kmem.lock = -1)
  BY DEF ReadList, Is, NoOne
<1>3. /\ kmem'.freelist = kmem.freelist /\ kmem'.use_lock = kmem.use_lock
      /\ kmem.use_lock => kmem'.lock = c
      /\ kmem' \in [freelist : Lists, lock : Int, use_lock : BOOLEAN]
  <2>1. kmem \in [freelist : Lists, lock : Int, use_lock : BOOLEAN]
    BY DEF BootInv, BootTypes
  <2>2. kmem' = IF kmem.use_lock THEN [kmem EXCEPT !.lock = c] ELSE kmem
    BY DEF ReadList
  <2>3. c \in Int
    BY <1>1
  <2> QED BY <2>1, <2>2, <2>3
<1>4. PICK l \in {"kalloc2", "kfree2"} : l = IF cpu[c].at = "kalloc" THEN "kalloc2" ELSE "kfree2"
  OBVIOUS
<1>5. /\ cpu' \in [Machine -> CpuState] /\ \A d \in Machine : d # c => cpu'[d] = cpu[d]
      /\ cpu'[c].at = l /\ cpu'[c].seen = kmem.freelist /\ cpu'[c].then = cpu[c].then
      /\ cpu'[c].page = cpu[c].page /\ cpu'[c].stack = cpu[c].stack
      /\ cpu'[c].timer = cpu[c].timer /\ cpu'[c].idt = cpu[c].idt
      /\ cpu'[c].started = cpu[c].started
  <2>1. cpu \in [Machine -> CpuState] /\ c \in Machine /\ Machine' = Machine
    BY <1>1
  <2>2. PICK s \in Lists : s = kmem.freelist
    BY DEF BootInv, BootTypes
  <2>3. cpu' = [cpu EXCEPT ![c].at = l, ![c].seen = s]
    BY <1>4, <2>2 DEF ReadList
  <2>4. l \in CpuPlaces
    BY PlacesAre
  <2> QED BY <2>1, <2>2, <2>3, <2>4 DEF CpuState
<1>6. BootTypes' /\ FirstRight' /\ FlagsRight'
  BY <1>1, <1>2, <1>3, <1>4, <1>5 DEF BootInv, BootTypes, FirstRight, FlagsRight
<1>7. ReadRight'
  BY <1>1, <1>2, <1>3, <1>4, <1>5 DEF BootInv, FirstRight, OthersRight, ReadRight
<1>8. OthersRight' /\ TableRight' /\ PagesEnough'
  BY <1>1, <1>2, <1>3, <1>4, <1>5 DEF BootInv, OthersRight, TableRight, Listed, PagesEnough
<1>9. StartRight'
  BY <1>1, <1>2, <1>3, <1>4, <1>5 DEF BootInv, StartRight, OthersRight
<1>10. PagesApart' /\ PagesKnown'
  <2>1. \A p : Known(p) => Known(p)'
    BY <1>1, <1>2, <1>4, <1>5 DEF Known
  <2>2. \A d \in Machine : Holds(d)' => Holds(d)
    BY <1>1, <1>2, <1>4, <1>5 DEF Holds
  <2>3. \A d \in Machine : cpu'[d].page = cpu[d].page /\ cpu'[d].stack = cpu[d].stack
    BY <1>5
  <2> QED BY <1>1, <1>3, <2>1, <2>2, <2>3, PagesStay
<1> QED BY <1>6, <1>7, <1>8, <1>9, <1>10 DEF BootInv

\* The write of the list, whatever it is.
LEMMA Written ==
  ASSUME BootInv, NEW c \in Machine, cpu[c].at \in {"kalloc2", "kfree2"}, NEW list \in Lists,
         NEW p \in Nat, kmem' = Unlocked(list), Back(c, p), UNCHANGED <<table, mp, code, live>>
  PROVE  /\ BootTypes' /\ FirstRight' /\ OthersRight' /\ StartRight' /\ TableRight' /\ FlagsRight'
         /\ ReadRight'
         /\ kmem'.freelist = list /\ Machine' = Machine
         /\ \A d \in Machine : d # c => cpu'[d] = cpu[d]
         /\ cpu'[c].at = cpu[c].then /\ cpu'[c].page = p /\ cpu'[c].stack = cpu[c].stack
         /\ cpu'[c].then = cpu[c].then
<1>1. /\ Machine' = Machine /\ Boot1' = Boot1 /\ Boot1 \in Machine /\ c \in Machine
      /\ cpu \in [Machine -> CpuState] /\ mp.next \in Nat
      /\ cpu[Boot1].at = "wait" => mp.next - 1 \in Machine
      /\ \A d \in Machine : cpu[d].at \in {"startap", "wait"} => d = Boot1
      /\ Machine \subseteq Nat
  BY Still
<1>2. \A d \in Machine : cpu[d].at \in {"kalloc2", "kfree2"} => d = c
  BY OneAtATime
<1>3. /\ kmem'.freelist = list /\ kmem'.use_lock = kmem.use_lock
      /\ kmem' \in [freelist : Lists, lock : Int, use_lock : BOOLEAN]
  <2>1. kmem \in [freelist : Lists, lock : Int, use_lock : BOOLEAN]
    BY DEF BootInv, BootTypes
  <2>2. PICK k \in Int : k = IF kmem.use_lock THEN -1 ELSE kmem.lock
    BY <2>1
  <2>3. kmem' = [kmem EXCEPT !.freelist = list, !.lock = k]
    BY <2>2 DEF Unlocked, NoOne
  <2> QED BY <2>1, <2>3
<1>4. PICK l \in CpuPlaces : l = cpu[c].then /\ (l # "kinit1" => l \notin InAlloc \cup InFree)
  <2>1. cpu[c].then \in CpuPlaces
    BY <1>1 DEF CpuState
  <2>2. cpu[c].then \notin InAlloc \cup InFree
    BY <1>1 DEF BootInv, FirstRight, OthersRight
  <2> QED BY <2>1, <2>2
<1>5. /\ cpu' \in [Machine -> CpuState] /\ \A d \in Machine : d # c => cpu'[d] = cpu[d]
      /\ cpu'[c].at = l /\ cpu'[c].then = cpu[c].then
      /\ cpu'[c].page = p /\ cpu'[c].stack = cpu[c].stack
      /\ cpu'[c].timer = cpu[c].timer /\ cpu'[c].idt = cpu[c].idt
      /\ cpu'[c].started = cpu[c].started
  <2>1. cpu \in [Machine -> CpuState] /\ c \in Machine /\ Machine' = Machine
    BY <1>1
  <2>2. PICK s \in Lists : s = << >>
    BY EmptySeq DEF Lists
  <2>3. cpu' = [cpu EXCEPT ![c].at = l, ![c].seen = s, ![c].page = p]
    BY <1>4, <2>2 DEF Back
  <2>4. PICK r \in CpuState : r = cpu[c]
    BY <2>1
  <2>5. PICK q : q = [r EXCEPT !.at = l, !.seen = s, !.page = p]
    OBVIOUS
  <2>6. /\ q \in CpuState /\ q.at = l /\ q.page = p /\ q.then = r.then /\ q.stack = r.stack
        /\ q.timer = r.timer /\ q.idt = r.idt /\ q.started = r.started
    BY <2>5 DEF CpuState
  <2>7. cpu' = [cpu EXCEPT ![c] = q]
    BY <2>3, <2>4, <2>5
  <2> QED BY <2>1, <2>4, <2>6, <2>7
<1>6. BootTypes' /\ FirstRight' /\ FlagsRight'
  BY <1>1, <1>3, <1>4, <1>5 DEF BootInv, BootTypes, FirstRight, OthersRight, FlagsRight
<1>7. ReadRight'
  BY <1>1, <1>2, <1>3, <1>4, <1>5 DEF BootInv, FirstRight, OthersRight, ReadRight
<1>8. OthersRight' /\ TableRight'
  BY <1>1, <1>3, <1>4, <1>5 DEF BootInv, FirstRight, OthersRight, TableRight, Listed
<1>9. StartRight'
  BY <1>1, <1>3, <1>4, <1>5 DEF BootInv, FirstRight, StartRight, OthersRight
<1> QED BY <1>1, <1>3, <1>4, <1>5, <1>6, <1>7, <1>8, <1>9

LEMMA WriteListRight ==
  ASSUME BootInv, NEW c \in Machine, WriteList(c)
  PROVE  BootInv'
<1>1. /\ Machine' = Machine /\ Boot1' = Boot1 /\ Boot1 \in Machine
      /\ cpu \in [Machine -> CpuState] /\ mp.next \in Nat
      /\ cpu[Boot1].at = "wait" => mp.next - 1 \in Machine
      /\ \A d \in Machine : cpu[d].at \in {"startap", "wait"} => d = Boot1
      /\ UNCHANGED <<table, mp, code, live>>
  BY Still DEF WriteList
<1>2. PICK s \in Lists : s = kmem.freelist
  BY DEF BootInv, BootTypes
<1>3. /\ IsInjective(s) /\ cpu[c].seen = s /\ cpu[c].at \in {"kalloc2", "kfree2"}
      /\ \A d \in Machine : /\ cpu[d].stack \notin ToSet(s)
                            /\ Holds(d) => cpu[d].page \notin ToSet(s)
  BY <1>2 DEF BootInv, ReadRight, PagesApart, WriteList, Is
<1>4. \A i \in DOMAIN s : Known(s[i])
  BY <1>2 DEF BootInv, PagesKnown
<1>5. \A p \in ToSet(s) : Known(p)
  BY <1>4 DEF ToSet
<1>6. Len(s) \in Nat /\ (s = << >> => Len(s) = 0)
  BY DEF Lists
<1>7. mp.ncpu <= Len(table.entries) /\ Len(table.entries) < Len(LowPages) /\ Len(LowPages) \in Nat
      /\ Len(table.entries) \in Nat /\ mp.ncpu \in Nat
  BY BootAssumption DEF BootInv, BootTypes, TableRight
<1>8. cpu[c].page \in Nat /\ cpu[c].stack \in Nat
  BY <1>1 DEF CpuState
<1>9. cpu[c].then # "entryother"
  BY <1>3 DEF BootInv, FirstRight, OthersRight
<1>10. CASE cpu[c].at = "kalloc2" /\ s # << >>
  <2>1. /\ Tail(s) \in Lists /\ Len(Tail(s)) = Len(s) - 1 /\ IsInjective(Tail(s))
        /\ Head(s) \in ToSet(s) /\ Head(s) \in Nat \ {NoPage}
        /\ ToSet(Tail(s)) \subseteq ToSet(s) /\ Head(s) \notin ToSet(Tail(s))
    BY <1>3, <1>10, TailIs
  <2>2. PICK t \in Lists, h \in Nat \ {NoPage} : t = Tail(s) /\ h = Head(s)
    BY <2>1
  <2>3. kmem' = Unlocked(t) /\ Back(c, h) /\ h \in Nat
    BY <1>3, <1>10, <2>2 DEF WriteList, Is
  <2>4. /\ BootTypes' /\ FirstRight' /\ OthersRight' /\ StartRight' /\ TableRight' /\ FlagsRight'
        /\ ReadRight' /\ kmem'.freelist = t
        /\ \A d \in Machine : d # c => cpu'[d] = cpu[d]
        /\ cpu'[c].at = cpu[c].then /\ cpu'[c].page = h /\ cpu'[c].stack = cpu[c].stack
        /\ cpu'[c].then = cpu[c].then
    <3>1. cpu[c].at \in {"kalloc2", "kfree2"} /\ UNCHANGED <<table, mp, code, live>>
      BY <1>1, <1>3
    <3> QED BY <2>3, <3>1, Written
  <2>5. PagesEnough'
    <3>1. Len(t) = Len(s) - 1
      BY <2>1, <2>2
    <3>2. CASE c # Boot1
      <4>1. Phase(Boot1) \in Locked /\ cpu'[Boot1] = cpu[Boot1]
        BY <1>1, <1>3, <2>4, <3>2 DEF BootInv, FirstRight, OthersRight
      <4> QED BY <1>1, <4>1 DEF PagesEnough
    <3>3. CASE c = Boot1
      <4>1. cpu[c].then \in {"switchkvm", "startap", "runnable", "user"}
        BY <1>3, <1>10, <3>3 DEF BootInv, FirstRight
      <4>2. Phase(Boot1) = cpu[c].then /\ cpu'[Boot1].at = cpu[c].then /\ Phase(Boot1)' = cpu[c].then
        BY <1>1, <1>10, <2>4, <3>3, <4>1
      <4>3. /\ cpu[c].then = "switchkvm" => Len(s) >= Len(LowPages)
            /\ cpu[c].then = "startap" => Len(s) >= Len(LowPages) - mp.next
        BY <1>2, <1>10, <3>3 DEF BootInv, PagesEnough
      <4> QED BY <1>1, <1>6, <1>7, <2>4, <3>1, <3>3, <4>1, <4>2, <4>3 DEF PagesEnough
    <3> QED BY <3>2, <3>3
  <2>6. \A p : Known(p) => Known(p)'
    BY <1>1, <1>3, <2>4 DEF Known, BootInv, FirstRight, OthersRight
  <2>7. \A d \in Machine : d # c /\ Holds(d)' => Holds(d)
    BY <1>1, <1>9, <2>4 DEF Holds
  <2>8. PagesApart'
    <3>1. \A d \in Machine : cpu[d].stack # h /\ (Holds(d) => cpu[d].page # h)
      BY <1>3, <2>1, <2>2
    <3>2. IsInjective(t) /\ h \notin ToSet(t) /\ ToSet(t) \subseteq ToSet(s)
      BY <2>1, <2>2
    <3> QED BY <1>1, <1>3, <2>4, <2>7, <3>1, <3>2 DEF BootInv, PagesApart
  <2>9. PagesKnown'
    <3>1. \A i \in DOMAIN t : t[i] \in ToSet(t)
      BY DEF ToSet
    <3>2. Known(h)' /\ \A i \in DOMAIN t : Known(t[i])'
      BY <1>5, <2>1, <2>2, <2>6, <3>1
    <3> QED BY <1>1, <2>4, <2>6, <2>7, <3>2 DEF BootInv, PagesKnown
  <2> QED BY <2>4, <2>5, <2>8, <2>9 DEF BootInv
<1>11. CASE cpu[c].at = "kalloc2" /\ s = << >>
  <2>1. kmem' = Unlocked(s) /\ Back(c, NoPage)
    BY <1>2, <1>3, <1>11 DEF WriteList, Is
  <2>2. PICK h \in Nat : h = 0 /\ h = NoPage
    BY DEF NoPage
  <2>3. /\ BootTypes' /\ FirstRight' /\ OthersRight' /\ StartRight' /\ TableRight' /\ FlagsRight'
        /\ ReadRight' /\ kmem'.freelist = s
        /\ \A d \in Machine : d # c => cpu'[d] = cpu[d]
        /\ cpu'[c].at = cpu[c].then /\ cpu'[c].page = h /\ cpu'[c].stack = cpu[c].stack
        /\ cpu'[c].then = cpu[c].then
    BY <1>1, <1>3, <2>1, <2>2, Written
  <2>4. PagesEnough'
    BY <1>1, <1>2, <1>3, <1>6, <1>7, <1>11, <2>3
       DEF BootInv, FirstRight, OthersRight, StartRight, PagesEnough
  <2>5. \A p : Known(p) => Known(p)'
    BY <1>1, <1>3, <2>3 DEF Known, BootInv, FirstRight, OthersRight
  <2>6. \A d \in Machine : Holds(d)' => d # c /\ Holds(d)
    BY <1>1, <1>9, <2>2, <2>3 DEF Holds
  <2>7. PagesApart'
    BY <1>1, <1>2, <1>3, <2>3, <2>6 DEF BootInv, PagesApart
  <2>8. PagesKnown'
    BY <1>1, <1>2, <1>4, <2>3, <2>5, <2>6 DEF BootInv, PagesKnown
  <2> QED BY <2>3, <2>4, <2>7, <2>8 DEF BootInv
<1>12. CASE cpu[c].at = "kfree2"
  <2>1. PICK q \in Nat \ {NoPage} : q = cpu[c].page
    BY <1>8, <1>12 DEF BootInv, ReadRight
  <2>2. Holds(c) /\ q \notin ToSet(s)
    BY <1>3, <1>12, <2>1 DEF Holds
  <2>3. PICK t \in Lists : /\ t = <<q>> \o s /\ Len(t) = Len(s) + 1 /\ IsInjective(t)
                           /\ ToSet(t) = ToSet(s) \cup {q}
    BY <1>3, <2>2, PushIs
  <2>4. kmem' = Unlocked(t) /\ Back(c, NoPage)
    BY <1>3, <1>12, <2>1, <2>3 DEF WriteList, Is
  <2>5. PICK h \in Nat : h = 0 /\ h = NoPage
    BY DEF NoPage
  <2>6. /\ BootTypes' /\ FirstRight' /\ OthersRight' /\ StartRight' /\ TableRight' /\ FlagsRight'
        /\ ReadRight' /\ kmem'.freelist = t
        /\ \A d \in Machine : d # c => cpu'[d] = cpu[d]
        /\ cpu'[c].at = cpu[c].then /\ cpu'[c].page = h /\ cpu'[c].stack = cpu[c].stack
        /\ cpu'[c].then = cpu[c].then
    BY <1>1, <1>3, <2>4, <2>5, Written
  <2>7. PagesEnough'
    <3>1. Len(t) = Len(s) + 1
      BY <2>3
    <3>2. CASE c # Boot1
      <4>1. Phase(Boot1) \in Locked /\ cpu'[Boot1] = cpu[Boot1]
        BY <1>1, <1>3, <2>6, <3>2 DEF BootInv, FirstRight, OthersRight
      <4> QED BY <1>1, <4>1 DEF PagesEnough
    <3>3. CASE c = Boot1
      <4>1. cpu[c].then \in {"kinit1", "kinit2", "scheduler"}
        BY <1>3, <1>12, <3>3 DEF BootInv, FirstRight
      <4>2. Phase(Boot1) = "kinit1" => Len(s) >= mp.next - 2 /\ mp.next <= Len(LowPages) + 1
        BY <1>2 DEF BootInv, PagesEnough
      <4>3. Phase(Boot1) = cpu[c].then /\ cpu'[Boot1].at = cpu[c].then
            /\ Phase(Boot1)' = cpu[c].then
        BY <1>1, <1>12, <2>6, <3>3, <4>1
      <4> QED BY <1>1, <1>6, <1>7, <2>6, <3>1, <4>1, <4>2, <4>3 DEF PagesEnough
    <3> QED BY <3>2, <3>3
  <2>8. \A p : Known(p) => Known(p)'
    BY <1>1, <1>3, <2>6 DEF Known, BootInv, FirstRight, OthersRight
  <2>9. \A d \in Machine : Holds(d)' => d # c /\ Holds(d)
    BY <1>1, <1>9, <2>5, <2>6 DEF Holds
  <2>10. PagesApart'
    <3>1. \A d \in Machine : cpu[d].stack # q /\ (Holds(d) /\ d # c => cpu[d].page # q)
      BY <2>1, <2>2 DEF BootInv, PagesApart
    <3>2. \A d \in Machine : /\ cpu[d].stack \notin ToSet(t)
                             /\ Holds(d) /\ d # c => cpu[d].page \notin ToSet(t)
      BY <1>3, <2>3, <3>1
    <3>3. \A d \in Machine : cpu'[d].stack = cpu[d].stack
                            /\ (Holds(d)' => d # c /\ Holds(d) /\ cpu'[d].page = cpu[d].page)
      BY <2>6, <2>9
    <3>4. IsInjective(t) /\ kmem'.freelist = t
      BY <2>3, <2>6
    <3> QED BY <1>1, <3>2, <3>3, <3>4 DEF BootInv, PagesApart
  <2>11. PagesKnown'
    <3>1. \A i \in DOMAIN t : t[i] \in ToSet(t)
      BY DEF ToSet
    <3>2. Known(q)
      BY <2>1, <2>2 DEF BootInv, PagesKnown
    <3>3. \A i \in DOMAIN t : Known(t[i])'
      BY <1>5, <2>3, <2>8, <3>1, <3>2
    <3> QED BY <1>1, <2>6, <2>8, <2>9, <3>3 DEF BootInv, PagesKnown
  <2> QED BY <2>6, <2>7, <2>10, <2>11 DEF BootInv
<1> QED BY <1>3, <1>10, <1>11, <1>12

\* freerange frees a page that nobody knows.
LEMMA FreerangeRight ==
  ASSUME BootInv, NEW c \in Machine, c = Boot1,
         NEW l \in {"kinit1", "kinit2"}, NEW pages,
         pages = IF l = "kinit1" THEN LowPages ELSE HighPages,
         cpu[c].at = l, mp.next <= Len(pages), Free(c, pages[mp.next], l),
         mp' = [mp EXCEPT !.next = @ + 1], UNCHANGED <<table, kmem, code, live>>
  PROVE  BootInv'
<1>1. /\ Machine' = Machine /\ Boot1' = Boot1 /\ Boot1 \in Machine /\ c \in Machine
      /\ cpu \in [Machine -> CpuState] /\ mp.next \in Nat
      /\ cpu[Boot1].at = "wait" => mp.next - 1 \in Machine
      /\ \A d \in Machine : cpu[d].at \in {"startap", "wait"} => d = Boot1
      /\ Machine \subseteq Nat
  BY Still
<1>2. /\ mp'.next = mp.next + 1 /\ mp'.ncpu = mp.ncpu /\ mp'.ismp = mp.ismp
      /\ mp' \in [ncpu : Nat, ismp : BOOLEAN, next : Nat \ {0}] /\ mp.next # 0
  <2>1. mp \in [ncpu : Nat, ismp : BOOLEAN, next : Nat \ {0}]
    BY DEF BootInv, BootTypes
  <2> QED BY <2>1
<1>3. pages \in Seq(Nat \ {NoPage}) /\ IsInjective(pages) /\ Len(pages) \in Nat
      /\ ToSet(LowPages) \cap ToSet(HighPages) = {}
  BY BootAssumption
<1>4. PICK i \in DOMAIN pages, q \in Nat \ {NoPage} : i = mp.next /\ q = pages[i]
  <2>1. mp.next \in DOMAIN pages
    BY <1>1, <1>2, <1>3
  <2> QED BY <1>3, <2>1
<1>5. /\ cpu' \in [Machine -> CpuState] /\ \A d \in Machine : d # c => cpu'[d] = cpu[d]
      /\ cpu'[c].at = "kfree" /\ cpu'[c].then = l
      /\ cpu'[c].page = q /\ cpu'[c].stack = cpu[c].stack
      /\ cpu'[c].timer = cpu[c].timer /\ cpu'[c].idt = cpu[c].idt
      /\ cpu'[c].started = cpu[c].started
  <2>1. cpu \in [Machine -> CpuState] /\ c \in Machine /\ Machine' = Machine
    BY <1>1
  <2>2. l \in CpuPlaces /\ q \in Nat /\ Free(c, q, l)
    BY <1>4, PlacesAre
  <2> QED BY <2>1, <2>2, FreeIs
<1>6. BootTypes' /\ FirstRight'
  BY <1>1, <1>2, <1>4, <1>5 DEF BootInv, BootTypes, FirstRight, OthersRight
<1>7. FlagsRight'
  <2>1. Phase(Boot1)' = Phase(Boot1) /\ cpu'[Boot1].timer = cpu[Boot1].timer
    BY <1>1, <1>5
  <2>2. \A d \in Machine : /\ Phase(d)' = Phase(d)
                           /\ cpu'[d].timer = cpu[d].timer /\ cpu'[d].idt = cpu[d].idt
    BY <1>5, <2>1
  <2> QED BY <1>1, <2>1, <2>2 DEF BootInv, FlagsRight
<1>8. ReadRight'
  BY <1>1, <1>2, <1>4, <1>5 DEF BootInv, ReadRight
<1>9. OthersRight' /\ TableRight'
  BY <1>1, <1>2, <1>5 DEF BootInv, OthersRight, TableRight, Listed
<1>10. PagesEnough'
  <2>1. mp.next <= Len(LowPages) \/ l # "kinit1"
    OBVIOUS
  <2>2. Len(kmem.freelist) \in Nat /\ Len(LowPages) \in Nat
    BY BootAssumption DEF BootInv, BootTypes, Lists
  <2> QED BY <1>1, <1>2, <1>5, <2>1, <2>2 DEF BootInv, PagesEnough
<1>11. StartRight'
  BY <1>1, <1>2, <1>5 DEF BootInv, StartRight, OthersRight
<1>12. ~ Known(q)
  <2>1. \A j \in DOMAIN pages : j < i => pages[j] # q
    BY <1>3, <1>4 DEF IsInjective
  <2>2. l = "kinit2" => q \notin ToSet(LowPages)
    BY <1>3, <1>4 DEF ToSet
  <2> QED BY <1>4, <2>1, <2>2 DEF Known
<1>13. Known(q)' /\ \A p : Known(p) => Known(p)'
  BY <1>1, <1>2, <1>4, <1>5 DEF Known, ToSet
<1>14. /\ \A d \in Machine : cpu[d].stack # q /\ (Holds(d) => cpu[d].page # q)
       /\ q \notin ToSet(kmem.freelist)
  BY <1>4, <1>12 DEF BootInv, PagesKnown, ToSet
<1>15. \A d \in Machine : d # c /\ Holds(d)' => Holds(d)
  BY <1>1, <1>5 DEF Holds
<1>16. \A d \in Machine : cpu'[d].stack = cpu[d].stack /\ (d # c => cpu'[d].page = cpu[d].page)
  BY <1>5
<1>17. PagesApart'
  BY <1>1, <1>5, <1>14, <1>15, <1>16 DEF BootInv, PagesApart
<1>18. PagesKnown'
  BY <1>1, <1>5, <1>13, <1>15, <1>16 DEF BootInv, PagesKnown
<1> QED BY <1>6, <1>7, <1>8, <1>9, <1>10, <1>11, <1>17, <1>18 DEF BootInv

LEMMA MpEntryIs ==
  ASSUME NEW e \in Entries, mp \in [ncpu : Nat, ismp : BOOLEAN, next : Nat \ {0}]
  PROVE  /\ MpEntry(e) \in [ncpu : Nat, ismp : BOOLEAN, next : Nat \ {0}]
         /\ e.type = "proc" =>
              /\ MpEntry(e).ncpu = mp.ncpu + 1 /\ MpEntry(e).next = mp.next + 1
              /\ MpEntry(e).ismp => mp.ismp /\ e.id = mp.ncpu
         /\ e.type # "proc" =>
              /\ MpEntry(e).ncpu = mp.ncpu
              /\ MpEntry(e).next = IF e.type = "other" THEN mp.next + 1 ELSE mp.next
              /\ MpEntry(e).ismp => mp.ismp
<1>1. e.type \in {"proc", "other", "unknown"}
  BY DEF Entries
<1>2. CASE e.type = "proc"
  <2>1. PICK x \in BOOLEAN : x <=> mp.ismp /\ e.id = mp.ncpu
    OBVIOUS
  <2>2. PICK a \in Nat, b \in Nat \ {0} : a = mp.ncpu + 1 /\ b = mp.next + 1
    OBVIOUS
  <2>3. PICK m : m = MpEntry(e) /\ m = [mp EXCEPT !.ismp = x, !.ncpu = a, !.next = b]
    BY <1>2, <2>1, <2>2 DEF MpEntry
  <2>4. /\ m \in [ncpu : Nat, ismp : BOOLEAN, next : Nat \ {0}]
        /\ m.ncpu = mp.ncpu + 1 /\ m.next = mp.next + 1 /\ m.ismp = x
    BY <2>2, <2>3
  <2> QED BY <1>2, <2>1, <2>3, <2>4
<1>3. CASE e.type = "other"
  <2>1. MpEntry(e) = [mp EXCEPT !.next = @ + 1]
    BY <1>3 DEF MpEntry
  <2> QED BY <1>3, <2>1
<1>4. CASE e.type = "unknown"
  <2>1. MpEntry(e) = [mp EXCEPT !.ismp = FALSE]
    BY <1>4 DEF MpEntry
  <2> QED BY <1>4, <2>1
<1> QED BY <1>1, <1>2, <1>3, <1>4

LEMMA MpinitRight ==
  ASSUME BootInv, NEW c \in Machine, c = Boot1, Mpinit
  PROVE  BootInv'
<1>1. /\ Machine' = Machine /\ Boot1' = Boot1 /\ Boot1 \in Machine /\ c \in Machine
      /\ cpu \in [Machine -> CpuState] /\ mp.next \in Nat
      /\ cpu[Boot1].at = "wait" => mp.next - 1 \in Machine
      /\ \A d \in Machine : cpu[d].at \in {"startap", "wait"} => d = Boot1
      /\ Machine \subseteq Nat /\ UNCHANGED <<table, kmem, code, live>>
  BY Still DEF Mpinit
<1>2. cpu[c].at = "mpinit" /\ Phase(Boot1) = "mpinit"
  BY DEF Mpinit, Is
<1>3. PICK es \in Seq(Entries), n \in Nat : es = table.entries /\ n = Len(es)
  BY BootAssumption DEF BootInv, BootTypes
<1>4. /\ mp \in [ncpu : Nat, ismp : BOOLEAN, next : Nat \ {0}] /\ mp.next \in Nat
      /\ mp.ncpu < mp.next /\ mp.next <= n + 1 /\ (mp.ismp => es # << >>) /\ mp.ncpu <= n
      /\ mp.ismp => \A k \in 0..(mp.ncpu - 1) : k \in Listed(table)
      /\ \A j \in 1..(mp.next - 1) : es[j].type = "proc" => mp.ncpu >= 1
  BY <1>2, <1>3 DEF BootInv, BootTypes, TableRight
<1>5. CASE mp.next <= n
  <2>1. mp.next \in 1..n
    BY <1>4, <1>5
  <2>2. PICK e \in Entries : e = es[mp.next] /\ (e.type = "proc" => e.id \in Listed(table))
    <3>1. mp.next \in DOMAIN es /\ es[mp.next] \in Entries
      BY <1>3, <2>1
    <3> QED BY <1>3, <3>1 DEF Listed, ToSet
  <2>3. mp' = MpEntry(e) /\ cpu' = cpu
    BY <1>3, <1>5, <2>2 DEF Mpinit
  <2>4. /\ mp' \in [ncpu : Nat, ismp : BOOLEAN, next : Nat \ {0}]
        /\ e.type = "proc" => /\ mp'.ncpu = mp.ncpu + 1 /\ mp'.next = mp.next + 1
                              /\ mp'.ismp => mp.ismp /\ e.id = mp.ncpu
        /\ e.type # "proc" => /\ mp'.ncpu = mp.ncpu /\ (mp'.ismp => mp.ismp)
                              /\ mp'.next = IF e.type = "other" THEN mp.next + 1 ELSE mp.next
    BY <1>4, <2>2, <2>3, MpEntryIs
  <2>5. TableRight'
    <3>1. mp'.ncpu < mp'.next /\ mp'.next <= n + 1 /\ (mp'.ismp => es # << >>) /\ mp'.ncpu <= n
      BY <1>4, <1>5, <2>4
    <3>2. ASSUME NEW j \in 1..(mp'.next - 1), es[j].type = "proc"
          PROVE  mp'.ncpu >= 1
      <4>1. CASE e.type = "proc"
        BY <1>4, <2>4, <4>1
      <4>2. CASE e.type # "proc"
        <5>1. j \in 1..(mp.next - 1)
          BY <1>4, <2>2, <2>4, <3>2, <4>2
        <5> QED BY <1>4, <2>4, <3>2, <4>2, <5>1
      <4> QED BY <4>1, <4>2
    <3>3. ASSUME mp'.ismp, NEW k \in 0..(mp'.ncpu - 1)
          PROVE  k \in Listed(table)
      <4>1. CASE k \in 0..(mp.ncpu - 1)
        BY <1>4, <2>4, <3>3, <4>1
      <4>2. CASE k \notin 0..(mp.ncpu - 1)
        <5>1. e.type = "proc" /\ k = mp.ncpu
          BY <1>4, <2>4, <3>3, <4>2
        <5> QED BY <2>2, <2>4, <3>3, <5>1
      <4> QED BY <4>1, <4>2
    <3>4. Listed(table)' = Listed(table)
      BY <1>1 DEF Listed
    <3> QED BY <1>1, <1>2, <1>3, <2>3, <3>1, <3>2, <3>3, <3>4 DEF TableRight
  <2>6. BootTypes' /\ FirstRight' /\ FlagsRight' /\ ReadRight'
    BY <1>1, <1>2, <2>3, <2>4 DEF BootInv, BootTypes, FirstRight, OthersRight, FlagsRight, ReadRight
  <2>7. OthersRight' /\ PagesEnough'
    BY <1>1, <1>2, <2>3 DEF BootInv, OthersRight, PagesEnough
  <2>8. StartRight'
    BY <1>1, <1>2, <2>3 DEF BootInv, StartRight
  <2>9. PagesApart' /\ PagesKnown'
    <3>1. \A p : Known(p) => Known(p)'
      BY <1>1, <1>2, <2>3 DEF Known
    <3>2. \A d \in Machine : Holds(d)' => Holds(d)
      BY <1>1, <1>2, <2>3 DEF Holds
    <3> QED BY <1>1, <2>3, <3>1, <3>2, PagesStay
  <2> QED BY <2>5, <2>6, <2>7, <2>8, <2>9 DEF BootInv
<1>6. CASE mp.next > n
  <2>1. Jump(c, "devices") /\ mp' = IF mp.ismp \/ es = << >> THEN mp ELSE [mp EXCEPT !.ncpu = 1]
    BY <1>3, <1>4, <1>6 DEF Mpinit
  <2>2. /\ mp' \in [ncpu : Nat, ismp : BOOLEAN, next : Nat \ {0}] /\ mp'.ismp = mp.ismp
        /\ mp'.next = mp.next
        /\ mp'.ncpu = IF mp.ismp \/ es = << >> THEN mp.ncpu ELSE 1
    BY <1>4, <2>1
  <2>3. /\ cpu' \in [Machine -> CpuState] /\ \A d \in Machine : d # c => cpu'[d] = cpu[d]
        /\ cpu'[c].at = "devices" /\ cpu'[c].seen = cpu[c].seen /\ cpu'[c].then = cpu[c].then
        /\ cpu'[c].page = cpu[c].page /\ cpu'[c].stack = cpu[c].stack
        /\ cpu'[c].timer = cpu[c].timer /\ cpu'[c].idt = cpu[c].idt
        /\ cpu'[c].started = cpu[c].started
    <3>1. cpu \in [Machine -> CpuState] /\ c \in Machine /\ Machine' = Machine
      BY <1>1
    <3> QED BY <2>1, <3>1, PlacesAre DEF Jump, CpuState
  <2>4. es # << >> => n >= 1
    BY <1>3
  <2>5. mp.ismp => mp.ncpu >= 1
    <3> SUFFICES ASSUME mp.ismp
                 PROVE  mp.ncpu >= 1
      OBVIOUS
    <3>1. table.bsp \in Listed(table)
      BY <1>3, <1>4, BootAssumption DEF BootInv, BootTypes
    <3>2. PICK j \in DOMAIN es : es[j].type = "proc"
      BY <1>3, <3>1 DEF Listed, ToSet
    <3>3. j \in 1..(mp.next - 1)
      BY <1>3, <1>4, <1>6
    <3> QED BY <1>4, <3>2, <3>3
  <2>6. TableRight'
    <3>1. Listed(table)' = Listed(table)
      BY <1>1 DEF Listed
    <3>2. es = << >> => n = 0
      BY <1>3
    <3> QED BY <1>1, <1>3, <1>4, <2>2, <2>3, <2>4, <2>5, <3>1, <3>2 DEF TableRight
  <2>7. BootTypes' /\ FirstRight' /\ FlagsRight' /\ ReadRight'
    BY <1>1, <1>2, <2>2, <2>3
       DEF BootInv, BootTypes, FirstRight, OthersRight, FlagsRight, ReadRight
  <2>8. OthersRight' /\ PagesEnough'
    BY <1>1, <1>2, <2>2, <2>3 DEF BootInv, OthersRight, PagesEnough
  <2>9. StartRight'
    BY <1>1, <1>2, <2>2, <2>3 DEF BootInv, StartRight, OthersRight
  <2>10. PagesApart' /\ PagesKnown'
    <3>1. \A p : Known(p) => Known(p)'
      BY <1>1, <1>2, <2>2, <2>3 DEF Known
    <3>2. \A d \in Machine : Holds(d)' => Holds(d)
      BY <1>1, <1>2, <2>2, <2>3 DEF Holds
    <3>3. \A d \in Machine : cpu'[d].page = cpu[d].page /\ cpu'[d].stack = cpu[d].stack
      BY <2>3
    <3> QED BY <1>1, <3>1, <3>2, <3>3, PagesStay
  <2> QED BY <2>6, <2>7, <2>8, <2>9, <2>10 DEF BootInv
<1> QED BY <1>4, <1>5, <1>6

\* A processor is started: its stack is the page of the boot processor.
LEMMA LapicstartapRight ==
  ASSUME BootInv, NEW c \in Machine, c = Boot1, Lapicstartap
  PROVE  BootInv'
<1>1. /\ Machine' = Machine /\ Boot1' = Boot1 /\ Boot1 \in Machine
      /\ cpu \in [Machine -> CpuState] /\ mp.next \in Nat
      /\ \A d \in Machine : cpu[d].at \in {"startap", "wait"} => d = Boot1
      /\ Machine \subseteq Nat /\ UNCHANGED <<table, mp, kmem, live>>
  BY Still DEF Lapicstartap
<1>2. cpu[c].at = "startap" /\ Phase(Boot1) = "startap" /\ code' = cpu[c].page
  BY DEF Lapicstartap, Is
<1>3. PICK n \in Machine : n = mp.next - 1 /\ n # c /\ cpu[n].at = "off"
  <2>1. mp.ismp /\ mp.next <= mp.ncpu /\ mp.next - 1 # Boot1
    BY <1>2 DEF BootInv, StartRight
  <2>2. mp.next - 1 \in 0..(mp.ncpu - 1)
    BY <2>1 DEF BootInv, BootTypes
  <2>3. mp.next - 1 \in Machine
    BY <2>1, <2>2 DEF BootInv, TableRight, Machine
  <2> QED BY <1>2, <2>1, <2>3 DEF BootInv, StartRight
<1>4. cpu' \in [Machine -> CpuState] /\ \A d \in Machine \ {c, n} : cpu'[d] = cpu[d]
  <2>1. cpu' = [cpu EXCEPT ![c].at = "wait", ![n].at = "entryother"]
    BY <1>3 DEF Lapicstartap
  <2>2. cpu \in [Machine -> CpuState]
    BY <1>1
  <2> QED BY <1>3, <2>1, <2>2, PlacesAre DEF CpuState
<1>5. /\ cpu'[c].at = "wait" /\ cpu'[c].page = cpu[c].page /\ cpu'[c].stack = cpu[c].stack
      /\ cpu'[c].timer = cpu[c].timer /\ cpu'[c].idt = cpu[c].idt
      /\ cpu'[c].started = cpu[c].started /\ cpu'[c].seen = cpu[c].seen
      /\ cpu'[n].at = "entryother" /\ cpu'[n].page = cpu[n].page /\ cpu'[n].stack = cpu[n].stack
      /\ cpu'[n].timer = cpu[n].timer /\ cpu'[n].idt = cpu[n].idt
      /\ cpu'[n].started = cpu[n].started /\ cpu'[n].seen = cpu[n].seen
  <2>1. cpu' = [cpu EXCEPT ![c].at = "wait", ![n].at = "entryother"]
    BY <1>3 DEF Lapicstartap
  <2>2. cpu \in [Machine -> CpuState]
    BY <1>1
  <2> QED BY <1>3, <2>1, <2>2 DEF CpuState
<1>6. BootTypes' /\ FirstRight'
  <2>1. code' \in Nat
    BY <1>1, <1>2 DEF CpuState
  <2> QED BY <1>1, <1>2, <1>3, <1>4, <1>5, <2>1 DEF BootInv, BootTypes, FirstRight
<1>7. FlagsRight' /\ ReadRight'
  BY <1>1, <1>2, <1>3, <1>4, <1>5 DEF BootInv, FlagsRight, ReadRight
<1>8. OthersRight' /\ TableRight' /\ PagesEnough'
  BY <1>1, <1>2, <1>3, <1>4, <1>5 DEF BootInv, OthersRight, TableRight, Listed, PagesEnough
<1>9. StartRight'
  BY <1>1, <1>2, <1>3, <1>4, <1>5 DEF BootInv, StartRight
<1>10. PagesApart' /\ PagesKnown'
  <2>1. \A p : Known(p) => Known(p)'
    BY <1>1, <1>2, <1>5 DEF Known
  <2>2. \A d \in Machine : Holds(d)' => Holds(d)
    BY <1>1, <1>2, <1>3, <1>4, <1>5 DEF Holds
  <2>3. \A d \in Machine : cpu'[d].page = cpu[d].page /\ cpu'[d].stack = cpu[d].stack
    BY <1>4, <1>5
  <2> QED BY <1>1, <2>1, <2>2, <2>3, PagesStay
<1> QED BY <1>6, <1>7, <1>8, <1>9, <1>10 DEF BootInv

\* It takes the stack over.
LEMMA EntryotherRight ==
  ASSUME BootInv, NEW c \in Machine, Entryother(c), UNCHANGED <<table, mp, kmem, code, live>>
  PROVE  BootInv'
<1>1. /\ Machine' = Machine /\ Boot1' = Boot1 /\ Boot1 \in Machine
      /\ cpu \in [Machine -> CpuState] /\ mp.next \in Nat
      /\ cpu[Boot1].at = "wait" => mp.next - 1 \in Machine
      /\ \A d \in Machine : cpu[d].at \in {"startap", "wait"} => d = Boot1
      /\ Machine \subseteq Nat
  BY Still
<1>2. /\ c # Boot1 /\ cpu[Boot1].at = "wait" /\ c = mp.next - 1 /\ Phase(Boot1) = "wait"
      /\ cpu[c].at = "entryother"
  BY <1>1 DEF BootInv, BootTypes, FirstRight, OthersRight, Is, Entryother
<1>3. PICK k \in Nat \ {NoPage} : k = code /\ k = cpu[Boot1].page
  BY <1>1, <1>2 DEF BootInv, StartRight, PagesEnough, CpuState
<1>4. /\ cpu' \in [Machine -> CpuState] /\ \A d \in Machine : d # c => cpu'[d] = cpu[d]
      /\ cpu'[c].at = "mpenter" /\ cpu'[c].seen = cpu[c].seen /\ cpu'[c].then = cpu[c].then
      /\ cpu'[c].page = cpu[c].page /\ cpu'[c].stack = k
      /\ cpu'[c].timer = cpu[c].timer /\ cpu'[c].idt = cpu[c].idt
      /\ cpu'[c].started = cpu[c].started
  <2>1. cpu \in [Machine -> CpuState] /\ c \in Machine /\ Machine' = Machine
    BY <1>1
  <2>2. cpu' = [cpu EXCEPT ![c].at = "mpenter", ![c].stack = k] /\ k \in Nat
    BY <1>3 DEF Entryother
  <2> QED BY <2>1, <2>2, PlacesAre DEF CpuState
<1>5. BootTypes' /\ FirstRight' /\ FlagsRight' /\ ReadRight'
  BY <1>1, <1>2, <1>4 DEF BootInv, BootTypes, FirstRight, OthersRight, FlagsRight, ReadRight
<1>6. OthersRight'
  BY <1>1, <1>2, <1>4 DEF BootInv, OthersRight
<1>7. TableRight'
  BY <1>1, <1>2, <1>4 DEF BootInv, TableRight, Listed
<1>8. PagesEnough'
  BY <1>1, <1>2, <1>4 DEF BootInv, PagesEnough
<1>9. StartRight'
  BY <1>1, <1>2, <1>3, <1>4 DEF BootInv, StartRight, OthersRight
<1>10. Holds(Boot1) /\ ~ Holds(Boot1)' /\ \A d \in Machine : Holds(d)' => Holds(d)
  BY <1>1, <1>2, <1>3, <1>4 DEF Holds
<1>11. \A d \in Machine : cpu'[d].page = cpu[d].page /\ (d # c => cpu'[d].stack = cpu[d].stack)
  BY <1>4
<1>12. \A p : Known(p) => Known(p)'
  BY <1>1, <1>2, <1>4 DEF Known
<1>13. PagesApart'
  <2>1. k \notin ToSet(kmem.freelist) /\ \A d \in Machine : cpu[d].stack # k
    BY <1>1, <1>3, <1>10 DEF BootInv, PagesApart
  <2>2. \A d \in Machine : d # Boot1 /\ Holds(d) => cpu[d].page # k
    BY <1>1, <1>3, <1>10 DEF BootInv, PagesApart
  <2> QED BY <1>1, <1>4, <1>10, <1>11, <2>1, <2>2 DEF BootInv, PagesApart
<1>14. PagesKnown'
  <2>1. Known(k)
    BY <1>1, <1>3, <1>10 DEF BootInv, PagesKnown
  <2> QED BY <1>1, <1>4, <1>10, <1>11, <1>12, <2>1 DEF BootInv, PagesKnown
<1> QED BY <1>5, <1>6, <1>7, <1>8, <1>9, <1>13, <1>14 DEF BootInv

LEMMA StepBoot == BootInv /\ [BootNext]_bootVars => BootInv'
<1> SUFFICES ASSUME BootInv, [BootNext]_bootVars
             PROVE  BootInv'
  OBVIOUS
<1>1. PICK b \in Machine : b = Boot1
  BY DEF Machine, Boot1
<1>2. CASE Kinit1
  <2>1. CASE mp.next <= Len(LowPages)
    <3>1. PICK l \in {"kinit1", "kinit2"} : l = "kinit1"
      OBVIOUS
    <3>2. PICK pages : pages = LowPages /\ pages = IF l = "kinit1" THEN LowPages ELSE HighPages
      BY <3>1
    <3>3. /\ cpu[b].at = l /\ Free(b, pages[mp.next], l) /\ mp.next <= Len(pages)
          /\ mp' = [mp EXCEPT !.next = @ + 1] /\ UNCHANGED <<table, kmem, code, live>>
      BY <1>1, <1>2, <2>1, <3>1, <3>2 DEF Kinit1, Freerange, Is
    <3> QED BY <1>1, <3>2, <3>3, FreerangeRight
  <2>2. CASE ~ (mp.next <= Len(LowPages))
    <3>1. /\ cpu[b].at = "kinit1" /\ Jump(b, "kvmalloc") /\ mp' = [mp EXCEPT !.next = 1]
          /\ kmem' = [kmem EXCEPT !.use_lock = FALSE] /\ UNCHANGED <<table, code, live>>
      BY <1>1, <1>2, <2>2 DEF Kinit1, Freerange, Is
    <3>2. mp.next > Len(LowPages)
      BY <2>2, BootAssumption DEF BootInv, BootTypes
    <3> QED BY <1>1, <3>1, <3>2, Kinit1EndRight
  <2> QED BY <2>1, <2>2
<1>3. CASE Kinit2
  <2>1. CASE mp.next <= Len(HighPages)
    <3>1. PICK l \in {"kinit1", "kinit2"} : l = "kinit2"
      OBVIOUS
    <3>2. PICK pages : pages = HighPages /\ pages = IF l = "kinit1" THEN LowPages ELSE HighPages
      BY <3>1
    <3>3. /\ cpu[b].at = l /\ Free(b, pages[mp.next], l) /\ mp.next <= Len(pages)
          /\ mp' = [mp EXCEPT !.next = @ + 1] /\ UNCHANGED <<table, kmem, code, live>>
      BY <1>1, <1>3, <2>1, <3>1, <3>2 DEF Kinit2, Freerange, Is
    <3> QED BY <1>1, <3>2, <3>3, FreerangeRight
  <2>2. CASE ~ (mp.next <= Len(HighPages))
    <3>1. /\ cpu[b].at = "kinit2" /\ Jump(b, After.kinit2) /\ mp' = [mp EXCEPT !.next = 1]
          /\ kmem' = [kmem EXCEPT !.use_lock = TRUE] /\ UNCHANGED <<table, code, live>>
      BY <1>1, <1>3, <2>2 DEF Kinit2, Freerange, Is
    <3>2. mp.next > Len(HighPages)
      BY <2>2, BootAssumption DEF BootInv, BootTypes
    <3> QED BY <1>1, <3>1, <3>2, Kinit2EndRight
  <2> QED BY <2>1, <2>2
<1>4. CASE Kvmalloc
  BY <1>1, <1>4, KvmallocRight, SwitchkvmRight DEF Kvmalloc, Switchkvm, Is
<1>5. CASE Mpinit \/ InitDevices
  BY <1>1, <1>5, MpinitRight, InitDevicesRight DEF InitDevices, Is
<1>6. CASE Startothers
  <2> DEFINE n == mp.next - 1
  <2>1. CASE /\ cpu[b].at = "startothers" /\ n >= mp.ncpu /\ Jump(b, After.startothers)
             /\ mp' = [mp EXCEPT !.next = 1] /\ UNCHANGED <<table, kmem, code, live>>
    BY <1>1, <2>1, StartEndRight
  <2>2. CASE /\ cpu[b].at = "startothers" /\ n < mp.ncpu /\ n = Self
             /\ mp' = [mp EXCEPT !.next = @ + 1] /\ UNCHANGED <<table, kmem, code, live, cpu>>
    BY <1>1, <2>2, StartSkipRight
  <2>3. CASE /\ cpu[b].at = "startothers" /\ n < mp.ncpu /\ n # Self /\ Alloc(b, "startap")
             /\ UNCHANGED <<table, mp, kmem, code, live>>
    BY <1>1, <2>3, StartAllocRight
  <2>4. CASE Lapicstartap
    BY <1>1, <2>4, LapicstartapRight
  <2>5. CASE /\ cpu[b].at = "wait" /\ cpu[n].started /\ Jump(b, "startothers")
             /\ mp' = [mp EXCEPT !.next = @ + 1] /\ UNCHANGED <<table, kmem, code, live>>
    BY <1>1, <2>5, StartWaitRight
  <2> QED BY <1>1, <1>6, <2>1, <2>2, <2>3, <2>4, <2>5 DEF Startothers, Is
<1>7. CASE Userinit
  BY <1>1, <1>7, UserinitRight, RunnableRight DEF Userinit, Is
<1>8. ASSUME NEW c \in Machine, CpuStep(c)
      PROVE  BootInv'
  <2>1. CASE ReadList(c) \/ WriteList(c)
    BY <2>1, ReadListRight, WriteListRight
  <2>2. CASE (Entryother(c) \/ Mpenter(c) \/ Lapicinit(c) \/ Mpmain(c))
             /\ UNCHANGED <<table, mp, kmem, code, live>>
    BY <2>2, EntryotherRight, MpenterRight, LapicinitRight, IdtinitRight, SetStartedRight
       DEF Mpmain
  <2>3. CASE RunProcess(c) /\ UNCHANGED <<table, mp, kmem, code, live>>
    <3>1. CASE cpu[c].at = "scheduler" /\ live /\ Alloc(c, "user")
      BY <2>3, <3>1, UserAllocRight
    <3>2. CASE cpu[c].at = "user" /\ cpu[c].page = NoPage /\ Jump(c, "scheduler")
      BY <2>3, <3>2, UserNoneRight
    <3>3. CASE cpu[c].at = "user" /\ cpu[c].page # NoPage /\ Free(c, cpu[c].page, "scheduler")
      BY <2>3, <3>3, UserFreeRight
    <3> QED BY <2>3, <3>1, <3>2, <3>3 DEF RunProcess, Is
  <2> QED BY <1>8, <2>1, <2>2, <2>3 DEF CpuStep
<1>9. CASE UNCHANGED bootVars
  <2>1. table' = table /\ mp' = mp /\ kmem' = kmem /\ code' = code /\ live' = live /\ cpu' = cpu
    BY <1>9 DEF bootVars
  <2>2. BootTypes' /\ FirstRight' /\ OthersRight' /\ StartRight'
    BY <2>1 DEF BootInv, BootTypes, FirstRight, OthersRight, StartRight, Machine, Boot1, Listed
  <2>3. TableRight' /\ FlagsRight' /\ ReadRight'
    BY <2>1 DEF BootInv, TableRight, FlagsRight, ReadRight, Machine, Boot1, Listed
  <2>4. PagesEnough'
    BY <2>1 DEF BootInv, PagesEnough, Boot1
  <2>5. Machine' = Machine /\ Boot1' = Boot1 /\ \A p : Known(p)' <=> Known(p)
    BY <2>1 DEF Known, Machine, Boot1, Listed
  <2>6. \A c \in Machine : Holds(c)' <=> Holds(c)
    BY <2>1, <2>5 DEF Holds
  <2>7. PagesApart' /\ PagesKnown'
    BY <2>1, <2>5, <2>6, PagesStay
  <2> QED BY <2>2, <2>3, <2>4, <2>7 DEF BootInv
<1> QED BY <1>2, <1>3, <1>4, <1>5, <1>6, <1>7, <1>8, <1>9 DEF BootNext, Main

LEMMA InitBoot == BootInit => BootInv
<1> SUFFICES ASSUME BootInit
             PROVE  BootInv
  OBVIOUS
<1>1. /\ table \in Tables /\ Boot1 \in Machine /\ live = FALSE /\ code = 0
      /\ mp = [ncpu |-> 0, ismp |-> table.entries # << >>, next |-> 1]
      /\ kmem = [freelist |-> << >>, lock |-> -1, use_lock |-> FALSE]
  BY DEF BootInit, Machine, Boot1, NoOne, NoPage
<1>2. /\ cpu = [c \in Machine |-> cpu[c]] /\ Boot1 = table.bsp
      /\ \A c \in Machine :
           /\ cpu[c] = [at |-> cpu[c].at, seen |-> << >>, then |-> cpu[c].at,
                         page |-> 0, stack |-> 0, pgdir |-> "entrypgdir",
                         timer |-> FALSE, idt |-> FALSE, started |-> FALSE]
           /\ c = Boot1 => cpu[c].at = "kinit1"
           /\ c # Boot1 => cpu[c].at = "off"
  BY DEF BootInit, NewCpu, NoPage, Boot1
<1>3. \A c \in Machine :
         /\ cpu[c].then = cpu[c].at /\ cpu[c].page = 0 /\ cpu[c].stack = 0 /\ cpu[c].seen = << >>
         /\ ~ cpu[c].timer /\ ~ cpu[c].idt /\ ~ cpu[c].started
         /\ cpu[c].at \in {"kinit1", "off"} /\ (cpu[c].at = "kinit1" <=> c = Boot1)
  BY <1>2
<1>4. << >> \in Lists /\ Len(<< >>) = 0 /\ ToSet(<< >>) = {} /\ IsInjective(<< >>)
  BY EmptySeq DEF Lists, ToSet, IsInjective
<1>5. BootTypes
  <2>1. ASSUME NEW c \in Machine
        PROVE  cpu[c] \in CpuState
    <3>1. PICK s \in CpuPlaces : s = cpu[c].at
      BY <1>3, PlacesAre
    <3>2. cpu[c] = [at |-> s, seen |-> << >>, then |-> s, page |-> 0, stack |-> 0,
                    pgdir |-> "entrypgdir", timer |-> FALSE, idt |-> FALSE, started |-> FALSE]
      BY <1>2, <3>1
    <3> QED BY <1>4, <3>1, <3>2 DEF CpuState
  <2>2. cpu \in [Machine -> CpuState]
    BY <1>2, <2>1
  <2>3. mp \in [ncpu : Nat, ismp : BOOLEAN, next : Nat \ {0}]
        /\ kmem \in [freelist : Lists, lock : Int, use_lock : BOOLEAN]
    BY <1>1, <1>4
  <2> QED BY <1>1, <2>2, <2>3 DEF BootTypes
<1>6. Len(table.entries) \in Nat
  BY <1>1, BootAssumption
<1>7. FirstRight /\ OthersRight /\ StartRight
  <2>1. Phase(Boot1) = "kinit1" /\ \A c \in Machine \ {Boot1} : Phase(c) = "off"
        /\ cpu[c].at = "off"
    BY <1>1, <1>3
  <2>2. FirstRight
    BY <1>1, <1>3, <2>1 DEF FirstRight
  <2>3. OthersRight
    BY <1>1, <1>3, <2>1 DEF OthersRight
  <2>4. StartRight
    BY <1>1, <1>3, <2>1 DEF StartRight
  <2> QED BY <2>2, <2>3, <2>4
<1>8. TableRight /\ FlagsRight /\ ReadRight
  <2>1. TableRight
    <3>1. mp.ncpu = 0 /\ mp.next = 1 /\ (mp.ismp <=> table.entries # << >>)
      BY <1>1
    <3>2. cpu[Boot1].at = "kinit1" /\ Phase(Boot1) = "kinit1"
      BY <1>1, <1>3
    <3> QED BY <1>6, <3>1, <3>2 DEF TableRight
  <2>2. FlagsRight
    BY <1>1, <1>3 DEF FlagsRight
  <2>3. ReadRight
    BY <1>1, <1>3 DEF ReadRight
  <2> QED BY <2>1, <2>2, <2>3
<1>9. \A c \in Machine : ~ Holds(c) /\ cpu[c].stack = 0
  BY <1>3 DEF Holds, NoPage
<1>10. PagesApart /\ PagesKnown
  <2>1. kmem.freelist = << >> /\ DOMAIN kmem.freelist = {} /\ ToSet(kmem.freelist) = {}
    BY <1>1, <1>4
  <2>2. PagesApart
    BY <1>4, <1>9, <2>1 DEF PagesApart, NoPage
  <2>3. PagesKnown
    BY <1>9, <2>1 DEF PagesKnown, NoPage
  <2> QED BY <2>2, <2>3
<1>11. PagesEnough
  <2>1. Len(LowPages) \in Nat
    BY BootAssumption
  <2>2. cpu[Boot1].at = "kinit1" /\ Phase(Boot1) = "kinit1" /\ Len(kmem.freelist) = 0 /\ mp.next = 1
    BY <1>1, <1>3, <1>4
  <2> QED BY <2>1, <2>2 DEF PagesEnough
<1> QED BY <1>5, <1>7, <1>8, <1>10, <1>11 DEF BootInv

LEMMA BootApartHolds == BootInv => BootApart
<1> SUFFICES ASSUME BootInv
             PROVE  BootApart
  OBVIOUS
<1>1. Boot1 \in Machine
  BY DEF Machine, Boot1
<1>2. ListKept
  <2>1. \A c, d \in Machine : {cpu[c].at, cpu[d].at} \subseteq {"kalloc2", "kfree2"} => c = d
    BY OneAtATime
  <2> QED BY <2>1 DEF ListKept, BootInv, ReadRight
<1>3. StacksRight
  <2>1. ASSUME NEW c \in Machine, cpu[c].at = "mpenter"
        PROVE  cpu[c].stack \in ToSet(LowPages)
    <3>1. cpu[Boot1].at = "wait" /\ Phase(Boot1) = "wait" /\ cpu[c].stack # NoPage
      BY <1>1, <2>1 DEF BootInv, FirstRight, OthersRight, StartRight
    <3>2. Known(cpu[c].stack)
      BY <3>1 DEF BootInv, PagesKnown
    <3> QED BY <3>1, <3>2 DEF Known
  <2>2. \A c, d \in Machine : Is(d, "user") /\ cpu[d].page # NoPage => cpu[d].page # cpu[c].stack
    BY DEF BootInv, PagesApart, Holds, Is
  <2> QED BY <2>1, <2>2 DEF StacksRight, BootInv, PagesApart
<1>4. InterruptsTaken
  <2> SUFFICES ASSUME NEW c \in Machine, cpu[c].at = "user"
               PROVE  cpu[c].idt /\ cpu[c].timer /\ (cpu[IdeCpu].started \/ IdeCpu = Boot1)
    BY DEF InterruptsTaken, Is
  <2>1. cpu[c].idt /\ cpu[c].timer
    BY DEF BootInv, FlagsRight
  <2>2. Phase(Boot1) \in Locked
    BY DEF BootInv, FirstRight, OthersRight
  <2>3. CASE mp.ismp
    <3>1. mp.ncpu >= 1 /\ mp.ncpu \in Nat /\ IdeCpu = mp.ncpu - 1
      BY <2>2, <2>3 DEF BootInv, BootTypes, TableRight, IdeCpu
    <3>2. IdeCpu \in Machine /\ IdeCpu < mp.ncpu
      BY <2>3, <3>1 DEF BootInv, TableRight, Machine
    <3> QED BY <2>1, <2>2, <2>3, <3>2 DEF BootInv, StartRight
  <2>4. CASE ~ mp.ismp
    BY <2>1, <2>4 DEF IdeCpu
  <2> QED BY <2>3, <2>4
<1> QED BY <1>2, <1>3, <1>4 DEF BootApart

\* However the processors get on while they come up, and for any good table: nobody changes
\* the free list between another's read and write of it, the stacks are apart and mapped,
\* and interrupts are taken where processes run (main, startothers, kinit1, kinit2, mpmain).
THEOREM ProcessorsApart == BootSpec => []BootApart
<1>1. BootInit => BootInv
  BY InitBoot
<1>2. BootInv /\ [BootNext]_bootVars => BootInv'
  BY StepBoot
<1>3. BootInv => BootApart
  BY BootApartHolds
<1> QED BY <1>1, <1>2, <1>3, PTL DEF BootSpec
=============================================================================
