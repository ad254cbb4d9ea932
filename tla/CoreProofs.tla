----------------------------- MODULE CoreProofs -----------------------------
(***************************************************************************)
(* Proofs about Spinlock, for every set of CPUs and of locks and for every *)
(* nesting order and interrupt discipline of the callers, and about Log,   *)
(* for every number of processes, blocks, contents and for every            *)
(* MAXOPBLOCKS, when no two calls of log_write overlap.                    *)
(***************************************************************************)
EXTENDS Spinlock, Log, TLAPS, FiniteSetTheorems

-----------------------------------------------------------------------------
(* Spinlock.                                                               *)

\* How many pushcli of an activity have no popcli yet.
Depth(c, v) ==
  Cardinality(held[c][v])
    + (IF at[c][v] \in {"holding", "xchg", "popcli"} THEN 1 ELSE 0)

\* The flag of an activity outside its critical sections.
Flag(c) == IF inIntr[c] THEN FALSE ELSE base[c]

\* The fields of a lock say who holds it.
LockOK ==
  /\ MutualExclusion
  /\ \A c \in CPUs, v \in Levels, l \in Locks : l \in held[c][v] => locked[l]
  /\ \A l \in Locks, c \in CPUs : owner[l] = c => l \in HeldBy(c)
  /\ \A c \in CPUs, v \in Levels, l \in Locks :
       l \in held[c][v] =>
         \/ owner[l] = c
         \/ owner[l] = NoCpu /\ at[c][v] \in {"setcpu", "unlock"} /\ want[c][v] = l

ArgOK ==
  \A c \in CPUs, v \in Levels :
    /\ at[c][v] \in {"pushcli", "cli", "holding", "xchg"} => want[c][v] \notin held[c][v]
    /\ at[c][v] \in {"setcpu", "unlock"} => want[c][v] \in held[c][v]
    /\ at[c][v] = "unlock" => owner[want[c][v]] = NoCpu

\* The count, the saved flag and the flag of every CPU.
FlagOK ==
  \A c \in CPUs :
    /\ ncli[c] = Depth(c, Level(c))
    /\ ncli[c] = 0 => intr[c] = Flag(c)
    /\ ncli[c] > 0 => ~ intr[c] /\ intena[c] = Flag(c)
    /\ Here(c) = "cli" /\ ncli[c] = 0 => eflags[c][Level(c)] = Flag(c)

\* A handler runs on top of a thread that holds no lock.
NestOK ==
  \A c \in CPUs :
    /\ ~ inIntr[c] => at[c]["handler"] = "run" /\ held[c]["handler"] = {}
    /\ inIntr[c] =>
         /\ base[c]
         /\ at[c]["thread"] \in {"run", "pushcli", "cli"}
         /\ held[c]["thread"] = {}
         /\ at[c]["thread"] = "cli" => eflags[c]["thread"]

LockInv == LockTypeOK /\ LockOK /\ ArgOK /\ FlagOK /\ NestOK /\ NeverPanics

-----------------------------------------------------------------------------
LEMMA LockInitInv == LockInit => LockInv
  <1> SUFFICES ASSUME LockInit PROVE LockInv
    OBVIOUS
  <1>1. LockTypeOK
    BY DEF LockInit, LockTypeOK, LockPcs, Levels
  <1>2. LockOK /\ ArgOK /\ NestOK /\ NeverPanics
    BY SpinlockAssumption
    DEF LockInit, LockOK, MutualExclusion, ArgOK, NestOK, NeverPanics, Levels
  <1>3. FlagOK
    <2>1. \A c \in CPUs, v \in Levels : Depth(c, v) = 0
      BY FS_EmptySet DEF LockInit, Depth
    <2>. QED  BY <2>1 DEF LockInit, FlagOK, Flag, Level, Here, Levels
  <1>. QED  BY <1>1, <1>2, <1>3 DEF LockInv

\* Extensionality for the levels.
LEMMA HeldByAny ==
  ASSUME NEW c \in CPUs, NEW l
  PROVE  l \in HeldBy(c) <=> \E v \in Levels : l \in held[c][v]
  BY DEF HeldBy, Levels

LEMMA LevelType == \A c \in CPUs : Level(c) \in Levels
  BY DEF Level, Levels

LEMMA HeldFinite ==
  ASSUME LockTypeOK, NEW c \in CPUs, NEW v \in Levels
  PROVE  IsFiniteSet(held[c][v]) /\ Cardinality(held[c][v]) \in Nat
  <1>1. held[c][v] \subseteq Locks
    BY DEF LockTypeOK
  <1>2. IsFiniteSet(held[c][v])
    BY <1>1, SpinlockAssumption, FS_Subset
  <1>. QED  BY <1>2, FS_CardinalityType

\* A lock an activity asks for is not held by its CPU at all.
LEMMA NotMine ==
  ASSUME LockInv, NEW c \in CPUs, Here(c) \in {"pushcli", "cli", "holding", "xchg"}
  PROVE  Arg(c) \notin HeldBy(c)
  BY LevelType DEF LockInv, ArgOK, NestOK, Here, Arg, HeldBy, Level, Levels

\* How a step changes the entry of one activity of one CPU.
LEMMA Nested ==
  ASSUME NEW S, NEW f \in [CPUs -> [Levels -> S]], NEW c \in CPUs, NEW v \in Levels,
         NEW x \in S, NEW g, g = [f EXCEPT ![c][v] = x]
  PROVE  /\ g \in [CPUs -> [Levels -> S]]
         /\ \A d \in CPUs, w \in Levels : g[d][w] = IF d = c /\ w = v THEN x ELSE f[d][w]
  OBVIOUS

-----------------------------------------------------------------------------
\* A step that only moves the program counter of an activity, to a place with
\* as many pushcli behind it and where it holds as many locks.
LEMMA AcquireInv ==
  ASSUME LockInv, NEW c \in CPUs, NEW l \in Locks, Acquire(c, l)
  PROVE  LockInv'
  <1> USE LevelType DEF LockInv, Acquire, Here, Goto
  <1>1. LockTypeOK'
    BY DEF LockTypeOK, LockPcs
  <1>2. LockOK'
    BY DEF LockTypeOK, LockOK, MutualExclusion, HeldBy
  <1>3. ArgOK'
    BY DEF LockTypeOK, ArgOK, MayTake, Mine
  <1>4. FlagOK'
    BY DEF LockTypeOK, FlagOK, Depth, Level, Flag
  <1>5. NestOK' /\ NeverPanics'
    BY DEF LockTypeOK, NestOK, NeverPanics, Level
  <1>. QED  BY <1>1, <1>2, <1>3, <1>4, <1>5

LEMMA ReadEflagsInv ==
  ASSUME LockInv, NEW c \in CPUs, ReadEflags(c)
  PROVE  LockInv'
  <1> USE LevelType DEF LockInv, ReadEflags, Here, Goto
  <1>1. LockTypeOK'
    BY DEF LockTypeOK, LockPcs
  <1>2. LockOK'
    BY DEF LockTypeOK, LockOK, MutualExclusion, HeldBy
  <1>3. ArgOK'
    BY DEF LockTypeOK, ArgOK
  <1>4. FlagOK'
    BY DEF LockTypeOK, FlagOK, Depth, Level, Flag
  <1>5. NestOK' /\ NeverPanics'
    BY DEF LockTypeOK, NestOK, NeverPanics, Level
  <1>. QED  BY <1>1, <1>2, <1>3, <1>4, <1>5

LEMMA CliInv ==
  ASSUME LockInv, NEW c \in CPUs, Cli(c)
  PROVE  LockInv'
  <1> USE DEF LockInv
  <1>1. PICK v \in Levels : v = Level(c)
    BY LevelType
  <1>2. /\ at[c][v] = "cli"
        /\ UNCHANGED <<locked, owner, base, inIntr, want, eflags, held, lockPanic>>
        /\ \A d \in CPUs : Level(d)' = Level(d) /\ Flag(d)' = Flag(d)
    BY <1>1 DEF Cli, Here, Level, Flag
  <1>3. /\ at' \in [CPUs -> [Levels -> LockPcs]]
        /\ \A d \in CPUs, w \in Levels :
             at'[d][w] = IF d = c /\ w = v THEN "holding" ELSE at[d][w]
    BY <1>1, Nested DEF LockTypeOK, Cli, Goto, LockPcs
  <1>4. /\ ncli' \in [CPUs -> Nat] /\ intr' \in [CPUs -> BOOLEAN]
        /\ ncli'[c] = ncli[c] + 1 /\ ~ intr'[c]
        /\ \A d \in CPUs : d # c => ncli'[d] = ncli[d] /\ intr'[d] = intr[d]
    BY DEF Cli, LockTypeOK, Pushed
  <1>5. /\ intena' \in [CPUs -> BOOLEAN]
        /\ intena'[c] = IF ncli[c] = 0 THEN eflags[c][v] ELSE intena[c]
        /\ \A d \in CPUs : d # c => intena'[d] = intena[d]
    BY <1>1 DEF Cli, LockTypeOK, Intena
  <1>6. LockTypeOK'
    BY <1>2, <1>3, <1>4, <1>5 DEF LockTypeOK
  <1>7. LockOK'
    BY <1>2, <1>3 DEF LockOK, MutualExclusion, HeldBy
  <1>8. ArgOK'
    BY <1>2, <1>3 DEF ArgOK
  <1>9. FlagOK'
    <2>1. Depth(c, v)' = Depth(c, v) + 1
      BY <1>2, <1>3, HeldFinite DEF Depth
    <2>2. \A d \in CPUs, w \in Levels : d # c => Depth(d, w)' = Depth(d, w)
      BY <1>2, <1>3 DEF Depth
    <2>3. /\ ncli[c] = Depth(c, v) /\ ncli[c] \in Nat
          /\ ncli[c] = 0 => eflags[c][v] = Flag(c)
          /\ ncli[c] # 0 => intena[c] = Flag(c)
      BY <1>1, <1>2 DEF FlagOK, LockTypeOK, Here
    <2>4. /\ intena'[c] = Flag(c)' /\ ncli'[c] = Depth(c, Level(c))' /\ ncli'[c] > 0
      BY <1>1, <1>2, <1>4, <1>5, <2>1, <2>3
    <2>5. ASSUME NEW d \in CPUs, d # c
          PROVE  /\ ncli'[d] = Depth(d, Level(d))'
                 /\ ncli'[d] = 0 => intr'[d] = Flag(d)'
                 /\ ncli'[d] > 0 => ~ intr'[d] /\ intena'[d] = Flag(d)'
                 /\ Here(d)' = "cli" /\ ncli'[d] = 0 => eflags'[d][Level(d)'] = Flag(d)'
      BY <1>2, <1>3, <1>4, <1>5, <2>2, <2>5, LevelType DEF FlagOK, Here
    <2>. QED  BY <1>4, <2>4, <2>5 DEF FlagOK
  <1>10. NestOK' /\ NeverPanics'
    BY <1>1, <1>2, <1>3 DEF NestOK, NeverPanics, Level, Levels
  <1>. QED  BY <1>6, <1>7, <1>8, <1>9, <1>10

LEMMA CheckHoldingInv ==
  ASSUME LockInv, NEW c \in CPUs, CheckHolding(c)
  PROVE  LockInv'
  <1> USE DEF LockInv
  <1>1. PICK v \in Levels : v = Level(c)
    BY LevelType
  <1>2. ~ Holding(c, Arg(c)) /\ at[c][v] = "holding"
    BY <1>1, NotMine DEF LockTypeOK, Arg, Holding, LockOK, CheckHolding, Here
  <1>3. /\ at' = [at EXCEPT ![c][v] = "xchg"]
        /\ UNCHANGED <<locked, owner, ncli, intena, intr, base, inIntr, want, eflags,
                       held, lockPanic>>
    BY <1>1, <1>2 DEF CheckHolding, Goto
  <1>4. /\ at' \in [CPUs -> [Levels -> LockPcs]]
        /\ \A d \in CPUs, w \in Levels :
             at'[d][w] = IF d = c /\ w = v THEN "xchg" ELSE at[d][w]
    BY <1>3, Nested DEF LockTypeOK, LockPcs
  <1>5. LockTypeOK'
    BY <1>3, <1>4 DEF LockTypeOK
  <1>6. LockOK'
    BY <1>2, <1>3, <1>4 DEF LockOK, MutualExclusion, HeldBy
  <1>7. ArgOK'
    BY <1>2, <1>3, <1>4 DEF ArgOK
  <1>8. FlagOK'
    <2>1. /\ \A d \in CPUs : Level(d)' = Level(d) /\ Flag(d)' = Flag(d)
          /\ \A d \in CPUs, w \in Levels : Depth(d, w)' = Depth(d, w)
      BY <1>2, <1>3, <1>4 DEF Depth, Level, Flag
    <2>. QED  BY <1>2, <1>3, <1>4, <2>1, LevelType DEF FlagOK, Here
  <1>9. NestOK' /\ NeverPanics'
    BY <1>1, <1>3, <1>4 DEF NestOK, NeverPanics, Level, Levels
  <1>. QED  BY <1>5, <1>6, <1>7, <1>8, <1>9

LEMMA XchgInv ==
  ASSUME LockInv, NEW c \in CPUs, Xchg(c)
  PROVE  LockInv'
  <1> USE DEF LockInv
  <1>1. PICK v \in Levels : v = Level(c)
    BY LevelType
  <1>2. PICK l \in Locks : l = want[c][v]
    BY DEF LockTypeOK
  <1>3. /\ at[c][v] = "xchg" /\ ~ locked[l]
        /\ UNCHANGED <<owner, ncli, intena, intr, base, inIntr, want, eflags, lockPanic>>
        /\ \A d \in CPUs : Level(d)' = Level(d) /\ Flag(d)' = Flag(d)
    BY <1>1, <1>2 DEF Xchg, Here, Arg, Free, Level, Flag
  <1>4. /\ locked' \in [Locks -> BOOLEAN]
        /\ \A k \in Locks : locked'[k] <=> k = l \/ locked[k]
    BY <1>1, <1>2 DEF LockTypeOK, Xchg, Arg
  <1>5. /\ at' \in [CPUs -> [Levels -> LockPcs]]
        /\ \A d \in CPUs, w \in Levels :
             at'[d][w] = IF d = c /\ w = v THEN "setcpu" ELSE at[d][w]
    BY <1>1, Nested DEF LockTypeOK, Xchg, Goto, LockPcs
  <1>6. /\ held' \in [CPUs -> [Levels -> SUBSET Locks]]
        /\ \A d \in CPUs, w \in Levels :
             held'[d][w] = IF d = c /\ w = v THEN held[c][v] \cup {l} ELSE held[d][w]
    <2>1. /\ held[c][v] \cup {l} \in SUBSET Locks
          /\ held' = [held EXCEPT ![c][v] = held[c][v] \cup {l}]
      BY <1>1, <1>2 DEF LockTypeOK, Xchg, Arg
    <2>. QED  BY <2>1, Nested DEF LockTypeOK
  <1>7. \A d \in CPUs, w \in Levels : l \notin held[d][w]
    BY <1>3 DEF LockOK
  <1>8. LockTypeOK'
    BY <1>3, <1>4, <1>5, <1>6 DEF LockTypeOK
  <1>9. LockOK'
    <2>1. owner[l] = NoCpu
      BY <1>7, HeldByAny DEF LockTypeOK, LockOK
    <2>2. MutualExclusion'
      BY <1>6, <1>7 DEF LockOK, MutualExclusion
    <2>3. \A d \in CPUs, w \in Levels, k \in Locks : k \in held'[d][w] => locked'[k]
      BY <1>4, <1>6 DEF LockOK
    <2>4. \A k \in Locks, d \in CPUs : owner'[k] = d => k \in HeldBy(d)'
      <3>1. \A d \in CPUs : HeldBy(d) \subseteq HeldBy(d)'
        BY <1>6 DEF HeldBy, Levels
      <3>. QED  BY <1>3, <3>1 DEF LockOK
    <2>5. ASSUME NEW d \in CPUs, NEW w \in Levels, NEW k \in Locks, k \in held'[d][w]
          PROVE  \/ owner'[k] = d
                 \/ owner'[k] = NoCpu /\ at'[d][w] \in {"setcpu", "unlock"} /\ want'[d][w] = k
      <3>1. CASE k = l
        BY <1>2, <1>3, <1>5, <1>6, <1>7, <2>1, <2>5, <3>1
      <3>2. CASE k # l
        BY SMTT(60), <1>3, <1>5, <1>6, <2>5, <3>2 DEF LockOK
      <3>. QED  BY <3>1, <3>2
    <2>. QED  BY <2>2, <2>3, <2>4, <2>5 DEF LockOK
  <1>10. ArgOK'
    BY <1>2, <1>3, <1>5, <1>6 DEF ArgOK
  <1>11. FlagOK'
    <2>1. held'[c][v] = held[c][v] \cup {l} /\ l \notin held[c][v]
      BY <1>6, <1>7
    <2>2. Cardinality(held'[c][v]) = Cardinality(held[c][v]) + 1
      BY <2>1, HeldFinite, FS_AddElement
    <2>3. Depth(c, v)' = Depth(c, v)
      BY <1>3, <1>5, <2>2, HeldFinite DEF Depth
    <2>4. \A d \in CPUs, w \in Levels : d # c => Depth(d, w)' = Depth(d, w)
      BY <1>5, <1>6 DEF Depth
    <2>. QED  BY <1>1, <1>3, <1>5, <2>3, <2>4, LevelType DEF FlagOK, Here
  <1>12. NestOK' /\ NeverPanics'
    <2>1. ~ inIntr[c] => v = "thread"
      BY <1>1 DEF Level
    <2>2. inIntr[c] => v = "handler"
      BY <1>1 DEF Level
    <2>. QED  BY <1>3, <1>5, <1>6, <2>1, <2>2 DEF NestOK, NeverPanics, Levels
  <1>. QED  BY <1>8, <1>9, <1>10, <1>11, <1>12

LEMMA SetCpuInv ==
  ASSUME LockInv, NEW c \in CPUs, SetCpu(c)
  PROVE  LockInv'
  <1> USE DEF LockInv
  <1>1. PICK v \in Levels : v = Level(c)
    BY LevelType
  <1>2. PICK l \in Locks : l = want[c][v]
    BY DEF LockTypeOK
  <1>3. /\ at[c][v] = "setcpu" /\ l \in held[c][v]
        /\ UNCHANGED <<locked, ncli, intena, intr, base, inIntr, want, eflags, held,
                       lockPanic>>
        /\ \A d \in CPUs : Level(d)' = Level(d) /\ Flag(d)' = Flag(d)
    BY <1>1, <1>2 DEF SetCpu, Here, ArgOK, Level, Flag
  <1>4. /\ owner' \in [Locks -> CPUs \cup {NoCpu}]
        /\ \A k \in Locks : owner'[k] = IF k = l THEN c ELSE owner[k]
    BY <1>1, <1>2 DEF LockTypeOK, SetCpu, Arg
  <1>5. /\ at' \in [CPUs -> [Levels -> LockPcs]]
        /\ \A d \in CPUs, w \in Levels :
             at'[d][w] = IF d = c /\ w = v THEN "run" ELSE at[d][w]
    BY <1>1, Nested DEF LockTypeOK, SetCpu, Goto, LockPcs
  <1>6. LockTypeOK'
    BY <1>3, <1>4, <1>5 DEF LockTypeOK
  <1>7. LockOK'
    <2>1. MutualExclusion'
      BY <1>3 DEF LockOK, MutualExclusion
    <2>2. \A d \in CPUs, w \in Levels, k \in Locks : k \in held'[d][w] => locked'[k]
      BY <1>3 DEF LockOK
    <2>3. \A k \in Locks, d \in CPUs : owner'[k] = d => k \in HeldBy(d)'
      BY <1>3, <1>4, HeldByAny DEF LockOK, HeldBy
    <2>4. ASSUME NEW d \in CPUs, NEW w \in Levels, NEW k \in Locks, k \in held'[d][w]
          PROVE  \/ owner'[k] = d
                 \/ owner'[k] = NoCpu /\ at'[d][w] \in {"setcpu", "unlock"} /\ want'[d][w] = k
      <3>1. CASE k = l
        <4>1. d = c
          BY <1>3, <2>4, <3>1 DEF LockOK, MutualExclusion
        <4>. QED  BY <1>4, <3>1, <4>1
      <3>2. CASE k # l
        BY <1>2, <1>3, <1>4, <1>5, <2>4, <3>2 DEF LockOK
      <3>. QED  BY <3>1, <3>2
    <2>. QED  BY <2>1, <2>2, <2>3, <2>4 DEF LockOK
  <1>8. ArgOK'
    <2>1. ASSUME NEW d \in CPUs, NEW w \in Levels, at'[d][w] = "unlock"
          PROVE  owner'[want'[d][w]] = NoCpu
      <3>0. at[d][w] = "unlock"
        BY <1>5, <2>1
      <3>1. want[d][w] \in held[d][w] /\ want[d][w] \in Locks
        BY <3>0 DEF ArgOK, LockTypeOK
      <3>2. want[d][w] # l
        BY <1>3, <1>5, <2>1, <3>1 DEF LockOK, MutualExclusion
      <3>. QED  BY <1>3, <1>4, <3>0, <3>1, <3>2 DEF ArgOK
    <2>. QED  BY <1>3, <1>5, <2>1 DEF ArgOK
  <1>9. FlagOK'
    <2>1. \A d \in CPUs, w \in Levels : Depth(d, w)' = Depth(d, w)
      BY <1>3, <1>5 DEF Depth
    <2>. QED  BY <1>1, <1>3, <1>5, <2>1, LevelType DEF FlagOK, Here
  <1>10. NestOK' /\ NeverPanics'
    BY <1>1, <1>3, <1>5 DEF NestOK, NeverPanics, Level, Levels
  <1>. QED  BY <1>6, <1>7, <1>8, <1>9, <1>10

LEMMA ReleaseInv ==
  ASSUME LockInv, NEW c \in CPUs, NEW l \in Locks, Release(c, l)
  PROVE  LockInv'
  <1> USE DEF LockInv
  <1>1. PICK v \in Levels : v = Level(c)
    BY LevelType
  <1>2. at[c][v] = "run" /\ l \in held[c][v] /\ Holding(c, l)
    BY <1>1 DEF Release, Here, Mine, LockOK, Holding
  <1>3. /\ UNCHANGED <<locked, ncli, intena, intr, base, inIntr, eflags, held, lockPanic>>
        /\ \A d \in CPUs : Level(d)' = Level(d) /\ Flag(d)' = Flag(d)
    BY <1>2 DEF Release, Level, Flag
  <1>4. /\ owner' \in [Locks -> CPUs \cup {NoCpu}]
        /\ \A k \in Locks : owner'[k] = IF k = l THEN NoCpu ELSE owner[k]
    BY <1>2 DEF LockTypeOK, Release
  <1>5. /\ at' \in [CPUs -> [Levels -> LockPcs]]
        /\ \A d \in CPUs, w \in Levels :
             at'[d][w] = IF d = c /\ w = v THEN "unlock" ELSE at[d][w]
    <2>1. at' = [at EXCEPT ![c][v] = "unlock"]
      BY <1>1, <1>2 DEF Release, Goto
    <2>. QED  BY <2>1, Nested DEF LockTypeOK, LockPcs
  <1>6. /\ want' \in [CPUs -> [Levels -> Locks]]
        /\ \A d \in CPUs, w \in Levels :
             want'[d][w] = IF d = c /\ w = v THEN l ELSE want[d][w]
    BY <1>1, Nested DEF LockTypeOK, Release
  <1>7. LockTypeOK'
    BY <1>3, <1>4, <1>5, <1>6 DEF LockTypeOK
  <1>8. LockOK'
    <2>1. MutualExclusion'
      BY <1>3 DEF LockOK, MutualExclusion
    <2>2. \A d \in CPUs, w \in Levels, k \in Locks : k \in held'[d][w] => locked'[k]
      BY <1>3 DEF LockOK
    <2>3. \A k \in Locks, d \in CPUs : owner'[k] = d => k \in HeldBy(d)'
      BY <1>3, <1>4, SpinlockAssumption DEF LockOK, HeldBy
    <2>4. ASSUME NEW d \in CPUs, NEW w \in Levels, NEW k \in Locks, k \in held'[d][w]
          PROVE  \/ owner'[k] = d
                 \/ owner'[k] = NoCpu /\ at'[d][w] \in {"setcpu", "unlock"} /\ want'[d][w] = k
      <3>1. CASE k = l
        <4>1. d = c /\ w = v
          BY <1>2, <1>3, <2>4, <3>1 DEF LockOK, MutualExclusion
        <4>. QED  BY <1>4, <1>5, <1>6, <3>1, <4>1
      <3>2. CASE k # l
        <4>1. k \in held[d][w]
          BY <1>3, <2>4
        <4>2. \/ owner[k] = d
              \/ owner[k] = NoCpu /\ at[d][w] \in {"setcpu", "unlock"} /\ want[d][w] = k
          BY <4>1 DEF LockOK
        <4>. QED  BY <1>2, <1>4, <1>5, <1>6, <3>2, <4>2
      <3>. QED  BY <3>1, <3>2
    <2>. QED  BY <2>1, <2>2, <2>3, <2>4 DEF LockOK
  <1>9. ArgOK'
    BY <1>2, <1>3, <1>4, <1>5, <1>6 DEF ArgOK, LockTypeOK
  <1>10. FlagOK'
    <2>1. \A d \in CPUs, w \in Levels : Depth(d, w)' = Depth(d, w)
      BY <1>2, <1>3, <1>5 DEF Depth
    <2>. QED  BY <1>1, <1>3, <1>5, <2>1, LevelType DEF FlagOK, Here
  <1>11. NestOK' /\ NeverPanics'
    BY <1>1, <1>2, <1>3, <1>5 DEF NestOK, NeverPanics, Level, Levels
  <1>. QED  BY <1>7, <1>8, <1>9, <1>10, <1>11

LEMMA UnlockInv ==
  ASSUME LockInv, NEW c \in CPUs, Unlock(c)
  PROVE  LockInv'
  <1> USE DEF LockInv
  <1>1. PICK v \in Levels : v = Level(c)
    BY LevelType
  <1>2. PICK l \in Locks : l = want[c][v]
    BY DEF LockTypeOK
  <1>3. /\ at[c][v] = "unlock" /\ l \in held[c][v]
        /\ UNCHANGED <<owner, ncli, intena, intr, base, inIntr, want, eflags, lockPanic>>
        /\ \A d \in CPUs : Level(d)' = Level(d) /\ Flag(d)' = Flag(d)
    BY <1>1, <1>2 DEF Unlock, Here, ArgOK, Level, Flag
  <1>4. /\ locked' \in [Locks -> BOOLEAN]
        /\ \A k \in Locks : locked'[k] <=> k # l /\ locked[k]
    BY <1>1, <1>2 DEF LockTypeOK, Unlock, Arg
  <1>5. /\ at' \in [CPUs -> [Levels -> LockPcs]]
        /\ \A d \in CPUs, w \in Levels :
             at'[d][w] = IF d = c /\ w = v THEN "popcli" ELSE at[d][w]
    BY <1>1, Nested DEF LockTypeOK, Unlock, Goto, LockPcs
  <1>6. /\ held' \in [CPUs -> [Levels -> SUBSET Locks]]
        /\ \A d \in CPUs, w \in Levels :
             held'[d][w] = IF d = c /\ w = v THEN held[c][v] \ {l} ELSE held[d][w]
    <2>1. /\ held[c][v] \ {l} \in SUBSET Locks
          /\ held' = [held EXCEPT ![c][v] = held[c][v] \ {l}]
      BY <1>1, <1>2 DEF LockTypeOK, Unlock, Arg
    <2>. QED  BY <2>1, Nested DEF LockTypeOK
  <1>7. /\ \A d \in CPUs, w \in Levels : l \notin held'[d][w]
        /\ \A d \in CPUs, w \in Levels : held'[d][w] \subseteq held[d][w]
        /\ \A d \in CPUs, w \in Levels : held[d][w] \subseteq held'[d][w] \cup {l}
    <2>1. \A d \in CPUs, w \in Levels : l \in held[d][w] => d = c /\ w = v
      BY <1>3 DEF LockOK, MutualExclusion
    <2>2. \A d \in CPUs, w \in Levels : l \notin held'[d][w]
      BY <1>6, <2>1
    <2>. QED  BY <1>6, <2>2
  <1>8. LockTypeOK'
    BY <1>3, <1>4, <1>5, <1>6 DEF LockTypeOK
  <1>9. LockOK'
    <2>1. owner[l] = NoCpu
      BY <1>2, <1>3 DEF ArgOK
    <2>2. MutualExclusion'
      BY <1>7 DEF LockOK, MutualExclusion
    <2>3. \A d \in CPUs, w \in Levels, k \in Locks : k \in held'[d][w] => locked'[k]
      BY <1>4, <1>7 DEF LockOK
    <2>4. ASSUME NEW k \in Locks, NEW d \in CPUs, owner'[k] = d
          PROVE  k \in HeldBy(d)'
      <3>1. k # l /\ k \in HeldBy(d)
        BY <1>3, <2>1, <2>4, SpinlockAssumption DEF LockOK
      <3>. QED  BY <1>7, <3>1 DEF HeldBy, Levels
    <2>5. ASSUME NEW d \in CPUs, NEW w \in Levels, NEW k \in Locks, k \in held'[d][w]
          PROVE  \/ owner'[k] = d
                 \/ owner'[k] = NoCpu /\ at'[d][w] \in {"setcpu", "unlock"} /\ want'[d][w] = k
      BY <1>2, <1>3, <1>5, <1>7, <2>5 DEF LockOK
    <2>. QED  BY <2>2, <2>3, <2>4, <2>5 DEF LockOK
  <1>10. ArgOK'
    <2>1. ASSUME NEW d \in CPUs, NEW w \in Levels, at'[d][w] \in {"setcpu", "unlock"}
          PROVE  want'[d][w] \in held'[d][w]
      <3>1. at[d][w] \in {"setcpu", "unlock"} /\ ~ (d = c /\ w = v)
        BY <1>5, <2>1
      <3>2. want[d][w] \in held[d][w]
        BY <3>1 DEF ArgOK
      <3>. QED  BY <1>3, <1>6, <3>1, <3>2
    <2>. QED  BY <1>3, <1>5, <1>7, <2>1 DEF ArgOK
  <1>11. FlagOK'
    <2>1. held'[c][v] = held[c][v] \ {l}
      BY <1>6
    <2>2. Cardinality(held'[c][v]) = Cardinality(held[c][v]) - 1
      BY <1>3, <2>1, HeldFinite, FS_RemoveElement
    <2>3. Depth(c, v)' = Depth(c, v)
      BY <1>3, <1>5, <2>2, HeldFinite DEF Depth
    <2>4. \A d \in CPUs, w \in Levels : d # c => Depth(d, w)' = Depth(d, w)
      BY <1>5, <1>6 DEF Depth
    <2>. QED  BY <1>1, <1>3, <1>5, <2>3, <2>4, LevelType DEF FlagOK, Here
  <1>12. NestOK' /\ NeverPanics'
    <2>1. ~ inIntr[c] => v = "thread"
      BY <1>1 DEF Level
    <2>2. inIntr[c] => v = "handler"
      BY <1>1 DEF Level
    <2>. QED  BY <1>3, <1>5, <1>6, <2>1, <2>2 DEF NestOK, NeverPanics, Levels
  <1>. QED  BY <1>8, <1>9, <1>10, <1>11, <1>12

LEMMA PopcliInv ==
  ASSUME LockInv, NEW c \in CPUs, Popcli(c)
  PROVE  LockInv'
  <1> USE DEF LockInv
  <1>1. PICK v \in Levels : v = Level(c)
    BY LevelType
  <1>2. /\ at[c][v] = "popcli"
        /\ UNCHANGED <<locked, owner, intena, base, inIntr, want, eflags, held>>
        /\ \A d \in CPUs : Level(d)' = Level(d) /\ Flag(d)' = Flag(d)
    BY <1>1 DEF Popcli, Here, Level, Flag
  <1>3. /\ ncli[c] = Depth(c, v) /\ ncli[c] >= 1 /\ ncli[c] \in Nat
        /\ ~ intr[c] /\ intena[c] = Flag(c)
    <2>1. ncli[c] = Depth(c, v) /\ ncli[c] >= 1 /\ ncli[c] \in Nat
      BY <1>1, <1>2, HeldFinite DEF FlagOK, Depth
    <2>. QED  BY <2>1 DEF FlagOK
  <1>4. /\ ncli' = [ncli EXCEPT ![c] = @ - 1]
        /\ intr' = [intr EXCEPT ![c] = @ \/ Sti(c)]
        /\ at' = [at EXCEPT ![c][v] = "run"]
        /\ UNCHANGED lockPanic
    BY <1>1, <1>3 DEF Popcli, Goto
  <1>5. /\ at' \in [CPUs -> [Levels -> LockPcs]]
        /\ \A d \in CPUs, w \in Levels :
             at'[d][w] = IF d = c /\ w = v THEN "run" ELSE at[d][w]
    BY <1>4, Nested DEF LockTypeOK, LockPcs
  <1>6. /\ ncli' \in [CPUs -> Nat] /\ intr' \in [CPUs -> BOOLEAN]
        /\ ncli'[c] = ncli[c] - 1
        /\ intr'[c] <=> ncli[c] = 1 /\ intena[c]
        /\ \A d \in CPUs : d # c => ncli'[d] = ncli[d] /\ intr'[d] = intr[d]
    BY <1>3, <1>4 DEF LockTypeOK, Sti
  <1>7. LockTypeOK'
    BY <1>2, <1>4, <1>5, <1>6 DEF LockTypeOK
  <1>8. LockOK' /\ ArgOK'
    BY <1>2, <1>5 DEF LockOK, MutualExclusion, HeldBy, ArgOK
  <1>9. FlagOK'
    <2>1. Depth(c, v)' = Depth(c, v) - 1
      BY <1>2, <1>5, HeldFinite DEF Depth
    <2>2. \A d \in CPUs, w \in Levels : d # c => Depth(d, w)' = Depth(d, w)
      BY <1>2, <1>5 DEF Depth
    <2>3. /\ ncli'[c] = Depth(c, Level(c))'
          /\ ncli'[c] = 0 => intr'[c] = Flag(c)'
          /\ ncli'[c] > 0 => ~ intr'[c] /\ intena'[c] = Flag(c)'
          /\ Here(c)' # "cli"
      <3>1. Flag(c) \in BOOLEAN /\ intena[c] \in BOOLEAN /\ intr'[c] \in BOOLEAN
        BY <1>6 DEF LockTypeOK, Flag
      <3>. QED  BY <1>1, <1>2, <1>3, <1>5, <1>6, <2>1, <3>1 DEF Here
    <2>4. ASSUME NEW d \in CPUs, d # c
          PROVE  /\ ncli'[d] = Depth(d, Level(d))'
                 /\ ncli'[d] = 0 => intr'[d] = Flag(d)'
                 /\ ncli'[d] > 0 => ~ intr'[d] /\ intena'[d] = Flag(d)'
                 /\ Here(d)' = "cli" /\ ncli'[d] = 0 => eflags'[d][Level(d)'] = Flag(d)'
      BY <1>2, <1>5, <1>6, <2>2, <2>4, LevelType DEF FlagOK, Here
    <2>. QED  BY <2>3, <2>4 DEF FlagOK
  <1>10. NestOK' /\ NeverPanics'
    BY <1>1, <1>2, <1>4, <1>5 DEF NestOK, NeverPanics, Level, Levels
  <1>. QED  BY <1>7, <1>8, <1>9, <1>10

\* A handler starts: its thread is outside its critical sections.
LEMMA InterruptInv ==
  ASSUME LockInv, NEW c \in CPUs, Interrupt(c)
  PROVE  LockInv'
  <1> USE DEF LockInv
  <1>1. /\ ncli[c] = 0 /\ Flag(c) = TRUE /\ ~ inIntr[c] /\ base[c]
        /\ ncli[c] = Depth(c, "thread")
    <2>1. ncli[c] = 0 /\ intr[c] = Flag(c) /\ ncli[c] = Depth(c, Level(c))
      <3>1. ncli[c] \in Nat /\ intr[c]
        BY DEF Interrupt, LockTypeOK
      <3>2. ncli[c] = 0
        BY <3>1 DEF FlagOK
      <3>. QED  BY <3>2 DEF FlagOK
    <2>. QED  BY <2>1 DEF Interrupt, Flag, Level
  <1>2. /\ held[c]["thread"] = {}
        /\ at[c]["thread"] \notin {"holding", "xchg", "popcli"}
    <2>1. IsFiniteSet(held[c]["thread"]) /\ Cardinality(held[c]["thread"]) \in Nat
      BY HeldFinite DEF Levels
    <2>2. /\ Cardinality(held[c]["thread"]) = 0
          /\ at[c]["thread"] \notin {"holding", "xchg", "popcli"}
      BY <1>1, <2>1 DEF Depth
    <2>. QED  BY <2>1, <2>2, FS_EmptySet
  <1>3. at[c]["thread"] \in {"run", "pushcli", "cli"}
    <2>1. at[c]["thread"] \notin {"setcpu", "unlock"}
      BY <1>2 DEF ArgOK, Levels
    <2>. QED  BY <1>2, <2>1 DEF LockTypeOK, LockPcs, Levels
  <1>4. /\ UNCHANGED <<locked, owner, ncli, intena, base, at, want, eflags, held, lockPanic>>
        /\ inIntr' \in [CPUs -> BOOLEAN] /\ intr' \in [CPUs -> BOOLEAN]
        /\ inIntr'[c] /\ ~ intr'[c]
        /\ \A d \in CPUs : d # c => inIntr'[d] = inIntr[d] /\ intr'[d] = intr[d]
    BY DEF Interrupt, LockTypeOK
  <1>5. LockTypeOK'
    BY <1>4 DEF LockTypeOK
  <1>6. LockOK' /\ ArgOK'
    BY <1>4 DEF LockOK, MutualExclusion, HeldBy, ArgOK
  <1>7. FlagOK'
    <2>1. held[c]["handler"] = {} /\ at[c]["handler"] = "run"
      BY <1>1 DEF NestOK
    <2>2. Depth(c, "handler")' = 0
      BY <1>4, <2>1, FS_EmptySet DEF Depth
    <2>3. \A d \in CPUs, w \in Levels : Depth(d, w)' = Depth(d, w)
      BY <1>4 DEF Depth
    <2>4. \A d \in CPUs : d # c => Level(d)' = Level(d) /\ Flag(d)' = Flag(d)
      BY <1>4 DEF Level, Flag
    <2>5. Level(c)' = "handler" /\ Flag(c)' = FALSE
      BY <1>4 DEF Level, Flag
    <2>6. Here(c)' = "run" /\ ncli'[c] = 0 /\ intr'[c] = FALSE
      <3>1. intr'[c] \in BOOLEAN
        BY <1>4
      <3>. QED  BY <1>1, <1>4, <2>1, <2>5, <3>1 DEF Here
    <2>7. ASSUME NEW d \in CPUs, d # c
          PROVE  /\ ncli'[d] = Depth(d, Level(d))'
                 /\ ncli'[d] = 0 => intr'[d] = Flag(d)'
                 /\ ncli'[d] > 0 => ~ intr'[d] /\ intena'[d] = Flag(d)'
                 /\ Here(d)' = "cli" /\ ncli'[d] = 0 => eflags'[d][Level(d)'] = Flag(d)'
      BY <1>4, <2>3, <2>4, <2>7, LevelType DEF FlagOK, Here
    <2>8. Depth(c, Level(c))' = 0
      BY <2>2, <2>5 DEF Depth
    <2>9. /\ ncli'[c] = Depth(c, Level(c))'
          /\ ncli'[c] = 0 => intr'[c] = Flag(c)'
          /\ ~ ncli'[c] > 0
          /\ Here(c)' # "cli"
      <3>1. intr'[c] = Flag(c)'
        BY <2>5, <2>6
      <3>2. ncli'[c] = 0 /\ ncli'[c] = Depth(c, Level(c))'
        BY <2>6, <2>8
      <3>3. Here(c)' # "cli"
        BY <2>6
      <3>. QED  BY <3>1, <3>2, <3>3
    <2>. QED  BY <2>7, <2>9 DEF FlagOK
  <1>8. NestOK' /\ NeverPanics'
    <2>1. at[c]["thread"] = "cli" => eflags[c]["thread"]
      BY <1>1, <1>2 DEF FlagOK, Here, Level
    <2>. QED  BY <1>1, <1>2, <1>3, <1>4, <2>1 DEF NestOK, NeverPanics
  <1>. QED  BY <1>5, <1>6, <1>7, <1>8

LEMMA IretInv ==
  ASSUME LockInv, NEW c \in CPUs, Iret(c)
  PROVE  LockInv'
  <1> USE DEF LockInv
  <1>1. /\ inIntr[c] /\ held[c]["handler"] = {} /\ at[c]["handler"] = "run"
        /\ base[c] /\ held[c]["thread"] = {}
        /\ at[c]["thread"] \in {"run", "pushcli", "cli"}
        /\ at[c]["thread"] = "cli" => eflags[c]["thread"]
    BY DEF Iret, Here, Mine, Level, NestOK
  <1>2. Depth(c, "thread") = 0 /\ Depth(c, "handler") = 0
    BY <1>1, FS_EmptySet DEF Depth
  <1>3. ncli[c] = 0
    BY <1>1, <1>2 DEF FlagOK, Level
  <1>4. /\ UNCHANGED <<locked, owner, ncli, intena, base, at, want, eflags, held, lockPanic>>
        /\ inIntr' \in [CPUs -> BOOLEAN] /\ intr' \in [CPUs -> BOOLEAN]
        /\ ~ inIntr'[c] /\ intr'[c]
        /\ \A d \in CPUs : d # c => inIntr'[d] = inIntr[d] /\ intr'[d] = intr[d]
    BY DEF Iret, LockTypeOK
  <1>5. LockTypeOK'
    BY <1>4 DEF LockTypeOK
  <1>6. LockOK' /\ ArgOK'
    BY <1>4 DEF LockOK, MutualExclusion, HeldBy, ArgOK
  <1>7. FlagOK'
    <2>1. \A d \in CPUs, w \in Levels : Depth(d, w)' = Depth(d, w)
      BY <1>4 DEF Depth
    <2>2. \A d \in CPUs : d # c => Level(d)' = Level(d) /\ Flag(d)' = Flag(d)
      BY <1>4 DEF Level, Flag
    <2>3. Level(c)' = "thread" /\ Flag(c)' = base[c]
      BY <1>4 DEF Level, Flag
    <2>4. base[c] \in BOOLEAN /\ intr'[c] \in BOOLEAN /\ eflags[c]["thread"] \in BOOLEAN
      BY <1>4 DEF LockTypeOK, Levels
    <2>5. /\ ncli'[c] = Depth(c, Level(c))'
          /\ ncli'[c] = 0 => intr'[c] = Flag(c)'
          /\ ~ ncli'[c] > 0
          /\ Here(c)' = "cli" => eflags'[c][Level(c)'] = Flag(c)'
      <3>1. ncli'[c] = 0 /\ Depth(c, Level(c))' = 0
        BY <1>2, <1>3, <1>4, <2>1, <2>3 DEF Levels
      <3>2. intr'[c] = Flag(c)'
        BY <1>1, <1>4, <2>3, <2>4
      <3>3. Here(c)' = "cli" => eflags'[c][Level(c)'] = Flag(c)'
        BY <1>1, <1>4, <2>3, <2>4 DEF Here
      <3>. QED  BY <3>1, <3>2, <3>3
    <2>6. ASSUME NEW d \in CPUs, d # c
          PROVE  /\ ncli'[d] = Depth(d, Level(d))'
                 /\ ncli'[d] = 0 => intr'[d] = Flag(d)'
                 /\ ncli'[d] > 0 => ~ intr'[d] /\ intena'[d] = Flag(d)'
                 /\ Here(d)' = "cli" /\ ncli'[d] = 0 => eflags'[d][Level(d)'] = Flag(d)'
      BY <1>4, <2>1, <2>2, <2>6, LevelType DEF FlagOK, Here
    <2>. QED  BY <2>5, <2>6 DEF FlagOK
  <1>8. NestOK' /\ NeverPanics'
    BY <1>1, <1>4 DEF NestOK, NeverPanics
  <1>. QED  BY <1>5, <1>6, <1>7, <1>8

LEMMA LockStutterInv ==
  ASSUME LockInv, UNCHANGED lockVars
  PROVE  LockInv'
  <1>1. /\ \A d \in CPUs : Level(d)' = Level(d) /\ Flag(d)' = Flag(d)
        /\ \A d \in CPUs, w \in Levels : Depth(d, w)' = Depth(d, w)
    BY DEF lockVars, Depth, Level, Flag
  <1>2. FlagOK'
    BY <1>1, LevelType DEF lockVars, LockInv, FlagOK, Here
  <1>. QED
    BY <1>2 DEF lockVars, LockInv, LockTypeOK, LockOK, MutualExclusion, HeldBy, ArgOK, NestOK,
                NeverPanics

LEMMA LockNextInv ==
  ASSUME LockInv, [LockNext]_lockVars
  PROVE  LockInv'
  BY AcquireInv, ReleaseInv, ReadEflagsInv, CliInv, CheckHoldingInv, XchgInv, SetCpuInv,
     UnlockInv, PopcliInv, InterruptInv, IretInv, LockStutterInv
  DEF LockNext, Cpu

-----------------------------------------------------------------------------
THEOREM LockInvariance == LockSpec => []LockInv
  <1>1. LockInv /\ [LockNext]_lockVars => LockInv'
    BY LockNextInv
  <1>. QED  BY <1>1, LockInitInv, PTL DEF LockSpec

\* A lock is held by one activity of one CPU at a time (spinlock.c:24-64).
THEOREM LocksExclude == LockSpec => []MutualExclusion
  <1>1. LockInv => MutualExclusion
    BY DEF LockInv, LockOK
  <1>. QED  BY <1>1, LockInvariance, PTL

\* No interrupt comes to a CPU that holds a lock (spinlock.c:97-117).
THEOREM InterruptsStayOff == LockSpec => []InterruptsOff
  <1>1. ASSUME LockInv PROVE InterruptsOff
    <2> SUFFICES ASSUME NEW c \in CPUs, HeldBy(c) # {} PROVE ~ intr[c]
      BY DEF InterruptsOff
    <2>1. PICK v \in Levels : v = Level(c)
      BY LevelType
    <2>2. HeldBy(c) = held[c][v]
      BY <1>1, <2>1 DEF LockInv, NestOK, HeldBy, Level
    <2>3. IsFiniteSet(held[c][v]) /\ Cardinality(held[c][v]) \in Nat
      BY <1>1, HeldFinite DEF LockInv
    <2>4. Cardinality(held[c][v]) # 0
      BY <2>2, <2>3, FS_EmptySet
    <2>5. Depth(c, v) > 0
      BY <2>3, <2>4 DEF Depth
    <2>. QED  BY <1>1, <2>1, <2>5 DEF LockInv, FlagOK
  <1>. QED  BY <1>1, LockInvariance, PTL

\* After the last release the interrupt flag is what it was before the first
\* acquire (spinlock.c:93-117).
THEOREM FlagComesBack == LockSpec => []FlagRestored
  <1>1. ASSUME LockInv PROVE FlagRestored
    <2> SUFFICES ASSUME NEW c \in CPUs, at[c]["thread"] = "run",
                        held[c]["thread"] = {}, ~ inIntr[c]
                 PROVE  intr[c] = base[c] /\ ncli[c] = 0
      BY DEF FlagRestored
    <2>1. Level(c) = "thread" /\ Flag(c) = base[c]
      BY DEF Level, Flag
    <2>2. Depth(c, "thread") = 0
      BY FS_EmptySet DEF Depth
    <2>. QED  BY <1>1, <2>1, <2>2 DEF LockInv, FlagOK
  <1>. QED  BY <1>1, LockInvariance, PTL

\* pushcli and popcli keep interrupts off as long as they should, and no longer
\* (spinlock.c:92-117).
THEOREM InterruptsAreKept == LockSpec => []InterruptsKept
  <1>1. InterruptsOff /\ FlagRestored => InterruptsKept
    BY DEF InterruptsKept
  <1>. QED  BY <1>1, InterruptsStayOff, FlagComesBack, PTL

\* The panics of acquire, release and popcli never fire (spinlock.c:28, 46, 111, 113).
THEOREM NoPanic == LockSpec => []NeverPanics
  <1>1. LockInv => NeverPanics
    BY DEF LockInv
  <1>. QED  BY <1>1, LockInvariance, PTL

\* The variables keep their types.
THEOREM LockTypeCorrect == LockSpec => []LockTypeOK
  <1>1. LockInv => LockTypeOK
    BY DEF LockInv
  <1>. QED  BY <1>1, LockInvariance, PTL

-----------------------------------------------------------------------------
(* Log.                                                                    *)

Committers == {p \in Procs : pc[p] = "commit"}

\* What the phase of commit or of recovery says of the processes.
PhaseOK ==
  /\ \A p \in Procs : pc[p] = "down" => Booting
  /\ committing <=> Committers # {}
  /\ \A p, q \in Committers : p = q
  /\ phase = "none" <=> ~ Booting /\ ~ committing
  /\ phase \in {"write", "head"} => committing
  /\ phase = "readhead" => Booting

\* The calls are counted, and there is none while a commit runs.
CountOK ==
  /\ outstanding = Cardinality(Active)
  /\ committing => Active = {}

\* The log never holds more than its slots; the loops stay inside it.
RoomOK ==
  /\ Len(lh) <= NLog - 1
  /\ Len(hdr) <= NLog - 1
  /\ phase \in {"write", "install"} => tail <= Len(lh)
  /\ phase \in {"readhead", "head"} => tail = 1
  /\ phase = "head" => lh # << >>

\* One call of log_write at a time, and room for what it will record.
RecordOK ==
  /\ \A p, q \in Procs :
       pc[p] \in {"scan", "record"} /\ pc[q] \in {"scan", "record"} => p = q
  /\ \A p \in Procs :
       pc[p] \in {"scan", "record"} => Len(lh) < NLog - 1 /\ buf[p] \in Blocks
  /\ \A p \in Procs : pc[p] = "check" => buf[p] \in Blocks
  /\ \A p \in Procs : pc[p] = "record" => slot[p] \in 1 .. Len(lh) + 1

IndInv == TypeOK /\ PhaseOK /\ CountOK /\ RoomOK /\ RecordOK

-----------------------------------------------------------------------------
LEMMA InitInv == Init => IndInv
  <1> SUFFICES ASSUME Init PROVE IndInv
    OBVIOUS
  <1>1. PICK r : r \in Procs
    BY LogAssumption
  <1>2. Active = {} /\ Committers = {} /\ Booting
    BY DEF Init, Active, Committers, Booting, InOp, InLogWrite
  <1>3. Cardinality(Active) = 0
    BY <1>2, FS_EmptySet
  <1>4. TypeOK
    <2>1. logd \in [LogSlots -> Vals] /\ 1 \in LogSlots
      BY LogAssumption DEF Init, LogSlots
    <2>2. mem \in [Blocks -> Vals] /\ disk \in [Blocks -> Vals] /\ dirty \subseteq Blocks
      BY DEF Init
    <2>3. /\ pc \in [Procs -> Pcs]
          /\ buf \in [Procs -> Blocks \cup {NoBlock}]
          /\ slot \in [Procs -> Nat \ {0}]
          /\ wrote \in [Procs -> SUBSET Blocks]
      BY DEF Init, Pcs
    <2>4. lh \in Seq(Blocks) /\ hdr \in Seq(Blocks)
      BY DEF Init
    <2>5. /\ outstanding \in Nat /\ committing \in BOOLEAN /\ panicked \in BOOLEAN
          /\ phase \in Phases /\ tail \in LogSlots
      BY <2>1 DEF Init, Phases
    <2>. QED  BY <2>1, <2>2, <2>3, <2>4, <2>5 DEF TypeOK
  <1>5. PhaseOK /\ CountOK /\ RoomOK /\ RecordOK
    BY <1>2, <1>3, LogAssumption
    DEF Init, PhaseOK, CountOK, RoomOK, RecordOK, NLog
  <1>. QED  BY <1>4, <1>5 DEF IndInv

-----------------------------------------------------------------------------
LEMMA ActiveFinite == IsFiniteSet(Active)
  BY LogAssumption, FS_Subset DEF Active

\* A step that leaves the set of the calls in progress alone keeps the count.
LEMMA CountKept ==
  ASSUME CountOK, Active' = Active, outstanding' = outstanding,
         committing' = committing
  PROVE  CountOK'
  BY DEF CountOK

LEMMA SizeFacts == NLog - 1 \in Nat /\ 2 <= NLog - 1 /\ NLog - 1 < LOGSIZE /\ LOGSIZE \in Nat
  BY LogAssumption DEF NLog

LEMMA BeginOpInv ==
  ASSUME IndInv, NEW p \in Procs, BeginOp(p)
  PROVE  IndInv'
  <1> USE DEF IndInv, BeginOp
  <1>1. TypeOK'
    <2>1. pc' \in [Procs -> Pcs]
      BY DEF TypeOK, Pcs, InOp
    <2>2. outstanding' \in Nat
      BY DEF TypeOK
    <2>3. wrote' \in [Procs -> SUBSET Blocks]
      BY DEF TypeOK
    <2>. QED  BY <2>1, <2>2, <2>3 DEF TypeOK
  <1>2. PhaseOK'
    <2>1. Committers' = Committers /\ (Booting' <=> Booting)
      BY DEF TypeOK, Committers, Booting, PhaseOK
    <2>. QED  BY <2>1 DEF TypeOK, PhaseOK
  <1>3. CountOK'
    <2>1. CASE MustWait
      <3>1. Active' = Active
        BY <2>1 DEF TypeOK, Active, InOp, InLogWrite
      <3>. QED  BY <2>1, <3>1 DEF CountOK
    <2>2. CASE ~ MustWait
      <3>1. Active' = Active \cup {p} /\ p \notin Active
        BY <2>2 DEF TypeOK, Active, InOp, InLogWrite
      <3>2. Cardinality(Active') = Cardinality(Active) + 1
        BY <3>1, ActiveFinite, FS_AddElement
      <3>. QED  BY <2>2, <3>1, <3>2 DEF CountOK, MustWait
    <2>. QED  BY <2>1, <2>2
  <1>4. RoomOK' /\ RecordOK'
    BY DEF TypeOK, RoomOK, RecordOK
  <1>. QED  BY <1>1, <1>2, <1>3, <1>4

LEMMA ModifyInv ==
  ASSUME IndInv, NEW p \in Procs, NEW b \in Blocks, NEW v \in Vals, Modify(p, b, v)
  PROVE  IndInv'
  <1> USE DEF IndInv, Modify
  <1>1. TypeOK'
    BY DEF TypeOK, Pcs, InOp, InLogWrite
  <1>2. PhaseOK'
    <2>1. Committers' = Committers /\ (Booting' <=> Booting)
      BY DEF TypeOK, Committers, Booting, PhaseOK
    <2>. QED  BY <2>1 DEF TypeOK, PhaseOK
  <1>3. CountOK'
    <2>1. Active' = Active
      BY DEF TypeOK, Active, InOp, InLogWrite
    <2>. QED  BY <2>1, CountKept
  <1>4. RoomOK' /\ RecordOK'
    BY DEF TypeOK, RoomOK, RecordOK
  <1>. QED  BY <1>1, <1>2, <1>3, <1>4

LEMMA LogWriteCheckInv ==
  ASSUME SerialLogWrite, IndInv, NEW p \in Procs, LogWriteCheck(p)
  PROVE  IndInv'
  <1> USE DEF IndInv, LogWriteCheck
  <1>1. TypeOK'
    BY DEF TypeOK, Pcs, InOp, InLogWrite
  <1>2. PhaseOK'
    <2>1. Committers' = Committers /\ (Booting' <=> Booting)
      BY DEF TypeOK, Committers, Booting, PhaseOK
    <2>. QED  BY <2>1 DEF TypeOK, PhaseOK
  <1>3. CountOK'
    <2>1. Active' = Active
      BY DEF TypeOK, Active, InOp, InLogWrite
    <2>. QED  BY <2>1, CountKept
  <1>4. RoomOK' /\ RecordOK'
    BY SizeFacts DEF TypeOK, RoomOK, RecordOK, TooBig
  <1>. QED  BY <1>1, <1>2, <1>3, <1>4

LEMMA LogWriteScanInv ==
  ASSUME IndInv, NEW p \in Procs, LogWriteScan(p)
  PROVE  IndInv'
  <1> USE DEF IndInv, LogWriteScan
  <1>0. Absorb(buf[p]) \in 1 .. Len(lh) + 1
    <2>1. CASE buf[p] \in Logged
      <3>1. \E i \in DOMAIN lh : lh[i] = buf[p]
        BY <2>1 DEF Logged
      <3>2. Absorb(buf[p]) \in DOMAIN lh
        BY <2>1, <3>1 DEF Absorb
      <3>. QED  BY <3>2 DEF TypeOK
    <2>2. CASE buf[p] \notin Logged
      BY <2>2 DEF TypeOK, Absorb
    <2>. QED  BY <2>1, <2>2
  <1>1. TypeOK'
    BY <1>0 DEF TypeOK, Pcs, InOp, InLogWrite
  <1>2. PhaseOK'
    <2>1. Committers' = Committers /\ (Booting' <=> Booting)
      BY DEF TypeOK, Committers, Booting, PhaseOK
    <2>. QED  BY <2>1 DEF TypeOK, PhaseOK
  <1>3. CountOK'
    <2>1. Active' = Active
      BY DEF TypeOK, Active, InOp, InLogWrite
    <2>. QED  BY <2>1, CountKept
  <1>4. RoomOK' /\ RecordOK'
    BY <1>0 DEF TypeOK, RoomOK, RecordOK
  <1>. QED  BY <1>1, <1>2, <1>3, <1>4

LEMMA LogWriteRecordInv ==
  ASSUME IndInv, NEW p \in Procs, LogWriteRecord(p)
  PROVE  IndInv'
  <1> USE DEF IndInv, LogWriteRecord
  <1>0. /\ buf[p] \in Blocks /\ slot[p] \in 1 .. Len(lh) + 1
        /\ Len(lh) < NLog - 1 /\ p \in Active
    BY DEF RecordOK, Active, InOp, InLogWrite
  <1>1. lh' \in Seq(Blocks) /\ Len(lh') \in {Len(lh), Len(lh) + 1}
    BY <1>0 DEF TypeOK
  <1>2. TypeOK'
    BY <1>0, <1>1 DEF TypeOK, Pcs, InOp, Pin
  <1>3. PhaseOK'
    <2>1. Committers' = Committers /\ (Booting' <=> Booting)
      BY DEF TypeOK, Committers, Booting, PhaseOK
    <2>. QED  BY <2>1 DEF TypeOK, PhaseOK
  <1>4. CountOK'
    <2>1. Active' = Active
      BY DEF TypeOK, Active, InOp, InLogWrite
    <2>. QED  BY <2>1, CountKept
  <1>5. RoomOK'
    <2>1. ~ committing /\ ~ Booting
      BY <1>0 DEF CountOK, PhaseOK, Booting
    <2>2. phase = "none"
      BY <2>1 DEF PhaseOK
    <2>. QED  BY <1>0, <1>1, <2>2, SizeFacts DEF TypeOK, RoomOK
  <1>6. RecordOK'
    BY <1>0, <1>1 DEF TypeOK, RecordOK
  <1>. QED  BY <1>2, <1>3, <1>4, <1>5, <1>6

LEMMA EndOpInv ==
  ASSUME IndInv, NEW p \in Procs, EndOp(p)
  PROVE  IndInv'
  <1> USE DEF IndInv, EndOp
  <1>1. p \in Active /\ ~ committing /\ ~ Booting /\ phase = "none"
    BY DEF Active, InOp, CountOK, PhaseOK, Booting
  <1>2. Active' = Active \ {p}
    BY DEF TypeOK, Active, InOp, InLogWrite, Woken
  <1>3. /\ IsFiniteSet(Active') /\ outstanding' = Cardinality(Active')
        /\ outstanding' \in Nat
    <2>1. /\ IsFiniteSet(Active \ {p})
          /\ Cardinality(Active \ {p}) = Cardinality(Active) - 1
      BY <1>1, ActiveFinite, FS_RemoveElement
    <2>2. Cardinality(Active \ {p}) \in Nat
      BY <2>1, FS_CardinalityType
    <2>. QED  BY <1>2, <2>1, <2>2 DEF CountOK
  <1>4. CASE outstanding = 1
    <2>1. Active' = {}
      <3>1. Cardinality(Active') = 0
        BY <1>3, <1>4
      <3>. QED  BY <1>3, <3>1, FS_EmptySet
    <2>2. TypeOK'
      <3>1. 1 \in LogSlots /\ phase' \in Phases
        BY <1>4, LogAssumption DEF LogSlots, Phases
      <3>2. pc' \in [Procs -> Pcs]
        BY <1>4 DEF TypeOK, Pcs
      <3>. QED  BY <1>3, <1>4, <3>1, <3>2 DEF TypeOK
    <2>3. PhaseOK'
      <3>1. Committers' = {p}
        BY <1>1, <1>4 DEF TypeOK, Committers, PhaseOK
      <3>. QED  BY <1>1, <1>4, <3>1 DEF TypeOK, PhaseOK, Booting
    <2>4. CountOK'
      BY <1>3, <2>1 DEF CountOK
    <2>5. RoomOK' /\ RecordOK'
      BY <1>1, <1>4 DEF TypeOK, RoomOK, RecordOK
    <2>. QED  BY <2>2, <2>3, <2>4, <2>5
  <1>5. CASE outstanding # 1
    <2>1. TypeOK'
      <3>1. 1 \in LogSlots
        BY LogAssumption DEF LogSlots
      <3>2. pc' \in [Procs -> Pcs]
        BY <1>5 DEF TypeOK, Pcs, Woken
      <3>. QED  BY <1>3, <1>5, <3>1, <3>2 DEF TypeOK
    <2>2. PhaseOK'
      <3>1. Committers' = Committers
        BY <1>5 DEF TypeOK, Committers, Woken
      <3>. QED  BY <1>1, <1>5, <3>1 DEF TypeOK, PhaseOK, Booting, Woken
    <2>3. CountOK'
      BY <1>1, <1>3, <1>5 DEF CountOK
    <2>4. RoomOK' /\ RecordOK'
      BY <1>1, <1>5 DEF TypeOK, RoomOK, RecordOK, Woken
    <2>. QED  BY <2>1, <2>2, <2>3, <2>4
  <1>. QED  BY <1>4, <1>5

-----------------------------------------------------------------------------
\* A step of commit or of recovery: the processes stay where they are.
LEMMA PcKept ==
  ASSUME TypeOK, pc' = pc
  PROVE  Active' = Active /\ Committers' = Committers /\ (Booting' <=> Booting)
  BY DEF Active, Committers, Booting

\* While a commit runs or the machine boots no call is in progress.
LEMMA Quiescent ==
  ASSUME IndInv, phase # "none"
  PROVE  Active = {}
  BY DEF IndInv, PhaseOK, CountOK, Booting, Active, InOp, InLogWrite

LEMMA WriteLogInv ==
  ASSUME IndInv, WriteLog
  PROVE  IndInv'
  <1> USE DEF IndInv, WriteLog, Loop
  <1>1. TypeOK'
    <2>1. lh[tail] \in Blocks
      BY DEF TypeOK, RoomOK, LogSlots
    <2>2. tail' \in LogSlots
      BY SizeFacts DEF TypeOK, RoomOK, LogSlots
    <2>. QED  BY <2>1, <2>2 DEF TypeOK, Phases
  <1>2. PhaseOK' /\ CountOK'
    BY PcKept DEF TypeOK, PhaseOK, CountOK
  <1>3. RoomOK' /\ RecordOK'
    BY DEF TypeOK, RoomOK, RecordOK, LogSlots
  <1>. QED  BY <1>1, <1>2, <1>3

LEMMA WriteHeadInv ==
  ASSUME IndInv, WriteHead
  PROVE  IndInv'
  <1> USE DEF IndInv, WriteHead
  <1>1. TypeOK'
    BY DEF TypeOK, Phases
  <1>2. PhaseOK' /\ CountOK'
    BY PcKept DEF TypeOK, PhaseOK, CountOK
  <1>3. RoomOK' /\ RecordOK'
    BY DEF TypeOK, RoomOK, RecordOK
  <1>. QED  BY <1>1, <1>2, <1>3

LEMMA InstallTransInv ==
  ASSUME IndInv, InstallTrans
  PROVE  IndInv'
  <1> USE DEF IndInv, InstallTrans, Loop
  <1>1. TypeOK'
    <2>1. lh[tail] \in Blocks
      BY DEF TypeOK, RoomOK, LogSlots
    <2>2. logd[tail] \in Vals
      BY DEF TypeOK
    <2>3. tail' \in LogSlots
      BY SizeFacts DEF TypeOK, RoomOK, LogSlots
    <2>. QED  BY <2>1, <2>2, <2>3 DEF TypeOK, Phases, Unpin
  <1>2. PhaseOK' /\ CountOK'
    BY PcKept DEF TypeOK, PhaseOK, CountOK
  <1>3. RoomOK' /\ RecordOK'
    BY DEF TypeOK, RoomOK, RecordOK, LogSlots
  <1>. QED  BY <1>1, <1>2, <1>3

LEMMA EraseHeadInv ==
  ASSUME IndInv, EraseHead
  PROVE  IndInv'
  <1> USE DEF IndInv, EraseHead
  <1>1. TypeOK'
    BY DEF TypeOK, Phases
  <1>2. PhaseOK' /\ CountOK'
    BY PcKept DEF TypeOK, PhaseOK, CountOK
  <1>3. RoomOK' /\ RecordOK'
    <2>1. \A q \in Procs : pc[q] \notin InOp
      BY Quiescent DEF Active
    <2>. QED  BY <2>1, SizeFacts DEF TypeOK, RoomOK, RecordOK, InOp, InLogWrite
  <1>. QED  BY <1>1, <1>2, <1>3

LEMMA EndCommitInv ==
  ASSUME IndInv, NEW p \in Procs, EndCommit(p)
  PROVE  IndInv'
  <1> USE DEF IndInv, EndCommit
  <1>1. committing /\ Active = {} /\ ~ Booting
    BY DEF PhaseOK, CountOK, Booting, Committers
  <1>2. TypeOK'
    BY DEF TypeOK, Pcs, Phases, Woken
  <1>3. PhaseOK'
    <2>1. Committers' = {}
      BY DEF TypeOK, Committers, PhaseOK, Woken
    <2>. QED  BY <1>1, <2>1 DEF TypeOK, PhaseOK, Booting, Woken
  <1>4. CountOK'
    <2>1. Active' = Active
      BY DEF TypeOK, Active, InOp, InLogWrite, Woken
    <2>. QED  BY <1>1, <2>1 DEF CountOK
  <1>5. RoomOK' /\ RecordOK'
    BY DEF TypeOK, RoomOK, RecordOK, Woken
  <1>. QED  BY <1>2, <1>3, <1>4, <1>5

-----------------------------------------------------------------------------
LEMMA CrashInv ==
  ASSUME IndInv, Crash
  PROVE  IndInv'
  <1> USE DEF IndInv, Crash
  <1>1. Active' = {} /\ Committers' = {} /\ Booting'
    BY DEF Active, Committers, Booting, InOp, InLogWrite
  <1>2. Cardinality(Active') = 0
    BY <1>1, FS_EmptySet
  <1>3. TypeOK'
    <2>1. 1 \in LogSlots /\ lh' \in Seq(Blocks)
      BY LogAssumption DEF LogSlots
    <2>2. pc' \in [Procs -> Pcs] /\ buf' \in [Procs -> Blocks \cup {NoBlock}]
      BY DEF Pcs
    <2>3. slot' \in [Procs -> Nat \ {0}] /\ wrote' \in [Procs -> SUBSET Blocks]
      OBVIOUS
    <2>4. phase' \in Phases
      BY DEF Phases
    <2>. QED  BY <2>1, <2>2, <2>3, <2>4 DEF TypeOK
  <1>4. PhaseOK' /\ CountOK'
    BY <1>1, <1>2 DEF PhaseOK, CountOK
  <1>5. RoomOK' /\ RecordOK'
    BY SizeFacts DEF TypeOK, RoomOK, RecordOK
  <1>. QED  BY <1>3, <1>4, <1>5

LEMMA ReadHeadInv ==
  ASSUME IndInv, ReadHead
  PROVE  IndInv'
  <1> USE DEF IndInv, ReadHead
  <1>1. TypeOK'
    BY DEF TypeOK, Phases
  <1>2. Booting
    BY DEF PhaseOK
  <1>3. PhaseOK' /\ CountOK'
    BY <1>2, PcKept DEF TypeOK, PhaseOK, CountOK
  <1>4. RoomOK' /\ RecordOK'
    BY <1>2 DEF TypeOK, RoomOK, RecordOK, Booting
  <1>. QED  BY <1>1, <1>3, <1>4

LEMMA BootDoneInv ==
  ASSUME IndInv, BootDone
  PROVE  IndInv'
  <1> USE DEF IndInv, BootDone
  <1>1. Active = {} /\ Active' = {} /\ Committers = {} /\ Committers' = {} /\ ~ Booting'
    BY LogAssumption DEF Active, Committers, Booting, InOp, InLogWrite
  <1>2. TypeOK'
    BY DEF TypeOK, Pcs, Phases
  <1>3. PhaseOK' /\ CountOK'
    BY <1>1 DEF TypeOK, PhaseOK, CountOK
  <1>4. RoomOK' /\ RecordOK'
    BY DEF TypeOK, RoomOK, RecordOK
  <1>. QED  BY <1>2, <1>3, <1>4

LEMMA EvictInv ==
  ASSUME IndInv, NEW b \in Blocks, Evict(b)
  PROVE  IndInv'
  <1> USE DEF IndInv, Evict
  <1>1. TypeOK'
    BY DEF TypeOK
  <1>2. PhaseOK' /\ CountOK' /\ RoomOK' /\ RecordOK'
    BY PcKept DEF TypeOK, PhaseOK, CountOK, RoomOK, RecordOK
  <1>. QED  BY <1>1, <1>2

LEMMA StutterInv ==
  ASSUME IndInv, UNCHANGED vars
  PROVE  IndInv'
  <1>1. Active' = Active /\ Committers' = Committers /\ (Booting' <=> Booting)
    BY DEF vars, Active, Committers, Booting
  <1>. QED
    BY <1>1 DEF vars, IndInv, TypeOK, PhaseOK, CountOK, RoomOK, RecordOK

LEMMA NextInv ==
  ASSUME SerialLogWrite, IndInv, [Next]_vars
  PROVE  IndInv'
  <1>1. CASE \E p \in Procs : Proc(p)
    BY <1>1, BeginOpInv, ModifyInv, LogWriteCheckInv, LogWriteScanInv,
       LogWriteRecordInv, EndOpInv, WriteLogInv, WriteHeadInv, InstallTransInv,
       EraseHeadInv, EndCommitInv
    DEF Proc, Commit
  <1>2. CASE Recover
    BY <1>2, ReadHeadInv, InstallTransInv, EraseHeadInv DEF Recover
  <1>3. CASE BootDone
    BY <1>3, BootDoneInv
  <1>4. CASE \E b \in Blocks : Evict(b)
    BY <1>4, EvictInv
  <1>5. CASE Crash
    BY <1>5, CrashInv
  <1>6. CASE UNCHANGED vars
    BY <1>6, StutterInv
  <1>. QED  BY <1>1, <1>2, <1>3, <1>4, <1>5, <1>6 DEF Next

-----------------------------------------------------------------------------
THEOREM Invariance == SerialLogWrite => (Spec => []IndInv)
  <1> SUFFICES ASSUME SerialLogWrite PROVE Spec => []IndInv
    OBVIOUS
  <1>1. Init => IndInv
    BY InitInv
  <1>2. IndInv /\ [Next]_vars => IndInv'
    BY NextInv
  <1>. QED  BY <1>1, <1>2, PTL DEF Spec

\* The variables keep their types: log.outstanding never goes below zero and
\* no loop of log.c leaves the log, whatever the calls do (log.c).
THEOREM TypeCorrect == SerialLogWrite => (Spec => []TypeOK)
  <1>1. IndInv => TypeOK
    BY DEF IndInv
  <1>. QED  BY <1>1, Invariance, PTL

\* log.outstanding is the number of calls between begin_op and end_op, and a
\* commit runs alone, with one process in it (log.c:9-13).
THEOREM CommitRunsAlone == SerialLogWrite => (Spec => []CommitAlone)
  <1>1. IndInv => CommitAlone
    <2>1. ASSUME IndInv, committing
          PROVE  Cardinality({p \in Procs : pc[p] = "commit"}) = 1
      <3>1. PICK p \in Procs : Committers = {p}
        BY <2>1 DEF IndInv, PhaseOK, Committers
      <3>. QED  BY <3>1, FS_Singleton DEF Committers
    <2>. QED  BY <2>1 DEF IndInv, CountOK, CommitAlone
  <1>. QED  BY <1>1, Invariance, PTL

-----------------------------------------------------------------------------
(***************************************************************************)
(* The second invariant: what is in the cache, in the log and on the disk. *)
(***************************************************************************)

\* A process holds a buffer exactly while it is in log_write, and alone.
BufOK ==
  /\ \A p \in Procs : pc[p] \in InLogWrite <=> buf[p] \in Blocks
  /\ \A p, q \in Procs : buf[p] = buf[q] /\ buf[p] \in Blocks => p = q

\* A block is in the transaction once, and the slot found is still the right one.
LogOK ==
  /\ \A i, j \in DOMAIN lh : lh[i] = lh[j] => i = j
  /\ \A i, j \in DOMAIN hdr : hdr[i] = hdr[j] => i = j
  /\ \A p \in Procs : pc[p] = "record" =>
       IF slot[p] \in DOMAIN lh THEN lh[slot[p]] = buf[p] ELSE buf[p] \notin Logged

\* The header on disk is empty until the commit point and after the erase.
HdrOK ==
  /\ phase \in {"none", "write", "head", "done"} => hdr = << >>
  /\ phase \in {"install", "erase"} => hdr = lh
  /\ phase \in {"done", "readhead"} => lh = << >>

\* Installing a block unpins it; nothing is pinned when all are installed.
CleanOK ==
  /\ phase = "install" => \A i \in 1 .. tail - 1 : lh[i] \notin dirty
  /\ phase \in {"erase", "done", "readhead"} => dirty = {}

CacheOK == DirtyLogged /\ Pinned /\ CleanOK

\* How far the copies have come.
CopyOK ==
  /\ phase = "write" => \A i \in 1 .. tail - 1 : logd[i] = mem[lh[i]]
  /\ phase = "head" => \A i \in DOMAIN lh : logd[i] = mem[lh[i]]
  /\ phase \in {"install", "erase"} /\ committing =>
       \A i \in DOMAIN lh : logd[i] = mem[lh[i]]
  /\ phase = "install" => \A i \in 1 .. tail - 1 : disk[lh[i]] = logd[i]
  /\ phase = "erase" => \A i \in DOMAIN lh : disk[lh[i]] = logd[i]

DataInv == BufOK /\ LogOK /\ HdrOK /\ CacheOK /\ CopyOK

LEMMA InitData == Init => DataInv
  <1> SUFFICES ASSUME Init PROVE DataInv
    OBVIOUS
  <1>1. BufOK
    BY LogAssumption DEF Init, BufOK, InLogWrite
  <1>2. LogOK /\ HdrOK /\ CopyOK
    BY DEF Init, LogOK, HdrOK, CopyOK
  <1>3. CacheOK
    BY DEF Init, CacheOK, DirtyLogged, Pinned, CleanOK
  <1>. QED  BY <1>1, <1>2, <1>3 DEF DataInv

\* A process in a call: nothing else is going on.
LEMMA Working ==
  ASSUME IndInv, NEW p \in Procs, pc[p] \in InOp
  PROVE  phase = "none" /\ ~ committing /\ ~ Booting
  BY DEF IndInv, PhaseOK, CountOK, Booting, Active, InOp, InLogWrite

\* No call in progress, no buffer held.
LEMMA NotBusy ==
  ASSUME IndInv, DataInv, phase # "none"
  PROVE  Blocks \cap Busy = {} /\ \A p \in Procs : pc[p] \notin InOp
  BY Quiescent DEF DataInv, BufOK, Busy, Active, InOp

LEMMA BeginOpData ==
  ASSUME IndInv, DataInv, NEW p \in Procs, BeginOp(p)
  PROVE  DataInv'
  <1> USE DEF IndInv, DataInv, BeginOp
  <1>1. BufOK'
    BY DEF TypeOK, BufOK, InLogWrite
  <1>2. LogOK'
    BY DEF TypeOK, LogOK, Logged
  <1>3. HdrOK' /\ CopyOK'
    BY DEF HdrOK, CopyOK
  <1>4. CacheOK'
    BY DEF CacheOK, DirtyLogged, Pinned, CleanOK, Logged, Busy
  <1>. QED  BY <1>1, <1>2, <1>3, <1>4

LEMMA ModifyData ==
  ASSUME IndInv, DataInv, NEW p \in Procs, NEW b \in Blocks, NEW v \in Vals, Modify(p, b, v)
  PROVE  DataInv'
  <1> USE DEF IndInv, DataInv, Modify
  <1>1. phase = "none"
    BY Working DEF InOp
  <1>2. BufOK'
    BY DEF TypeOK, BufOK, InLogWrite, Busy
  <1>3. LogOK'
    BY DEF TypeOK, LogOK, Logged
  <1>4. HdrOK' /\ CopyOK'
    BY <1>1 DEF HdrOK, CopyOK
  <1>5. CacheOK'
    <2>1. DirtyLogged'
      BY DEF CacheOK, DirtyLogged, Logged
    <2>2. b \in Busy' /\ Busy \cap Blocks \subseteq Busy'
      <3>1. buf[p] \notin Blocks
        BY DEF BufOK, InLogWrite
      <3>. QED  BY <3>1 DEF TypeOK, Busy
    <2>3. \A c \in Blocks : c # b => mem'[c] = mem[c]
      BY DEF TypeOK
    <2>. QED  BY <1>1, <2>1, <2>2, <2>3 DEF CacheOK, Pinned, CleanOK
  <1>. QED  BY <1>2, <1>3, <1>4, <1>5

LEMMA LogWriteCheckData ==
  ASSUME IndInv, DataInv, NEW p \in Procs, LogWriteCheck(p)
  PROVE  DataInv'
  <1> USE DEF IndInv, DataInv, LogWriteCheck
  <1>1. BufOK'
    BY DEF TypeOK, BufOK, InLogWrite
  <1>2. LogOK'
    BY DEF TypeOK, LogOK, Logged
  <1>3. HdrOK' /\ CopyOK'
    BY DEF HdrOK, CopyOK
  <1>4. CacheOK'
    BY DEF CacheOK, DirtyLogged, Pinned, CleanOK, Logged, Busy
  <1>. QED  BY <1>1, <1>2, <1>3, <1>4

LEMMA LogWriteScanData ==
  ASSUME IndInv, DataInv, NEW p \in Procs, LogWriteScan(p)
  PROVE  DataInv'
  <1> USE DEF IndInv, DataInv, LogWriteScan
  <1>1. BufOK'
    BY DEF TypeOK, BufOK, InLogWrite
  <1>2. LogOK'
    <2>1. CASE buf[p] \in Logged
      <3>1. Absorb(buf[p]) \in DOMAIN lh /\ lh[Absorb(buf[p])] = buf[p]
        BY <2>1 DEF Absorb, Logged
      <3>. QED  BY <3>1 DEF TypeOK, LogOK, Logged
    <2>2. CASE buf[p] \notin Logged
      <3>1. Absorb(buf[p]) \notin DOMAIN lh
        BY <2>2 DEF TypeOK, Absorb
      <3>. QED  BY <2>2, <3>1 DEF TypeOK, LogOK, Logged
    <2>. QED  BY <2>1, <2>2
  <1>3. HdrOK' /\ CopyOK'
    BY DEF HdrOK, CopyOK
  <1>4. CacheOK'
    BY DEF CacheOK, DirtyLogged, Pinned, CleanOK, Logged, Busy
  <1>. QED  BY <1>1, <1>2, <1>3, <1>4

LEMMA LogWriteRecordData ==
  ASSUME IndInv, DataInv, NEW p \in Procs, LogWriteRecord(p)
  PROVE  DataInv'
  <1> USE DEF IndInv, DataInv, LogWriteRecord
  <1>1. /\ buf[p] \in Blocks /\ slot[p] \in 1 .. Len(lh) + 1
        /\ phase = "none"
    BY Working DEF RecordOK, InOp, InLogWrite
  <1>2. /\ \A q \in Procs : q # p => pc[q] # "record"
        /\ \A q \in Procs : pc'[q] # "record"
    BY DEF TypeOK, RecordOK
  <1>3. IF slot[p] \in DOMAIN lh THEN lh' = lh
                                 ELSE lh' = Append(lh, buf[p]) /\ buf[p] \notin Logged
    BY <1>1 DEF TypeOK, LogOK
  <1>4. /\ \A i, j \in DOMAIN lh' : lh'[i] = lh'[j] => i = j
        /\ Logged' = Logged \cup {buf[p]}
    <2>1. CASE slot[p] \in DOMAIN lh
      BY <1>3, <2>1 DEF LogOK, Logged
    <2>2. CASE slot[p] \notin DOMAIN lh
      <3>1. /\ DOMAIN lh' = 1 .. Len(lh) + 1 /\ DOMAIN lh = 1 .. Len(lh) /\ Len(lh) \in Nat
            /\ \A i \in 1 .. Len(lh) : lh'[i] = lh[i]
            /\ lh'[Len(lh) + 1] = buf[p]
        BY <1>1, <1>3, <2>2 DEF TypeOK
      <3>2. \A i \in 1 .. Len(lh) : lh[i] # buf[p]
        BY <1>3, <2>2, <3>1 DEF Logged
      <3>3. \A i, j \in DOMAIN lh' : lh'[i] = lh'[j] => i = j
        <4> SUFFICES ASSUME NEW i \in DOMAIN lh', NEW j \in DOMAIN lh', lh'[i] = lh'[j]
                     PROVE  i = j
          OBVIOUS
        <4>1. CASE i \in 1 .. Len(lh) /\ j \in 1 .. Len(lh)
          BY <3>1, <4>1 DEF LogOK
        <4>2. CASE i = Len(lh) + 1 \/ j = Len(lh) + 1
          BY <3>1, <3>2, <4>2
        <4>. QED  BY <3>1, <4>1, <4>2
      <3>4. Logged' = Logged \cup {buf[p]}
        BY <3>1 DEF Logged
      <3>. QED  BY <3>3, <3>4
    <2>. QED  BY <2>1, <2>2
  <1>5. BufOK'
    BY LogAssumption DEF TypeOK, BufOK, InLogWrite
  <1>6. LogOK'
    BY <1>2, <1>4 DEF LogOK
  <1>7. HdrOK' /\ CopyOK'
    BY <1>1 DEF HdrOK, CopyOK
  <1>8. CacheOK'
    <2>1. DirtyLogged'
      BY <1>4 DEF CacheOK, DirtyLogged, Pin
    <2>2. Busy \subseteq Busy' \cup {buf[p]}
      BY DEF TypeOK, Busy
    <2>. QED  BY <1>1, <2>1, <2>2 DEF CacheOK, Pinned, Pin, CleanOK
  <1>. QED  BY <1>5, <1>6, <1>7, <1>8

LEMMA EndOpData ==
  ASSUME IndInv, DataInv, NEW p \in Procs, EndOp(p)
  PROVE  DataInv'
  <1> USE DEF IndInv, DataInv, EndOp
  <1>1. phase = "none"
    BY Working DEF InOp
  <1>2. BufOK'
    BY DEF TypeOK, BufOK, InLogWrite, Woken
  <1>3. LogOK'
    <2>1. \A q \in Procs : pc'[q] = "record" => pc[q] = "record"
      BY DEF TypeOK, Woken
    <2>. QED  BY <2>1 DEF LogOK, Logged
  <1>4. HdrOK' /\ CopyOK'
    BY <1>1 DEF HdrOK, CopyOK
  <1>5. CacheOK'
    BY DEF CacheOK, DirtyLogged, Pinned, CleanOK, Logged, Busy
  <1>. QED  BY <1>2, <1>3, <1>4, <1>5

LEMMA WriteLogData ==
  ASSUME IndInv, DataInv, WriteLog
  PROVE  DataInv'
  <1> USE DEF IndInv, DataInv, WriteLog
  <1>1. BufOK' /\ LogOK'
    BY DEF TypeOK, BufOK, LogOK, Logged
  <1>2. HdrOK' /\ CacheOK'
    BY DEF HdrOK, CacheOK, DirtyLogged, Pinned, CleanOK, Logged, Busy, Loop
  <1>3. CopyOK'
    <2>1. /\ tail \in 1 .. Len(lh) /\ tail \in LogSlots /\ DOMAIN lh = 1 .. Len(lh)
          /\ Len(lh) \in Nat
      BY DEF TypeOK, RoomOK, LogSlots
    <2>2. \A i \in 1 .. tail : logd'[i] = mem[lh[i]]
      <3>1. \A i \in 1 .. tail - 1 : logd'[i] = logd[i]
        BY DEF TypeOK
      <3>2. logd'[tail] = mem[lh[tail]]
        BY <2>1 DEF TypeOK
      <3>. QED  BY <2>1, <3>1, <3>2 DEF CopyOK
    <2>. QED  BY <2>1, <2>2 DEF CopyOK, Loop
  <1>. QED  BY <1>1, <1>2, <1>3

LEMMA WriteHeadData ==
  ASSUME IndInv, DataInv, WriteHead
  PROVE  DataInv'
  <1> USE DEF IndInv, DataInv, WriteHead
  <1>1. BufOK' /\ LogOK'
    BY DEF TypeOK, BufOK, LogOK, Logged
  <1>2. HdrOK' /\ CacheOK'
    BY DEF RoomOK, HdrOK, CacheOK, DirtyLogged, Pinned, CleanOK, Logged, Busy
  <1>3. CopyOK'
    <2>1. tail = 1
      BY DEF RoomOK
    <2>. QED  BY <2>1 DEF CopyOK
  <1>. QED  BY <1>1, <1>2, <1>3

LEMMA InstallTransData ==
  ASSUME IndInv, DataInv, InstallTrans
  PROVE  DataInv'
  <1> USE DEF IndInv, DataInv, InstallTrans
  <1> DEFINE b == lh[tail]
  <1>1. /\ tail \in 1 .. Len(lh) /\ DOMAIN lh = 1 .. Len(lh) /\ Len(lh) \in Nat
        /\ b \in Blocks
    BY DEF TypeOK, RoomOK, LogSlots
  <1>2. \A i \in DOMAIN lh : lh[i] = b => i = tail
    BY <1>1 DEF LogOK
  <1>3. /\ disk'[b] = logd[tail] /\ mem'[b] = logd[tail]
        /\ \A c \in Blocks : c # b => disk'[c] = disk[c] /\ mem'[c] = mem[c]
    BY <1>1 DEF TypeOK
  <1>4. \A i \in DOMAIN lh : lh[i] \in Blocks
    BY <1>1 DEF TypeOK
  <1>5. BufOK' /\ LogOK'
    BY DEF TypeOK, BufOK, LogOK, Logged
  <1>6. HdrOK'
    BY DEF HdrOK, Loop
  <1>7. CacheOK'
    <2>1. DirtyLogged'
      BY DEF CacheOK, DirtyLogged, Logged, Unpin
    <2>2. Pinned'
      BY <1>3 DEF CacheOK, Pinned, Unpin, Busy
    <2>3. \A i \in 1 .. tail : lh[i] \notin dirty'
      BY <1>1 DEF CacheOK, CleanOK, Unpin
    <2>4. CASE tail < Len(lh)
      BY <1>1, <2>1, <2>2, <2>3, <2>4 DEF CacheOK, CleanOK, Loop
    <2>5. CASE ~ (tail < Len(lh))
      <3>1. dirty' = {}
        BY <1>1, <2>1, <2>3, <2>5 DEF DirtyLogged, Logged
      <3>. QED  BY <2>1, <2>2, <2>5, <3>1 DEF CacheOK, CleanOK, Loop
    <2>. QED  BY <2>4, <2>5
  <1>8. CopyOK'
    <2>1. committing => \A i \in DOMAIN lh : logd[i] = mem'[lh[i]]
      BY <1>1, <1>2, <1>3, <1>4 DEF CopyOK
    <2>2. \A i \in 1 .. tail : disk'[lh[i]] = logd[i]
      BY <1>1, <1>2, <1>3, <1>4 DEF CopyOK
    <2>. QED  BY <1>1, <2>1, <2>2 DEF CopyOK, Loop
  <1>. QED  BY <1>5, <1>6, <1>7, <1>8

LEMMA EraseHeadData ==
  ASSUME IndInv, DataInv, EraseHead
  PROVE  DataInv'
  <1> USE DEF IndInv, DataInv, EraseHead
  <1>1. Blocks \cap Busy = {} /\ \A p \in Procs : pc[p] # "record"
    BY NotBusy DEF InOp, InLogWrite
  <1>2. BufOK' /\ LogOK'
    BY <1>1 DEF BufOK, LogOK
  <1>3. HdrOK' /\ CopyOK'
    BY DEF HdrOK, CopyOK
  <1>4. CacheOK'
    BY <1>1 DEF CacheOK, DirtyLogged, Pinned, CleanOK
  <1>. QED  BY <1>2, <1>3, <1>4

LEMMA EndCommitData ==
  ASSUME IndInv, DataInv, NEW p \in Procs, EndCommit(p)
  PROVE  DataInv'
  <1> USE DEF IndInv, DataInv, EndCommit
  <1>1. BufOK'
    BY DEF TypeOK, BufOK, InLogWrite, Woken
  <1>2. LogOK'
    BY DEF TypeOK, LogOK, Logged, Woken
  <1>3. HdrOK' /\ CopyOK'
    BY DEF HdrOK, CopyOK
  <1>4. CacheOK'
    BY DEF CacheOK, DirtyLogged, Pinned, CleanOK, Logged, Busy
  <1>. QED  BY <1>1, <1>2, <1>3, <1>4

LEMMA CrashData ==
  ASSUME IndInv, DataInv, Crash
  PROVE  DataInv'
  <1> USE DEF IndInv, DataInv, Crash
  <1>1. BufOK'
    BY LogAssumption DEF BufOK, InLogWrite
  <1>2. LogOK'
    BY DEF LogOK
  <1>3. HdrOK' /\ CopyOK'
    BY DEF HdrOK, CopyOK
  <1>4. CacheOK'
    BY DEF CacheOK, DirtyLogged, Pinned, CleanOK
  <1>. QED  BY <1>1, <1>2, <1>3, <1>4

LEMMA ReadHeadData ==
  ASSUME IndInv, DataInv, ReadHead
  PROVE  DataInv'
  <1> USE DEF IndInv, DataInv, ReadHead
  <1>1. Booting /\ ~ committing /\ dirty = {}
    BY LogAssumption DEF PhaseOK, Booting, Committers, CacheOK, CleanOK
  <1>2. BufOK'
    BY DEF BufOK
  <1>3. LogOK'
    BY <1>1 DEF LogOK, Booting
  <1>4. HdrOK' /\ CopyOK'
    BY <1>1 DEF HdrOK, CopyOK, RoomOK
  <1>5. CacheOK'
    BY <1>1 DEF CacheOK, DirtyLogged, Pinned, CleanOK, Busy
  <1>. QED  BY <1>2, <1>3, <1>4, <1>5

LEMMA BootDoneData ==
  ASSUME IndInv, DataInv, BootDone
  PROVE  DataInv'
  <1> USE DEF IndInv, DataInv, BootDone
  <1>1. BufOK'
    BY DEF TypeOK, BufOK, InLogWrite, Booting
  <1>2. LogOK'
    BY DEF TypeOK, LogOK, Logged
  <1>3. HdrOK' /\ CopyOK'
    BY DEF HdrOK, CopyOK
  <1>4. CacheOK'
    BY DEF CacheOK, DirtyLogged, Pinned, CleanOK, Logged, Busy
  <1>. QED  BY <1>1, <1>2, <1>3, <1>4

\* A buffer that may be recycled holds what is on the disk.
LEMMA EvictNothing ==
  ASSUME IndInv, DataInv, NEW b \in Blocks, Evict(b)
  PROVE  mem' = mem
  BY DEF IndInv, DataInv, TypeOK, Evict, CacheOK, Pinned

LEMMA EvictData ==
  ASSUME IndInv, DataInv, NEW b \in Blocks, Evict(b)
  PROVE  DataInv'
  <1>1. mem' = mem
    BY EvictNothing
  <1>2. BufOK' /\ LogOK' /\ HdrOK' /\ CopyOK'
    BY <1>1 DEF Evict, DataInv, BufOK, LogOK, HdrOK, CopyOK, Logged
  <1>3. CacheOK'
    BY <1>1 DEF Evict, DataInv, CacheOK, DirtyLogged, Pinned, CleanOK, Logged, Busy
  <1>. QED  BY <1>2, <1>3 DEF DataInv

LEMMA StutterData ==
  ASSUME DataInv, UNCHANGED vars
  PROVE  DataInv'
  BY DEF vars, DataInv, BufOK, LogOK, HdrOK, CopyOK, CacheOK, DirtyLogged, Pinned,
         CleanOK, Logged, Busy

LEMMA NextData ==
  ASSUME IndInv, DataInv, [Next]_vars
  PROVE  DataInv'
  <1>1. CASE \E p \in Procs : Proc(p)
    BY <1>1, BeginOpData, ModifyData, LogWriteCheckData, LogWriteScanData,
       LogWriteRecordData, EndOpData, WriteLogData, WriteHeadData, InstallTransData,
       EraseHeadData, EndCommitData
    DEF Proc, Commit
  <1>2. CASE Recover
    BY <1>2, ReadHeadData, InstallTransData, EraseHeadData DEF Recover
  <1>3. CASE BootDone
    BY <1>3, BootDoneData
  <1>4. CASE \E b \in Blocks : Evict(b)
    BY <1>4, EvictData
  <1>5. CASE Crash
    BY <1>5, CrashData
  <1>6. CASE UNCHANGED vars
    BY <1>6, StutterData
  <1>. QED  BY <1>1, <1>2, <1>3, <1>4, <1>5, <1>6 DEF Next

THEOREM DataInvariance == SerialLogWrite => (Spec => []DataInv)
  <1> SUFFICES ASSUME SerialLogWrite PROVE Spec => []DataInv
    OBVIOUS
  <1>1. Init => DataInv
    BY InitData
  <1>2. IndInv /\ DataInv /\ [Next]_vars => DataInv'
    BY NextData
  <1>. QED  BY <1>1, <1>2, Invariance, PTL DEF Spec

\* A block newer in the cache than on the disk is busy or pinned, so bget
\* recycles no update that is not yet committed (bio.c:82-86, log.c:269).
THEOREM UpdatesArePinned == SerialLogWrite => (Spec => []Pinned)
  <1>1. DataInv => Pinned
    BY DEF DataInv, CacheOK
  <1>. QED  BY <1>1, DataInvariance, PTL

\* A pinned block is in the transaction, so the next commit writes and unpins
\* it (log.c:237-238).
THEOREM DirtyIsLogged == SerialLogWrite => (Spec => []DirtyLogged)
  <1>1. DataInv => DirtyLogged
    BY DEF DataInv, CacheOK
  <1>. QED  BY <1>1, DataInvariance, PTL

\* Absorption keeps a block once in the log, in memory and on disk (log.c:262-268).
THEOREM NoBlockTwice == SerialLogWrite => (Spec => []Absorbed)
  <1>1. DataInv => Absorbed
    BY DEF DataInv, LogOK, Absorbed
  <1>. QED  BY <1>1, DataInvariance, PTL

-----------------------------------------------------------------------------
(***************************************************************************)
(* Log implements Transactions.                                            *)
(***************************************************************************)
Current == IF Booting THEN Durable ELSE mem

\* With an empty header a reboot finds the home blocks as they are.
LEMMA DurableIsDisk ==
  ASSUME IndInv, hdr = << >>
  PROVE  Durable = disk
  BY DEF IndInv, TypeOK, Durable

\* A block the header lists comes from its only slot, any other from its home.
LEMMA DurableAt ==
  ASSUME LogOK
  PROVE  /\ \A i \in DOMAIN hdr : hdr[i] \in Blocks => Durable[hdr[i]] = logd[i]
         /\ \A b \in Blocks :
              (\A i \in DOMAIN hdr : hdr[i] # b) => Durable[b] = disk[b]
  <1>1. ASSUME NEW i \in DOMAIN hdr, hdr[i] \in Blocks
        PROVE  Durable[hdr[i]] = logd[i]
    <2>1. \A j \in DOMAIN hdr : hdr[j] = hdr[i] => j = i
      BY DEF LogOK
    <2>2. (CHOOSE j \in DOMAIN hdr : hdr[j] = hdr[i]) = i
      BY <2>1
    <2>. QED  BY <1>1, <2>2 DEF Durable
  <1>2. ASSUME NEW b \in Blocks, \A i \in DOMAIN hdr : hdr[i] # b
        PROVE  Durable[b] = disk[b]
    BY <1>2 DEF Durable
  <1>. QED  BY <1>1, <1>2

LEMMA InitRefines == Init => T!Init
  <1> SUFFICES ASSUME Init PROVE T!Init
    OBVIOUS
  <1>1. Active = {} /\ Booting
    BY DEF Init, Active, Booting, InOp, InLogWrite
  <1>2. Durable = disk
    BY DEF Init, Durable
  <1>. QED  BY <1>1, <1>2 DEF Init, T!Init

\* The processes do not move and the disk a reboot finds stays: a stutter.
LEMMA Stutters ==
  ASSUME Durable' = Durable, mem' = mem, Active' = Active, Booting' <=> Booting
  PROVE  UNCHANGED T!tvars
  BY DEF T!tvars

LEMMA BeginOpRefines ==
  ASSUME IndInv, NEW p \in Procs, BeginOp(p)
  PROVE  T!Begin(p) \/ UNCHANGED T!tvars
  <1>1. Durable' = Durable /\ mem' = mem
    BY DEF BeginOp, Durable
  <1>2. Booting' <=> Booting
    BY DEF IndInv, TypeOK, PhaseOK, BeginOp, Booting
  <1>3. CASE MustWait
    <2>1. Active' = Active
      BY <1>3 DEF IndInv, TypeOK, BeginOp, Active, InOp, InLogWrite
    <2>. QED  BY <1>1, <1>2, <2>1, Stutters
  <1>4. CASE ~ MustWait
    <2>1. Active' = Active \cup {p} /\ p \notin Active
      BY <1>4 DEF IndInv, TypeOK, BeginOp, Active, InOp, InLogWrite
    <2>. QED  BY <1>1, <1>2, <2>1 DEF T!Begin
  <1>. QED  BY <1>3, <1>4

LEMMA ModifyRefines ==
  ASSUME IndInv, NEW p \in Procs, NEW b \in Blocks, NEW v \in Vals, Modify(p, b, v)
  PROVE  T!Update(p, b, v)
  <1>1. Durable' = Durable /\ mem' = [mem EXCEPT ![b] = v]
    BY DEF Modify, Durable
  <1>2. Active' = Active /\ p \in Active
    BY DEF IndInv, TypeOK, Modify, Active, InOp, InLogWrite
  <1>3. ~ Booting /\ ~ Booting'
    BY DEF IndInv, TypeOK, Modify, Booting
  <1>. QED  BY <1>1, <1>2, <1>3 DEF T!Update

LEMMA LogWriteRefines ==
  ASSUME IndInv, NEW p \in Procs,
         LogWriteCheck(p) \/ LogWriteScan(p) \/ LogWriteRecord(p)
  PROVE  UNCHANGED T!tvars
  <1>1. Durable' = Durable /\ mem' = mem
    <2>1. hdr' = hdr /\ logd' = logd /\ disk' = disk /\ mem' = mem
      BY DEF LogWriteCheck, LogWriteScan, LogWriteRecord
    <2>. QED  BY <2>1 DEF Durable
  <1>2. Active' = Active
    BY DEF IndInv, TypeOK, LogWriteCheck, LogWriteScan, LogWriteRecord, Active, InOp,
           InLogWrite
  <1>3. Booting' <=> Booting
    BY DEF IndInv, TypeOK, LogWriteCheck, LogWriteScan, LogWriteRecord, Booting
  <1>. QED  BY <1>1, <1>2, <1>3, Stutters

LEMMA EndOpRefines ==
  ASSUME IndInv, NEW p \in Procs, EndOp(p)
  PROVE  T!End(p)
  <1>1. Durable' = Durable /\ mem' = mem
    BY DEF EndOp, Durable
  <1>2. Active' = Active \ {p} /\ p \in Active
    BY DEF IndInv, TypeOK, EndOp, Active, InOp, InLogWrite, Woken
  <1>3. ~ Booting /\ ~ Booting'
    BY DEF IndInv, TypeOK, EndOp, Booting, Woken
  <1>. QED  BY <1>1, <1>2, <1>3 DEF T!End

LEMMA WriteLogRefines ==
  ASSUME IndInv, DataInv, WriteLog
  PROVE  UNCHANGED T!tvars
  <1>1. hdr = << >> /\ hdr' = << >>
    BY DEF DataInv, HdrOK, WriteLog
  <1>2. Durable' = Durable
    BY <1>1 DEF WriteLog, Durable
  <1>3. mem' = mem /\ Active' = Active /\ (Booting' <=> Booting)
    BY DEF WriteLog, Active, Booting
  <1>. QED  BY <1>2, <1>3, Stutters

\* The commit point: the log and the blocks it does not list are the cache.
LEMMA WriteHeadRefines ==
  ASSUME IndInv, DataInv, WriteHead
  PROVE  T!Commit
  <1>1. Active = {} /\ Active' = {} /\ ~ Booting /\ ~ Booting' /\ mem' = mem
    BY Quiescent DEF WriteHead, IndInv, PhaseOK, Committers, Booting, Active
  <1>2. Durable' = mem
    <2>1. ASSUME NEW b \in Blocks PROVE Durable'[b] = mem[b]
      <3>1. CASE \E i \in DOMAIN lh : lh[i] = b
        <4>1. PICK i \in DOMAIN lh : lh[i] = b
          BY <3>1
        <4>2. hdr' = lh /\ logd' = logd
          BY DEF WriteHead
        <4>3. (CHOOSE j \in DOMAIN lh : lh[j] = b) = i
          BY <4>1 DEF DataInv, LogOK
        <4>4. Durable'[b] = logd[i]
          BY <4>1, <4>2, <4>3 DEF Durable
        <4>. QED  BY <4>1, <4>4 DEF WriteHead, DataInv, CopyOK
      <3>2. CASE ~ \E i \in DOMAIN lh : lh[i] = b
        <4>1. Durable'[b] = disk[b]
          BY <3>2 DEF WriteHead, Durable
        <4>2. b \notin dirty /\ b \notin Busy
          BY <3>2, NotBusy DEF WriteHead, DataInv, CacheOK, DirtyLogged, Logged
        <4>. QED  BY <4>1, <4>2 DEF DataInv, CacheOK, Pinned
      <3>. QED  BY <3>1, <3>2
    <2>. QED  BY <2>1 DEF Durable, IndInv, TypeOK
  <1>. QED  BY <1>1, <1>2 DEF T!Commit

\* What install_trans copies home is what the header already made durable.
LEMMA InstallTransRefines ==
  ASSUME IndInv, DataInv, InstallTrans
  PROVE  UNCHANGED T!tvars
  <1> DEFINE b == lh[tail]
  <1>1. tail \in DOMAIN lh /\ b \in Blocks /\ hdr = lh
    BY DEF InstallTrans, IndInv, TypeOK, RoomOK, LogSlots, DataInv, HdrOK
  <1>2. hdr' = hdr /\ logd' = logd /\ \A c \in Blocks : c # b => disk'[c] = disk[c]
    BY <1>1 DEF InstallTrans, IndInv, TypeOK
  <1>3. Durable' = Durable
    <2>1. \A c \in Blocks : (\A i \in DOMAIN hdr : hdr[i] # c) => disk'[c] = disk[c]
      BY <1>1, <1>2
    <2>. QED  BY <1>2, <2>1 DEF Durable
  <1>4. Active' = Active /\ (Booting' <=> Booting)
    BY DEF InstallTrans, Active, Booting
  <1>5. ~ Booting => mem' = mem
    <2>1. ~ Booting => committing
      BY DEF InstallTrans, IndInv, PhaseOK
    <2>2. committing => logd[tail] = mem[b]
      BY <1>1 DEF InstallTrans, DataInv, CopyOK
    <2>. QED  BY <2>1, <2>2 DEF InstallTrans, IndInv, TypeOK
  <1>. QED  BY <1>3, <1>4, <1>5 DEF T!tvars

LEMMA EraseHeadRefines ==
  ASSUME IndInv, DataInv, EraseHead
  PROVE  UNCHANGED T!tvars
  <1>1. hdr = lh /\ \A i \in DOMAIN lh : disk[lh[i]] = logd[i] /\ lh[i] \in Blocks
    BY DEF EraseHead, IndInv, TypeOK, DataInv, HdrOK, CopyOK
  <1>2. Durable = disk
    <2>1. \A c \in Blocks : Durable[c] = disk[c]
      BY <1>1, DurableAt DEF DataInv
    <2>. QED  BY <2>1 DEF Durable, IndInv, TypeOK
  <1>3. Durable' = disk
    BY DEF EraseHead, Durable, IndInv, TypeOK
  <1>4. mem' = mem /\ Active' = Active /\ (Booting' <=> Booting)
    BY DEF EraseHead, Active, Booting
  <1>. QED  BY <1>2, <1>3, <1>4, Stutters

LEMMA EndCommitRefines ==
  ASSUME IndInv, NEW p \in Procs, EndCommit(p)
  PROVE  UNCHANGED T!tvars
  <1>1. Durable' = Durable /\ mem' = mem
    BY DEF EndCommit, Durable
  <1>2. Active' = Active /\ (Booting' <=> Booting)
    BY DEF IndInv, TypeOK, EndCommit, Active, Booting, InOp, InLogWrite, Woken
  <1>. QED  BY <1>1, <1>2, Stutters

LEMMA CrashRefines ==
  ASSUME Crash
  PROVE  T!Crash
  <1>1. Durable' = Durable
    BY DEF Crash, Durable
  <1>2. Active' = {} /\ Booting'
    BY DEF Crash, Active, Booting, InOp, InLogWrite
  <1>. QED  BY <1>1, <1>2 DEF T!Crash

LEMMA ReadHeadRefines ==
  ASSUME ReadHead
  PROVE  UNCHANGED T!tvars
  <1>1. Durable' = Durable /\ mem' = mem
    BY DEF ReadHead, Durable
  <1>2. Active' = Active /\ (Booting' <=> Booting)
    BY DEF ReadHead, Active, Booting
  <1>. QED  BY <1>1, <1>2, Stutters

\* After recovery the cache holds what the reboot was to find.
LEMMA BootDoneRefines ==
  ASSUME IndInv, DataInv, BootDone
  PROVE  UNCHANGED T!tvars
  <1>1. hdr = << >> /\ dirty = {} /\ Blocks \cap Busy = {}
    BY NotBusy DEF BootDone, DataInv, HdrOK, CacheOK, CleanOK
  <1>2. Durable = disk /\ Durable' = Durable
    BY <1>1, DurableIsDisk DEF BootDone, Durable
  <1>3. mem = disk /\ mem' = mem
    BY <1>1 DEF BootDone, DataInv, CacheOK, Pinned, IndInv, TypeOK
  <1>4. Active = {} /\ Active' = {} /\ Booting
    BY DEF BootDone, Active, Booting, InOp, InLogWrite
  <1>. QED  BY <1>2, <1>3, <1>4 DEF T!tvars

LEMMA EvictRefines ==
  ASSUME IndInv, DataInv, NEW b \in Blocks, Evict(b)
  PROVE  UNCHANGED T!tvars
  <1>1. mem' = mem
    BY EvictNothing
  <1>2. Durable' = Durable /\ Active' = Active /\ (Booting' <=> Booting)
    BY DEF Evict, Durable, Active, Booting
  <1>. QED  BY <1>1, <1>2, Stutters

LEMMA NextRefines ==
  ASSUME IndInv, DataInv, [Next]_vars
  PROVE  [T!Next]_(T!tvars)
  <1>1. CASE \E p \in Procs : Proc(p)
    <2>1. PICK p \in Procs : Proc(p)
      BY <1>1
    <2>2. CASE BeginOp(p)
      BY <2>2, BeginOpRefines DEF T!Next
    <2>3. CASE \E b \in Blocks, v \in Vals : Modify(p, b, v)
      BY <2>3, ModifyRefines DEF T!Next
    <2>4. CASE LogWriteCheck(p) \/ LogWriteScan(p) \/ LogWriteRecord(p)
      BY <2>4, LogWriteRefines
    <2>5. CASE EndOp(p)
      BY <2>5, EndOpRefines DEF T!Next
    <2>6. CASE Commit(p)
      BY <2>6, WriteLogRefines, WriteHeadRefines, InstallTransRefines, EraseHeadRefines
      DEF Commit, T!Next
    <2>7. CASE EndCommit(p)
      BY <2>7, EndCommitRefines
    <2>. QED  BY <2>1, <2>2, <2>3, <2>4, <2>5, <2>6, <2>7 DEF Proc
  <1>2. CASE Recover
    BY <1>2, ReadHeadRefines, InstallTransRefines, EraseHeadRefines DEF Recover
  <1>3. CASE BootDone
    BY <1>3, BootDoneRefines
  <1>4. CASE \E b \in Blocks : Evict(b)
    BY <1>4, EvictRefines
  <1>5. CASE Crash
    BY <1>5, CrashRefines DEF T!Next
  <1>6. CASE UNCHANGED vars
    BY <1>6 DEF vars, T!tvars, Durable, Active, Booting
  <1>. QED  BY <1>1, <1>2, <1>3, <1>4, <1>5, <1>6 DEF Next

\* The file system calls are atomic with respect to crashes, however many
\* processes, blocks and crashes there are: the commit point is the first
\* write_head of commit, and recover_from_log may be cut short and run again.
THEOREM LogImplementsTransactions == SerialLogWrite => (Spec => Atomic)
  <1> SUFFICES ASSUME SerialLogWrite PROVE Spec => T!Spec
    BY DEF Atomic
  <1>1. Init => T!Init
    BY InitRefines
  <1>2. IndInv /\ DataInv /\ [Next]_vars => [T!Next]_(T!tvars)
    BY NextRefines
  <1>. QED  BY <1>1, <1>2, Invariance, DataInvariance, PTL DEF Spec, T!Spec

-----------------------------------------------------------------------------
(***************************************************************************)
(* The third invariant: the reservation of begin_op.  It only suffices when *)
(* the calls write less than MAXOPBLOCKS blocks (run Log_full).              *)
(***************************************************************************)

\* The blocks that the calls in progress may still add to the log.
Left == {x \in Procs \X (1 .. OpBlocks) :
           x[1] \in Active /\ x[2] > Cardinality(wrote[x[1]])}

\* A call has logged what it has written, and can write what it is about to.
CallOK(p) ==
  p \in Active =>
    /\ IsFiniteSet(wrote[p]) /\ wrote[p] \subseteq Logged /\ Cardinality(wrote[p]) <= OpBlocks
    /\ pc[p] \in InLogWrite => buf[p] \in wrote[p] \/ Cardinality(wrote[p]) < OpBlocks

\* Between two groups the log is empty; in a group there is room for what is to come.
SizeInv ==
  /\ ~ panicked
  /\ phase = "none" /\ Active = {} => lh = << >>
  /\ \A p \in Procs : CallOK(p)
  /\ Active # {} => Len(lh) + Cardinality(Left) <= LOGSIZE - 2

LEMMA LeftFinite ==
  /\ IsFiniteSet(Procs \X (1 .. OpBlocks))
  /\ \A S \in SUBSET (Procs \X (1 .. OpBlocks)) : IsFiniteSet(S) /\ Cardinality(S) \in Nat
  <1>1. IsFiniteSet(1 .. OpBlocks)
    BY LogAssumption, FS_Interval
  <1>2. IsFiniteSet(Procs \X (1 .. OpBlocks))
    BY <1>1, LogAssumption, FS_Product
  <1>. QED  BY <1>2, FS_Subset, FS_CardinalityType

LEMMA LeftFewer ==
  ASSUME Left' \subseteq Left
  PROVE  Cardinality(Left') <= Cardinality(Left) /\ Cardinality(Left) \in Nat
         /\ Cardinality(Left') \in Nat
  <1>1. Left \in SUBSET (Procs \X (1 .. OpBlocks)) /\ Left' \in SUBSET (Procs \X (1 .. OpBlocks))
    BY DEF Left
  <1>. QED  BY <1>1, LeftFinite, FS_Subset

\* Each call in progress may add OpBlocks blocks at most.
LEMMA LeftBound ==
  IndInv => Cardinality(Left) <= outstanding * OpBlocks /\ Cardinality(Left) \in Nat
  <1> SUFFICES ASSUME IndInv
               PROVE  Cardinality(Left) <= outstanding * OpBlocks /\ Cardinality(Left) \in Nat
    OBVIOUS
  <1> DEFINE S == Active \X (1 .. OpBlocks)
  <1>1. IsFiniteSet(1 .. OpBlocks) /\ Cardinality(1 .. OpBlocks) = OpBlocks
    BY LogAssumption, FS_Interval
  <1>2. IsFiniteSet(S) /\ Cardinality(S) = outstanding * OpBlocks
    <2>1. IsFiniteSet(S) /\ Cardinality(S) = Cardinality(Active) * Cardinality(1 .. OpBlocks)
      BY <1>1, ActiveFinite, FS_Product
    <2>. QED  BY <1>1, <2>1 DEF IndInv, CountOK
  <1>3. Left \subseteq S
    BY DEF Left
  <1> HIDE DEF S
  <1>. QED  BY <1>2, <1>3, FS_Subset, FS_CardinalityType

\* No call in progress: nothing is reserved.
LEMMA QuietSize ==
  ASSUME Active' = {}, ~ panicked', phase' = "none" => lh' = << >>
  PROVE  SizeInv'
  BY DEF SizeInv, CallOK

\* A step that changes neither the calls nor the log.
LEMMA KeptSize ==
  ASSUME SizeInv, UNCHANGED <<lh, phase, wrote>>, Active' = Active, ~ panicked',
         \A p \in Procs : CallOK(p)'
  PROVE  SizeInv'
  <1>1. Left' = Left
    BY DEF Left
  <1>. QED  BY <1>1 DEF SizeInv

\* The reservation that begin_op tests covers the new call and those before it.
LEMMA BeginOpSize ==
  ASSUME OpBlocks < MAXOPBLOCKS, MAXOPBLOCKS < LOGSIZE, IndInv, SizeInv,
         NEW p \in Procs, BeginOp(p)
  PROVE  SizeInv'
  <1> USE DEF IndInv, SizeInv
  <1>1. CASE MustWait
    <2>1. Active' = Active /\ UNCHANGED <<lh, phase, wrote>> /\ ~ panicked'
      BY <1>1 DEF BeginOp, TypeOK, Active, InOp, InLogWrite
    <2>2. \A q \in Procs : CallOK(q)'
      BY <1>1, <2>1 DEF BeginOp, TypeOK, CallOK, Logged, InLogWrite
    <2>. QED  BY <2>1, <2>2, KeptSize
  <1>2. CASE ~ MustWait
    <2>1. /\ Active' = Active \cup {p} /\ p \notin Active
          /\ wrote' = [wrote EXCEPT ![p] = {}] /\ pc'[p] = "op"
          /\ UNCHANGED <<lh, phase, buf, panicked>>
      BY <1>2 DEF BeginOp, TypeOK, Active, InOp, InLogWrite
    <2>2. ASSUME NEW q \in Procs PROVE CallOK(q)'
      <3>1. CASE q = p
        BY <2>1, <3>1, LogAssumption, FS_EmptySet DEF TypeOK, CallOK, InLogWrite
      <3>2. CASE q # p
        BY <1>2, <2>1, <3>2 DEF BeginOp, TypeOK, CallOK, Logged
      <3>. QED  BY <3>1, <3>2
    <2>3. Len(lh) + (outstanding + 1) * MAXOPBLOCKS <= LOGSIZE /\ ~ committing /\ ~ Booting
      BY <1>2, LogAssumption DEF MustWait, BeginOp, TypeOK, Booting
    <2>4. Cardinality(Left') <= (outstanding + 1) * OpBlocks /\ Cardinality(Left') \in Nat
      <3>1. outstanding' = outstanding + 1
        BY <1>2 DEF BeginOp
      <3>2. IndInv'
        BY BeginOpInv
      <3>3. IndInv' => (Cardinality(Left) <= outstanding * OpBlocks /\ Cardinality(Left) \in Nat)'
        BY LeftBound, PTL
      <3>. QED  BY <3>1, <3>2, <3>3
    <2>5. Len(lh) + Cardinality(Left') <= LOGSIZE - 2
      <3>1. outstanding \in Nat /\ Len(lh) \in Nat
        BY DEF TypeOK
      <3>2. CASE outstanding = 0
        <4>1. Active = {}
          BY <3>2, ActiveFinite, FS_EmptySet DEF CountOK
        <4>2. Len(lh) = 0
          BY <2>3, <4>1 DEF PhaseOK
        <4>3. Cardinality(Left') <= OpBlocks
          BY <2>4, <3>2, LogAssumption
        <4>. QED  BY <2>4, <4>2, <4>3, LogAssumption
      <3>3. CASE outstanding >= 1
        <4> DEFINE n == outstanding + 1
        <4>1. n \in Nat /\ n >= 2
          BY <3>1, <3>3
        <4>2. n * MAXOPBLOCKS \in Nat /\ n * OpBlocks \in Nat /\ n * OpBlocks + n <= n * MAXOPBLOCKS
          <5> HIDE DEF n
          <5>1. \A m \in Nat : n * m \in Nat
            BY <4>1
          <5>2. MAXOPBLOCKS - OpBlocks - 1 \in Nat
            BY LogAssumption
          <5>3. n * MAXOPBLOCKS = n * OpBlocks + n + n * (MAXOPBLOCKS - OpBlocks - 1)
            BY <4>1, LogAssumption
          <5>. QED  BY <4>1, <5>1, <5>2, <5>3, LogAssumption
        <4>. QED  BY <2>3, <2>4, <3>1, <4>1, <4>2, LogAssumption
      <3>. QED  BY <3>1, <3>2, <3>3
    <2>. QED  BY <2>1, <2>2, <2>5
  <1>. QED  BY <1>1, <1>2

LEMMA ModifySize ==
  ASSUME IndInv, SizeInv, NEW p \in Procs, NEW b \in Blocks, NEW v \in Vals, Modify(p, b, v)
  PROVE  SizeInv'
  <1> USE DEF IndInv, SizeInv, Modify
  <1>1. Active' = Active
    BY DEF TypeOK, Active, InOp, InLogWrite
  <1>2. ASSUME NEW q \in Procs PROVE CallOK(q)'
    BY <1>1 DEF TypeOK, CallOK, Logged, InLogWrite
  <1>. QED  BY <1>1, <1>2, KeptSize

\* The panics of log_write: there is room, and the process itself is outstanding.
LEMMA LogWriteCheckSize ==
  ASSUME IndInv, SizeInv, NEW p \in Procs, LogWriteCheck(p)
  PROVE  SizeInv'
  <1> USE DEF IndInv, SizeInv, LogWriteCheck
  <1>1. p \in Active /\ Active' = Active
    BY DEF TypeOK, Active, InOp, InLogWrite
  <1>2. ~ TooBig
    <2>1. Len(lh) + Cardinality(Left) <= LOGSIZE - 2 /\ Cardinality(Left) \in Nat
      BY <1>1, LeftBound
    <2>. QED  BY <2>1, SizeFacts DEF TypeOK, TooBig, NLog
  <1>3. outstanding >= 1
    <2>1. outstanding # 0
      BY <1>1, ActiveFinite, FS_EmptySet DEF CountOK
    <2>. QED  BY <2>1 DEF TypeOK
  <1>4. ~ panicked'
    BY <1>2, <1>3 DEF TypeOK
  <1>5. ASSUME NEW q \in Procs PROVE CallOK(q)'
    BY <1>1 DEF TypeOK, CallOK, Logged, InLogWrite
  <1>. QED  BY <1>1, <1>4, <1>5, KeptSize

LEMMA LogWriteScanSize ==
  ASSUME IndInv, SizeInv, NEW p \in Procs, LogWriteScan(p)
  PROVE  SizeInv'
  <1> USE DEF IndInv, SizeInv, LogWriteScan
  <1>1. Active' = Active
    BY DEF TypeOK, Active, InOp, InLogWrite
  <1>2. ASSUME NEW q \in Procs PROVE CallOK(q)'
    BY <1>1 DEF TypeOK, CallOK, Logged, InLogWrite
  <1>. QED  BY <1>1, <1>2, KeptSize

\* A new block in the log takes the place of one that was left to the call.
LEMMA LogWriteRecordSize ==
  ASSUME IndInv, DataInv, SizeInv, NEW p \in Procs, LogWriteRecord(p)
  PROVE  SizeInv'
  <1> USE DEF IndInv, SizeInv
  <1> DEFINE b == buf[p]
             n == Cardinality(wrote[p])
  <1>1. /\ Active' = Active /\ p \in Active /\ pc'[p] = "op"
        /\ wrote' = [wrote EXCEPT ![p] = @ \cup {b}] /\ UNCHANGED <<phase, panicked>>
        /\ \A q \in Procs : q # p => pc'[q] = pc[q] /\ buf'[q] = buf[q]
    BY DEF LogWriteRecord, TypeOK, Active, InOp, InLogWrite
  <1>2. /\ b \in Blocks /\ slot[p] \in 1 .. Len(lh) + 1
        /\ IF slot[p] \in DOMAIN lh THEN lh' = lh
                                    ELSE lh' = Append(lh, b) /\ b \notin Logged
    BY DEF LogWriteRecord, RecordOK, TypeOK, DataInv, LogOK
  <1>3. Logged' = Logged \cup {b}
    <2>1. CASE slot[p] \in DOMAIN lh
      BY <1>2, <2>1 DEF LogWriteRecord, DataInv, LogOK, Logged
    <2>2. CASE slot[p] \notin DOMAIN lh
      <3>0. lh' = Append(lh, b) /\ b \in Blocks
        BY <1>2, <2>2
      <3>1. /\ DOMAIN lh' = 1 .. Len(lh) + 1 /\ DOMAIN lh = 1 .. Len(lh) /\ Len(lh) \in Nat
            /\ \A i \in 1 .. Len(lh) : lh'[i] = lh[i]
            /\ lh'[Len(lh) + 1] = b
        BY <3>0 DEF TypeOK
      <3>. QED  BY <3>1 DEF Logged
    <2>. QED  BY <2>1, <2>2
  <1>4. /\ IsFiniteSet(wrote[p]) /\ wrote[p] \subseteq Logged /\ n \in Nat /\ n <= OpBlocks
        /\ b \in wrote[p] \/ n < OpBlocks
    <2>1. pc[p] \in InLogWrite
      BY DEF LogWriteRecord, InLogWrite
    <2>. QED  BY <1>1, <2>1, FS_CardinalityType DEF CallOK
  <1>5. /\ IsFiniteSet(wrote[p] \cup {b})
        /\ Cardinality(wrote[p] \cup {b}) = IF b \in wrote[p] THEN n ELSE n + 1
    BY <1>4, FS_AddElement
  <1>6. ASSUME NEW q \in Procs PROVE CallOK(q)'
    <2>1. CASE q = p
      BY <1>1, <1>3, <1>4, <1>5, <2>1, LogAssumption DEF TypeOK, CallOK, InLogWrite
    <2>2. CASE q # p
      BY <1>1, <1>3, <2>2 DEF TypeOK, CallOK
    <2>. QED  BY <2>1, <2>2
  <1>7. Left' \subseteq Left
    <2>1. \A q \in Procs : q # p => wrote'[q] = wrote[q]
      BY <1>1 DEF TypeOK
    <2>2. Cardinality(wrote'[p]) >= n /\ Cardinality(wrote'[p]) \in Nat
      BY <1>1, <1>4, <1>5 DEF TypeOK
    <2>3. ASSUME NEW x \in Left' PROVE x \in Left
      <3>1. CASE x[1] = p
        <4>1. x \in Procs \X (1 .. OpBlocks) /\ x[2] \in Int /\ x[2] > Cardinality(wrote'[p])
          BY <3>1, LogAssumption DEF Left
        <4>. QED  BY <1>1, <1>4, <2>2, <3>1, <4>1 DEF Left
      <3>2. CASE x[1] # p
        BY <1>1, <2>1, <3>2 DEF Left
      <3>. QED  BY <3>1, <3>2
    <2>. QED  BY <2>3
  <1>8. Len(lh') + Cardinality(Left') <= LOGSIZE - 2
    <2>1. Len(lh) \in Nat
      BY DEF TypeOK
    <2>2. CASE lh' = lh
      BY <1>1, <1>7, <2>1, <2>2, LeftFewer, LogAssumption
    <2>3. CASE lh' # lh
      <3>1. b \notin wrote[p] /\ Len(lh') = Len(lh) + 1
        BY <1>2, <1>4, <2>3 DEF TypeOK
      <3>2. <<p, n + 1>> \in Left
        BY <1>1, <1>4, <3>1, LogAssumption DEF Left
      <3>3. <<p, n + 1>> \notin Left'
        <4>1. Cardinality(wrote'[p]) = n + 1
          BY <1>1, <1>5, <3>1 DEF TypeOK
        <4>. QED  BY <1>4, <4>1 DEF Left
      <3>4. Left \in SUBSET (Procs \X (1 .. OpBlocks))
        BY DEF Left
      <3>5. /\ IsFiniteSet(Left \ {<<p, n + 1>>})
            /\ Cardinality(Left \ {<<p, n + 1>>}) = Cardinality(Left) - 1
        BY <3>2, <3>4, LeftFinite, FS_RemoveElement
      <3>6. Cardinality(Left') <= Cardinality(Left) - 1
        BY <1>7, <3>3, <3>5, FS_Subset
      <3>. QED  BY <1>1, <1>7, <2>1, <3>1, <3>6, LeftFewer, LogAssumption
    <2>. QED  BY <2>2, <2>3
  <1>. QED  BY <1>1, <1>6, <1>8

\* What a call did not use is free again; the last call starts the commit.
LEMMA EndOpSize ==
  ASSUME IndInv, SizeInv, NEW p \in Procs, EndOp(p)
  PROVE  SizeInv'
  <1> USE DEF IndInv, SizeInv
  <1>1. /\ p \in Active /\ Active' = Active \ {p} /\ ~ committing
        /\ UNCHANGED <<lh, buf, wrote>>
    BY DEF EndOp, TypeOK, Active, InOp, InLogWrite, CountOK, Woken
  <1>2. ~ panicked'
    BY <1>1 DEF EndOp
  <1>3. CASE Active' = {}
    <2>1. Active = {p}
      BY <1>1, <1>3
    <2>2. outstanding = 1
      BY <2>1, FS_Singleton DEF CountOK
    <2>. QED  BY <1>2, <1>3, <2>2, QuietSize DEF EndOp
  <1>4. CASE Active' # {}
    <2>1. \A q \in Active' : pc'[q] = pc[q]
      BY <1>1 DEF EndOp, TypeOK, Active, InOp, InLogWrite, Woken
    <2>2. ASSUME NEW q \in Procs PROVE CallOK(q)'
      BY <1>1, <2>1 DEF CallOK, Logged
    <2>3. Left' \subseteq Left
      BY <1>1 DEF Left
    <2>. QED  BY <1>1, <1>2, <1>4, <2>2, <2>3, LeftFewer, LogAssumption DEF TypeOK
  <1>. QED  BY <1>3, <1>4

LEMMA NextSize ==
  ASSUME SerialLogWrite, OpBlocks < MAXOPBLOCKS, MAXOPBLOCKS < LOGSIZE,
         IndInv, IndInv', DataInv, SizeInv, [Next]_vars
  PROVE  SizeInv'
  <1> USE DEF IndInv
  <1>1. CASE \E p \in Procs : BeginOp(p) \/ LogWriteCheck(p) \/ LogWriteScan(p)
                              \/ LogWriteRecord(p) \/ EndOp(p)
    BY <1>1, BeginOpSize, LogWriteCheckSize, LogWriteScanSize, LogWriteRecordSize, EndOpSize
  <1>2. CASE \E p \in Procs, b \in Blocks, v \in Vals : Modify(p, b, v)
    BY <1>2, ModifySize
  <1>3. CASE WriteLog \/ WriteHead \/ InstallTrans \/ EraseHead \/ ReadHead
    <2>1. Active' = {}
      BY <1>3, Quiescent, PcKept DEF WriteLog, WriteHead, InstallTrans, EraseHead, ReadHead
    <2>2. ~ panicked' /\ phase' # "none"
      BY <1>3 DEF WriteLog, WriteHead, InstallTrans, EraseHead, ReadHead, Loop
    <2>. QED  BY <2>1, <2>2, QuietSize
  <1>4. CASE BootDone \/ \E p \in Procs : EndCommit(p)
    <2>1. phase = "done" /\ ~ panicked' /\ lh' = lh
      BY <1>4 DEF BootDone, EndCommit
    <2>2. lh = << >> /\ Active = {}
      BY <2>1, Quiescent DEF DataInv, HdrOK
    <2>3. Active' = {}
      BY <1>4, <2>2 DEF BootDone, EndCommit, TypeOK, Active, InOp, InLogWrite, Woken
    <2>. QED  BY <2>1, <2>2, <2>3, QuietSize
  <1>5. CASE \E b \in Blocks : Evict(b)
    <2>1. Active' = Active /\ UNCHANGED <<lh, phase, wrote, pc, buf>> /\ ~ panicked'
      BY <1>5 DEF Evict, Active
    <2>2. \A p \in Procs : CallOK(p)'
      BY <2>1 DEF SizeInv, CallOK, Logged
    <2>. QED  BY <2>1, <2>2, KeptSize
  <1>6. CASE Crash
    BY <1>6, QuietSize DEF Crash, Active, InOp, InLogWrite
  <1>7. CASE UNCHANGED vars
    <2>1. Active' = Active /\ Logged' = Logged /\ Left' = Left
      BY <1>7 DEF vars, Active, Logged, Left
    <2>. QED  BY <1>7, <2>1 DEF vars, SizeInv, CallOK
  <1>. QED  BY <1>1, <1>2, <1>3, <1>4, <1>5, <1>6, <1>7 DEF Next, Proc, Commit, Recover

\* begin_op's reservation keeps log_write from panicking, for calls that write less than
\* MAXOPBLOCKS blocks: however many are admitted together, in whatever order they log and
\* end, and after any number of crashes.
THEOREM LogHasRoom ==
  SerialLogWrite /\ OpBlocks < MAXOPBLOCKS /\ MAXOPBLOCKS < LOGSIZE => (Spec => []NeverTooBig)
  <1> SUFFICES ASSUME SerialLogWrite, OpBlocks < MAXOPBLOCKS, MAXOPBLOCKS < LOGSIZE
               PROVE  Spec => []NeverTooBig
    OBVIOUS
  <1>1. Init => SizeInv
    BY QuietSize DEF Init, SizeInv, CallOK, Active, InOp, InLogWrite
  <1>2. IndInv /\ IndInv' /\ DataInv /\ SizeInv /\ [Next]_vars => SizeInv'
    BY NextSize
  <1>3. SizeInv => NeverTooBig
    BY DEF SizeInv, NeverTooBig
  <1>. QED  BY <1>1, <1>2, <1>3, Invariance, DataInvariance, PTL DEF Spec
=============================================================================
