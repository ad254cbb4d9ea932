-------------------------------- MODULE Disk --------------------------------
(***************************************************************************)
(* The buffer cache (bio.c) over the disk driver (ide.c): NBUF buffers in  *)
(* LRU order, recycled when they are neither busy nor dirty, and a queue   *)
(* of requests that the interrupt handler goes through.                    *)
(*                                                                         *)
(* A critical section of bcache.lock or idelock is a step; sleep and       *)
(* wakeup are what module Sched shows them to be.  The drive works         *)
(* concurrently.  It reports an error for the sectors in Bad.              *)
(***************************************************************************)
EXTENDS Integers, Sequences, FiniteSets

CONSTANTS
  Procs,
  NoProc,     \* B_BUSY is clear
  NBUF,
  Sectors,
  NoSector,   \* dev = -1: the buffer has been for no sector yet
  Bad,        \* the sectors the drive cannot read or write
  Vals,       \* the contents a sector can have
  Nothing,
  MaxPinned   \* bound: buffers the log keeps dirty at a time

Bufs == 1..NBUF
Good == Sectors \ Bad

ASSUME DiskAssumption ==
  /\ NBUF \in Nat /\ MaxPinned \in Nat
  /\ IsFiniteSet(Procs) /\ NoProc \notin Procs
  /\ NBUF >= Cardinality(Procs) + MaxPinned
  /\ NoSector \notin Sectors /\ Bad \subseteq Sectors
  /\ Nothing \notin Vals

VARIABLES
  buf,        \* struct buf: [sector, busy, valid, dirty, data], where busy is the process
              \* that has set B_BUSY
  lru,        \* bcache.head.next, ..., bcache.head.prev
  idequeue,
  drive,      \* [cmd, sector, data]: the command the drive is at
  disk,       \* the content of the good sectors
  pc,
  want,       \* the sector a process has called bread for
  slot        \* the buffer a process has, or waits for in bget

vars == <<buf, lru, idequeue, drive, disk, pc, want, slot>>

\* A process is asleep in bget at "busy", and in iderw at "iowait".
Pcs  == {"idle", "bget", "busy", "read", "iderw", "iowait", "use"}
Idle == [cmd |-> "idle", sector |-> NoSector, data |-> Nothing]

\* brelse: to the head of the list, from place k.
Front(b) ==
  LET k == CHOOSE i \in Bufs : lru[i] = b
  IN  [i \in Bufs |-> IF i = 1 THEN b ELSE IF i <= k THEN lru[i - 1] ELSE lru[i]]

\* wakeup(b): the sleepers in bget and those in iderw have the same channel.
Woken(b) ==
  [p \in Procs |->
    CASE slot[p] = b /\ pc[p] = "busy"   -> "bget"
      [] slot[p] = b /\ pc[p] = "iowait" -> "iderw"
      [] OTHER                           -> pc[p]]

-----------------------------------------------------------------------------
(* The driver.                                                             *)

\* idestart: a write takes the data of the buffer with it.
Started(bs, b) ==
  [cmd |-> IF bs[b].dirty THEN "write" ELSE "read", sector |-> bs[b].sector,
   data |-> IF bs[b].dirty THEN bs[b].data ELSE Nothing]

StartFirst(bs, b) == IF idequeue = << >> THEN Started(bs, b) ELSE drive

\* iderw(b), where the buffers are bs, up to its first sleep.
Iderw(p, bs, b) ==
  /\ buf' = bs
  /\ idequeue' = Append(idequeue, b)
  /\ drive' = StartFirst(bs, b)
  /\ pc' = [pc EXCEPT ![p] = "iowait"]

Done(b) == buf[b].valid /\ ~ buf[b].dirty

\* iderw, awake: the request is finished, or sleep again.
IderwWakes(p) ==
  /\ pc[p] = "iderw"
  /\ pc' = [pc EXCEPT ![p] = IF Done(slot[p]) THEN "use" ELSE "iowait"]
  /\ UNCHANGED <<buf, lru, idequeue, drive, disk, want, slot>>

\* Mutant: the next request is not started.
NextForgotten(bs, q) == Idle

NextStarted(bs, q) == IF q = << >> THEN Idle ELSE Started(bs, Head(q))

\* ideintr, when the drive has done the command, of which nothing could be seen
\* before: the head of the queue is done, and without an error its data is read.
\* An error shows in nothing else.
Ideintr ==
  /\ drive.cmd # "idle" /\ idequeue # << >>
  /\ disk' = IF drive.cmd = "write" /\ drive.sector \in Good
             THEN [disk EXCEPT ![drive.sector] = drive.data] ELSE disk
  /\ LET b    == Head(idequeue)
         read == ~ buf[b].dirty /\ drive.sector \in Good
     IN  /\ buf' = [buf EXCEPT ![b].data = IF read THEN disk[drive.sector] ELSE @,
                               ![b].valid = TRUE, ![b].dirty = FALSE]
         /\ pc' = Woken(b)
  /\ idequeue' = Tail(idequeue)
  /\ drive' = NextStarted(buf', idequeue')
  /\ UNCHANGED <<lru, want, slot>>

-----------------------------------------------------------------------------
(* The cache.                                                              *)

Cached(s) == {b \in Bufs : buf[b].sector = s}

\* bread(s) is called, or bget's loop is back at its start.
Asks(p, s) == pc[p] = "idle" \/ (pc[p] = "bget" /\ want[p] = s)

\* bread, back from bget with buffer b, which is to be read unless it is valid.
Bread(p, b, valid) == pc' = [pc EXCEPT ![p] = IF valid THEN "use" ELSE "read"]

\* The sector is cached: take the buffer, or sleep until it is released.
BgetHit(p, s) ==
  /\ Asks(p, s)
  /\ \E b \in Cached(s) :
       /\ slot' = [slot EXCEPT ![p] = b]
       /\ IF buf[b].busy = NoProc
          THEN buf' = [buf EXCEPT ![b].busy = p] /\ Bread(p, b, buf[b].valid)
          ELSE pc' = [pc EXCEPT ![p] = "busy"] /\ UNCHANGED buf
  /\ want' = [want EXCEPT ![p] = s]
  /\ UNCHANGED <<lru, idequeue, drive, disk>>

\* Mutants: a dirty buffer is recycled; a busy one.
RecyclableDirty(b) == buf[b].busy = NoProc
RecyclableBusy(b)  == ~ buf[b].dirty

Recyclable(b) == buf[b].busy = NoProc /\ ~ buf[b].dirty

\* b->flags = B_BUSY; the data of the old sector is as good as nothing.
Recycled(p, s, b) ==
  [sector |-> s, busy |-> p, valid |-> FALSE, dirty |-> FALSE, data |-> Nothing]

\* Not cached: the least recently used buffer that is neither busy nor dirty.
BgetMiss(p, s) ==
  /\ Asks(p, s) /\ Cached(s) = {}
  /\ \E i \in Bufs :
       /\ Recyclable(lru[i])
       /\ \A j \in (i + 1)..NBUF : ~ Recyclable(lru[j])
       /\ buf' = [buf EXCEPT ![lru[i]] = Recycled(p, s, lru[i])]
       /\ slot' = [slot EXCEPT ![p] = lru[i]]
       /\ Bread(p, lru[i], buf'[lru[i]].valid)
  /\ want' = [want EXCEPT ![p] = s]
  /\ UNCHANGED <<lru, idequeue, drive, disk>>

\* bread: iderw.
BreadIderw(p) ==
  /\ pc[p] = "read"
  /\ Iderw(p, buf, slot[p])
  /\ UNCHANGED <<lru, disk, want, slot>>

\* A new content, to be written; none is kept of a bad sector.
Changed(b, v) ==
  [buf EXCEPT ![b].data = IF buf[b].sector \in Good THEN v ELSE @, ![b].dirty = TRUE]

\* The process changes the data, as all callers of bwrite do, and bwrite.
Bwrite(p, v) ==
  /\ pc[p] = "use"
  /\ Iderw(p, Changed(slot[p], v), slot[p])
  /\ UNCHANGED <<lru, disk, want, slot>>

PinnedBut(b) == {c \in Bufs \ {b} : buf[c].dirty /\ c \notin {idequeue[i] : i \in 1..Len(idequeue)}}

\* log_write: b->flags |= B_DIRTY, after a change of the data.
LogWrite(p, v) ==
  /\ pc[p] = "use"
  /\ Cardinality(PinnedBut(slot[p])) < MaxPinned
  /\ buf' = Changed(slot[p], v)
  /\ UNCHANGED <<lru, idequeue, drive, disk, pc, want, slot>>

Brelse(p) ==
  /\ pc[p] = "use"
  /\ lru' = Front(slot[p])
  /\ buf' = [buf EXCEPT ![slot[p]].busy = NoProc]
  /\ pc' = [Woken(slot[p]) EXCEPT ![p] = "idle"]
  /\ slot' = [slot EXCEPT ![p] = 0]
  /\ want' = [want EXCEPT ![p] = NoSector]
  /\ UNCHANGED <<idequeue, drive, disk>>

-----------------------------------------------------------------------------
\* binit
Init ==
  /\ disk \in [Good -> Vals]
  /\ buf = [b \in Bufs |-> [sector |-> NoSector, busy |-> NoProc, valid |-> FALSE,
                            dirty |-> FALSE, data |-> Nothing]]
  /\ lru = [i \in Bufs |-> NBUF + 1 - i]
  /\ idequeue = << >>
  /\ drive = Idle
  /\ pc = [p \in Procs |-> "idle"]
  /\ want = [p \in Procs |-> NoSector]
  /\ slot = [p \in Procs |-> 0]

Next ==
  \/ Ideintr
  \/ \E p \in Procs :
       \/ BreadIderw(p)
       \/ IderwWakes(p)
       \/ Brelse(p)
       \/ \E s \in Sectors : BgetHit(p, s) \/ BgetMiss(p, s)
       \/ \E v \in Vals : Bwrite(p, v) \/ LogWrite(p, v)

Spec == Init /\ [][Next]_vars

-----------------------------------------------------------------------------
\* Every variable keeps its type, and the LRU list has every buffer once.
TypeOK ==
  /\ buf \in [Bufs -> [sector : Sectors \cup {NoSector}, busy : Procs \cup {NoProc},
                       valid : BOOLEAN, dirty : BOOLEAN, data : Vals \cup {Nothing}]]
  /\ lru \in [Bufs -> Bufs] /\ \A i, j \in Bufs : lru[i] = lru[j] => i = j
  /\ idequeue \in Seq(Bufs)
  /\ drive \in [cmd : {"idle", "read", "write"}, sector : Sectors \cup {NoSector},
                data : Vals \cup {Nothing}]
  /\ disk \in [Good -> Vals]
  /\ pc \in [Procs -> Pcs]
  /\ want \in [Procs -> Sectors \cup {NoSector}]
  /\ slot \in [Procs -> Bufs \cup {0}]

\* The buffers bget finds no free one among: those of the other processes, and
\* those the log keeps.
Panics(p) ==
  \/ \E s \in Sectors : Asks(p, s) /\ Cached(s) = {} /\ \A b \in Bufs : ~ Recyclable(b)
  \/ pc[p] \in {"read", "use"} /\ buf[slot[p]].busy # p
  \/ pc[p] = "read" /\ Done(slot[p])

\* No panic in bget ("no buffers"), bwrite, brelse or iderw, as long as NBUF is
\* the number of processes and of pinned buffers together.
NeverPanics == \A p \in Procs : ~ Panics(p)

\* The refinement: a block is in a buffer that is valid, or else on disk.
Held(s) == {b \in Cached(s) : buf[b].busy # NoProc}
Full(s) == {b \in Cached(s) : buf[b].valid}
Seen(p) == /\ slot[p] # 0 /\ pc[p] # "busy" /\ want[p] \in Good
           /\ pc[p] = "use" \/ (buf[slot[p]].busy = p /\ buf[slot[p]].valid)

ContentOf ==
  [s \in Good |-> IF Full(s) = {} THEN disk[s] ELSE buf[CHOOSE b \in Full(s) : TRUE].data]
HolderOf ==
  [s \in Good |-> IF Held(s) = {} THEN NoProc ELSE buf[CHOOSE b \in Held(s) : TRUE].busy]
ViewOf == [p \in Procs |-> IF Seen(p) THEN buf[slot[p]].data ELSE Nothing]

Store == INSTANCE BlockStore WITH
  Blocks <- Good, content <- ContentOf, holder <- HolderOf, view <- ViewOf

\* What the head of bio.c says of the cache, for the sectors without an error:
\* one content, one process at a time, whatever is recycled, queued or pinned.
Promise == Store!Spec

\* Who sleeps for a buffer is woken: in iderw its request is in the queue, once,
\* and the drive is at the head of the queue; in bget another process has the
\* buffer and will release it.
SleepersWoken ==
  /\ \A i, j \in 1..Len(idequeue) : idequeue[i] = idequeue[j] => i = j
  /\ idequeue # << >> => drive.cmd # "idle" /\ drive.sector = buf[Head(idequeue)].sector
  /\ \A p \in Procs :
       /\ pc[p] = "iowait" => slot[p] \in {idequeue[i] : i \in 1..Len(idequeue)}
       /\ pc[p] = "busy" => buf[slot[p]].busy \in Procs \ {p}

\* Whoever asks for a block gets a buffer, and whoever sleeps is woken (bget, brelse,
\* iderw, ideintr).
BuffersServed == NeverPanics /\ SleepersWoken
=============================================================================
