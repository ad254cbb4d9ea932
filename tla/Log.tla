-------------------------------- MODULE Log --------------------------------
(***************************************************************************)
(* The logging layer of the file system (log.c): group commit of the calls *)
(* bracketed by begin_op and end_op, the redo log on disk, recovery at     *)
(* boot, and a machine that can stop between any two disk writes.          *)
(*                                                                         *)
(* A critical section of log.lock is one step; log_write takes no lock and *)
(* is three steps, so that two calls of it can interleave.  A disk write   *)
(* of one sector is atomic (bwrite waits for the IDE driver).              *)
(***************************************************************************)
EXTENDS Naturals, Sequences, FiniteSets

CONSTANTS
  Procs,          \* processes that make file system calls
  Blocks,         \* home blocks of the file system
  Vals,           \* contents of a block
  NoBlock,        \* no buffer held
  MAXOPBLOCKS,    \* blocks begin_op reserves for a call
  LOGSIZE,        \* 3 * MAXOPBLOCKS in param.h
  OpBlocks,       \* blocks a call of the workload really writes, at most
  SerialLogWrite  \* TRUE: no two calls of log_write overlap in time.  The
                  \* code needs it and nothing enforces it; FALSE: they may

\* superblock.nlog, the size of the log region with its header (mkfs.c)
NLog == LOGSIZE

ASSUME LogAssumption ==
  /\ IsFiniteSet(Procs) /\ Procs # {}
  /\ MAXOPBLOCKS \in Nat \ {0}
  /\ LOGSIZE \in Nat /\ LOGSIZE >= 3
  /\ OpBlocks \in Nat \ {0}
  /\ SerialLogWrite \in BOOLEAN
  /\ NoBlock \notin Blocks

VARIABLES
  outstanding,  \* log.outstanding
  committing,   \* log.committing
  lh,           \* log.lh: the home blocks of the transaction, in log order
  mem,          \* what a bread of a home block returns
  dirty,        \* home blocks whose buffer has B_DIRTY, pinned in the cache
  disk,         \* the home blocks on disk
  hdr,          \* the header block of the log on disk
  logd,         \* the data blocks of the log on disk
  phase,        \* where commit() or recover_from_log() is
  tail,         \* the loop variable of write_log and install_trans
  pc,           \* where each process is
  buf,          \* the home block whose B_BUSY buffer a process holds
  slot,         \* the variable i of log_write
  wrote,        \* the blocks logged by the call a process is in
  panicked      \* panic() was called: the machine has stopped

vars == <<outstanding, committing, lh, mem, dirty, disk, hdr, logd, phase, tail,
          pc, buf, slot, wrote, panicked>>

InLogWrite == {"check", "scan", "record"}
InOp       == {"op"} \cup InLogWrite
Phases     == {"readhead", "none", "write", "head", "install", "erase", "done"}
Pcs        == {"down", "idle", "begin", "sleep", "commit"} \cup InOp

Logged   == {lh[i] : i \in DOMAIN lh}
Busy     == {buf[p] : p \in Procs}
Active   == {p \in Procs : pc[p] \in InOp}
Booting  == \A p \in Procs : pc[p] = "down"
LogSlots == 1 .. LOGSIZE

-----------------------------------------------------------------------------
\* Mutant: end_op forgets wakeup(&log).
NobodyWoken == pc

\* wakeup(&log): every process asleep in begin_op will look again.
Woken == [p \in Procs |-> IF pc[p] = "sleep" THEN "begin" ELSE pc[p]]

\* Mutant: begin_op forgets the call it admits.
MustWaitOffByOne == committing \/ Len(lh) + outstanding * MAXOPBLOCKS > LOGSIZE

\* begin_op waits while a commit runs or the reservation does not fit.
MustWait == committing \/ Len(lh) + (outstanding + 1) * MAXOPBLOCKS > LOGSIZE

BeginOp(p) ==
  /\ ~ panicked
  /\ pc[p] \in {"idle", "begin"}
  /\ IF MustWait
     THEN /\ pc' = [pc EXCEPT ![p] = "sleep"]
          /\ UNCHANGED <<outstanding, wrote>>
     ELSE /\ pc' = [pc EXCEPT ![p] = "op"]
          /\ outstanding' = outstanding + 1
          /\ wrote' = [wrote EXCEPT ![p] = {}]
  /\ UNCHANGED <<committing, lh, mem, dirty, disk, hdr, logd, phase, tail, buf,
                 slot, panicked>>

\* A call in progress: bp = bread(b), modify bp->data, about to log_write(bp).
Modify(p, b, v) ==
  /\ ~ panicked
  /\ pc[p] = "op"
  /\ b \notin Busy
  /\ b \in wrote[p] \/ Cardinality(wrote[p]) < OpBlocks
  /\ mem' = [mem EXCEPT ![b] = v]
  /\ buf' = [buf EXCEPT ![p] = b]
  /\ pc' = [pc EXCEPT ![p] = "check"]
  /\ UNCHANGED <<outstanding, committing, lh, dirty, disk, hdr, logd, phase, tail,
                 slot, wrote, panicked>>

TooBig == Len(lh) >= LOGSIZE \/ Len(lh) >= NLog - 1

\* log_write: the two panics.
LogWriteCheck(p) ==
  /\ ~ panicked
  /\ pc[p] = "check"
  /\ SerialLogWrite => \A q \in Procs : pc[q] \notin {"scan", "record"}
  /\ IF TooBig \/ outstanding < 1
     THEN panicked' = TRUE /\ UNCHANGED pc
     ELSE pc' = [pc EXCEPT ![p] = "scan"] /\ UNCHANGED panicked
  /\ UNCHANGED <<outstanding, committing, lh, mem, dirty, disk, hdr, logd, phase,
                 tail, buf, slot, wrote>>

\* log_write: the loop that looks for the block, to absorb the write (the block
\* is there once at most, see Absorbed).
Absorb(b) ==
  IF b \in Logged
  THEN CHOOSE i \in DOMAIN lh : lh[i] = b
  ELSE Len(lh) + 1

LogWriteScan(p) ==
  /\ ~ panicked
  /\ pc[p] = "scan"
  /\ slot' = [slot EXCEPT ![p] = Absorb(buf[p])]
  /\ pc' = [pc EXCEPT ![p] = "record"]
  /\ UNCHANGED <<outstanding, committing, lh, mem, dirty, disk, hdr, logd, phase,
                 tail, buf, wrote, panicked>>

\* b->flags |= B_DIRTY: bget may not recycle the buffer.
Pin(b) == dirty \cup {b}

\* log_write: sector[i] = b->sector; if(i == n) n++; B_DIRTY; then brelse.
LogWriteRecord(p) ==
  /\ ~ panicked
  /\ pc[p] = "record"
  /\ lh' = IF slot[p] = Len(lh) + 1
           THEN Append(lh, buf[p])
           ELSE [lh EXCEPT ![slot[p]] = buf[p]]
  /\ dirty' = Pin(buf[p])
  /\ wrote' = [wrote EXCEPT ![p] = @ \cup {buf[p]}]
  /\ buf' = [buf EXCEPT ![p] = NoBlock]
  /\ pc' = [pc EXCEPT ![p] = "op"]
  /\ UNCHANGED <<outstanding, committing, mem, disk, hdr, logd, phase, tail, slot,
                 panicked>>

\* end_op: the last call out commits, any other wakes those waiting for space.
EndOp(p) ==
  /\ ~ panicked
  /\ pc[p] = "op"
  /\ outstanding' = outstanding - 1
  /\ panicked' = committing
  /\ IF outstanding = 1
     THEN /\ committing' = TRUE
          /\ pc' = [pc EXCEPT ![p] = "commit"]
          /\ phase' = IF lh # << >> THEN "write" ELSE "done"
     ELSE /\ pc' = [Woken EXCEPT ![p] = "idle"]
          /\ UNCHANGED <<committing, phase>>
  /\ tail' = 1
  /\ UNCHANGED <<lh, mem, dirty, disk, hdr, logd, buf, slot, wrote>>

-----------------------------------------------------------------------------
\* Mutant: a loop that misses the last block.
LoopShort(next) ==
  IF tail + 1 < Len(lh)
  THEN tail' = tail + 1 /\ UNCHANGED phase
  ELSE tail' = 1 /\ phase' = next

\* The loops of write_log and install_trans: the next block, or what follows.
Loop(next) ==
  IF tail < Len(lh)
  THEN tail' = tail + 1 /\ UNCHANGED phase
  ELSE tail' = 1 /\ phase' = next

\* Mutant: the driver leaves B_DIRTY set.
UnpinNone(b) == dirty

\* bwrite of a home block leaves its buffer clean.
Unpin(b) == dirty \ {b}

\* One turn of the loop of write_log: cached home block to its log block.
WriteLog ==
  /\ ~ panicked
  /\ phase = "write"
  /\ logd' = [logd EXCEPT ![tail] = mem[lh[tail]]]
  /\ Loop("head")
  /\ UNCHANGED <<outstanding, committing, lh, mem, dirty, disk, hdr, pc, buf, slot,
                 wrote, panicked>>

\* The first write_head of commit: the commit point.
WriteHead ==
  /\ ~ panicked
  /\ phase = "head"
  /\ hdr' = lh
  /\ phase' = "install"
  /\ UNCHANGED <<outstanding, committing, lh, mem, dirty, disk, logd, tail, pc, buf,
                 slot, wrote, panicked>>

\* One turn of the loop of install_trans, called by commit and by recovery:
\* log block to its home block, in the cache and on disk.
InstallTrans ==
  /\ ~ panicked
  /\ phase = "install"
  /\ mem' = [mem EXCEPT ![lh[tail]] = logd[tail]]
  /\ disk' = [disk EXCEPT ![lh[tail]] = logd[tail]]
  /\ dirty' = Unpin(lh[tail])
  /\ Loop("erase")
  /\ UNCHANGED <<outstanding, committing, lh, hdr, logd, pc, buf, slot, wrote,
                 panicked>>

\* log.lh.n = 0 and the second write_head.
EraseHead ==
  /\ ~ panicked
  /\ phase = "erase"
  /\ lh' = << >>
  /\ hdr' = << >>
  /\ phase' = "done"
  /\ UNCHANGED <<outstanding, committing, mem, dirty, disk, logd, tail, pc, buf, slot,
                 wrote, panicked>>

\* The end of end_op after its commit.
EndCommit(p) ==
  /\ ~ panicked
  /\ pc[p] = "commit"
  /\ phase = "done"
  /\ committing' = FALSE
  /\ phase' = "none"
  /\ pc' = [Woken EXCEPT ![p] = "idle"]
  /\ UNCHANGED <<outstanding, lh, mem, dirty, disk, hdr, logd, tail, buf, slot, wrote,
                 panicked>>

-----------------------------------------------------------------------------
\* The machine stops and boots again: the disk is all that is left.
Crash ==
  /\ outstanding' = 0
  /\ committing' = FALSE
  /\ lh' = << >>
  /\ mem' = disk
  /\ dirty' = {}
  /\ phase' = "readhead"
  /\ tail' = 1
  /\ pc' = [p \in Procs |-> "down"]
  /\ buf' = [p \in Procs |-> NoBlock]
  /\ slot' = [p \in Procs |-> 1]
  /\ wrote' = [p \in Procs |-> {}]
  /\ panicked' = FALSE
  /\ UNCHANGED <<disk, hdr, logd>>

\* recover_from_log: read_head, then install_trans and the erasing write_head.
ReadHead ==
  /\ ~ panicked
  /\ phase = "readhead"
  /\ lh' = hdr
  /\ phase' = IF hdr # << >> THEN "install" ELSE "erase"
  /\ UNCHANGED <<outstanding, committing, mem, dirty, disk, hdr, logd, tail, pc, buf,
                 slot, wrote, panicked>>

\* initlog returns in forkret of the first process: system calls can start.
BootDone ==
  /\ ~ panicked
  /\ Booting
  /\ phase = "done"
  /\ phase' = "none"
  /\ pc' = [p \in Procs |-> "idle"]
  /\ UNCHANGED <<outstanding, committing, lh, mem, dirty, disk, hdr, logd, tail, buf,
                 slot, wrote, panicked>>

\* bget recycles a buffer that is neither busy nor dirty; the next bread of the
\* block reads the disk.
Evict(b) ==
  /\ ~ panicked
  /\ b \notin dirty
  /\ b \notin Busy
  /\ mem' = [mem EXCEPT ![b] = disk[b]]
  /\ UNCHANGED <<outstanding, committing, lh, dirty, disk, hdr, logd, phase, tail, pc,
                 buf, slot, wrote, panicked>>

-----------------------------------------------------------------------------
\* The disk mkfs wrote, with an empty log, and the first boot.
Init ==
  /\ outstanding = 0
  /\ committing = FALSE
  /\ lh = << >>
  /\ disk \in [Blocks -> Vals]
  /\ mem = disk
  /\ dirty = {}
  /\ hdr = << >>
  /\ \E v \in Vals : logd = [i \in LogSlots |-> v]
  /\ phase = "readhead"
  /\ tail = 1
  /\ pc = [p \in Procs |-> "down"]
  /\ buf = [p \in Procs |-> NoBlock]
  /\ slot = [p \in Procs |-> 1]
  /\ wrote = [p \in Procs |-> {}]
  /\ panicked = FALSE

Commit(p) ==
  /\ pc[p] = "commit"
  /\ WriteLog \/ WriteHead \/ InstallTrans \/ EraseHead

Recover ==
  /\ Booting
  /\ ReadHead \/ InstallTrans \/ EraseHead

Proc(p) ==
  \/ BeginOp(p)
  \/ \E b \in Blocks, v \in Vals : Modify(p, b, v)
  \/ LogWriteCheck(p)
  \/ LogWriteScan(p)
  \/ LogWriteRecord(p)
  \/ EndOp(p)
  \/ Commit(p)
  \/ EndCommit(p)

Next ==
  \/ \E p \in Procs : Proc(p)
  \/ Recover
  \/ BootDone
  \/ \E b \in Blocks : Evict(b)
  \/ Crash

Spec == Init /\ [][Next]_vars

(***************************************************************************)
(* Fairness: the scheduler runs every runnable process, the disk answers,  *)
(* the machine boots.  A call does finitely many log_writes and then its   *)
(* end_op (SF, since Modify competes with EndOp).  Nothing makes a process *)
(* start a call, and nothing makes the machine crash.                      *)
(***************************************************************************)
Continue(p) ==
  \/ pc[p] = "begin" /\ BeginOp(p)
  \/ LogWriteCheck(p)
  \/ LogWriteScan(p)
  \/ LogWriteRecord(p)
  \/ Commit(p)
  \/ EndCommit(p)

Fairness ==
  /\ \A p \in Procs : WF_vars(Continue(p))
  /\ \A p \in Procs : SF_vars(EndOp(p))
  /\ WF_vars(Recover \/ BootDone)

FairSpec == Spec /\ Fairness

-----------------------------------------------------------------------------
\* Every variable keeps its type; no counter of log.c goes below zero and no
\* index outside the log.
TypeOK ==
  /\ outstanding \in Nat
  /\ committing \in BOOLEAN
  /\ lh \in Seq(Blocks)
  /\ mem \in [Blocks -> Vals]
  /\ dirty \subseteq Blocks
  /\ disk \in [Blocks -> Vals]
  /\ hdr \in Seq(Blocks)
  /\ logd \in [LogSlots -> Vals]
  /\ phase \in Phases
  /\ tail \in LogSlots
  /\ pc \in [Procs -> Pcs]
  /\ buf \in [Procs -> Blocks \cup {NoBlock}]
  /\ slot \in [Procs -> Nat \ {0}]
  /\ wrote \in [Procs -> SUBSET Blocks]
  /\ panicked \in BOOLEAN

\* log.outstanding counts the calls between begin_op and end_op, and a commit
\* runs only when there are none: end_op elects one committer and begin_op
\* holds the newcomers until it is done (log.c:9-13).
CommitAlone ==
  /\ outstanding = Cardinality(Active)
  /\ committing => Active = {} /\ Cardinality({p \in Procs : pc[p] = "commit"}) = 1

\* Log absorption: no block is twice in a transaction, in memory or in the
\* header on disk, so the order of the copies in install_trans cannot matter.
Absorbed ==
  /\ \A i, j \in DOMAIN lh : lh[i] = lh[j] => i = j
  /\ \A i, j \in DOMAIN hdr : hdr[i] = hdr[j] => i = j

\* A block the cache holds newer than the disk is busy or pinned by B_DIRTY:
\* bget never recycles the only copy of an update of the transaction.
Pinned == \A b \in Blocks : mem[b] # disk[b] => b \in dirty \cup Busy

\* A dirty block is in the transaction, so the next commit writes it and
\* unpins its buffer.
DirtyLogged == dirty \subseteq Logged

\* begin_op's reservation keeps log_write from panicking: whatever calls of
\* at most OpBlocks blocks are admitted together, the log has room for them.
NeverTooBig == ~ panicked

(***************************************************************************)
(* Refinement.  What a reboot would find is the home blocks overlaid with  *)
(* the log if its header is not empty; what the system sees is the cache   *)
(* (during recovery nobody looks at it).                                   *)
(***************************************************************************)
Durable ==
  [b \in Blocks |->
     IF \E i \in DOMAIN hdr : hdr[i] = b
     THEN logd[CHOOSE i \in DOMAIN hdr : hdr[i] = b]
     ELSE disk[b]]

T == INSTANCE Transactions
       WITH durable <- Durable,
            current <- IF Booting THEN Durable ELSE mem,
            inOp <- Active

\* The calls are atomic with respect to crashes: whatever step of write_log,
\* write_head, install_trans or recovery the machine stops at, and however
\* often, the disk comes back to the end of a group of whole calls.
Atomic == T!Spec

-----------------------------------------------------------------------------
\* From some moment on no idle process starts a call (no crash stops it).
NoNewCalls ==
  <>[][\A p \in Procs : pc[p] = "idle" => pc'[p] = "idle"]_vars

\* A process asleep in begin_op is not forgotten: when the other calls stop
\* coming it gets into its own call, however the wakeups of end_op interleave
\* with the test of committing and of the space left.
SleepersEnter ==
  NoNewCalls =>
    \A p \in Procs : pc[p] = "sleep" ~> pc[p] \in {"op", "down"}

\* The last call out commits: no update stays in memory only for ever.
UpdatesReachDisk ==
  NoNewCalls =>
    \A b \in Blocks : b \in dirty ~> b \notin dirty

\* Nobody and nothing waits for ever: the last end_op of a group commits it and
\* wakes those that begin_op kept out of it.
LogLives == SleepersEnter /\ UpdatesReachDisk

=============================================================================
