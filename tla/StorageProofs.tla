---------------------------- MODULE StorageProofs ---------------------------
(***************************************************************************)
(* Proofs about the two modules of storage.                                *)
(*                                                                         *)
(* Disk: for every number of processes, buffers, sectors and contents, with *)
(* sectors that cannot be read among them.                                 *)
(*                                                                         *)
(* Content: for any number of writers, files and inodes, blocks and pieces *)
(* of any size, and any image that mkfs makes.  A place is where an inode   *)
(* has a block number: <<inode, position>>, the one of the indirect block   *)
(* at -1.  The invariant says that no two places have the same block and    *)
(* that the bitmap has those of the places (Owned), that the bytes of a     *)
(* file are what has been written (BytesRight), and what the piece in       *)
(* progress has of its inode (WriteOK).                                     *)
(***************************************************************************)
EXTENDS Disk, Content, FiniteSetTheorems, SequenceTheorems, WellFoundedInduction, TLAPS

-----------------------------------------------------------------------------
(* The buffer cache and the driver.                                        *)

\* A process at one of these has set B_BUSY.
Holding == {"read", "iderw", "iowait", "use"}

Queued == {idequeue[i] : i \in DOMAIN idequeue}

\* The buffer a process has is busy for it and is the one of the sector it wants;
\* the wakeup that ends iderw's loop comes when the request is finished.
ProcOK(p) ==
  /\ pc[p] = "idle" => slot[p] = 0 /\ want[p] = NoSector
  /\ pc[p] # "idle" => slot[p] \in Bufs /\ want[p] \in Sectors
  /\ pc[p] \in Holding \cup {"busy"} => buf[slot[p]].sector = want[p]
  /\ pc[p] \in Holding => buf[slot[p]].busy = p
  /\ pc[p] = "busy" => buf[slot[p]].busy \in Procs \ {p}
  /\ pc[p] = "read" => ~ buf[slot[p]].valid
  /\ pc[p] \in {"read", "use"} => slot[p] \notin Queued
  /\ pc[p] = "iowait" => slot[p] \in Queued
  /\ pc[p] = "use" => buf[slot[p]].valid
  /\ pc[p] = "iderw" => Done(slot[p])

\* A busy buffer is in the hands of one process; a clean valid one is as the disk.
BufOK(b) ==
  /\ buf[b].busy # NoProc => slot[buf[b].busy] = b /\ pc[buf[b].busy] \in Holding
  /\ b \in Queued => buf[b].busy # NoProc /\ pc[buf[b].busy] = "iowait" /\ ~ Done(b)
  /\ buf[b].dirty => buf[b].valid
  /\ buf[b].valid /\ buf[b].sector \in Good => buf[b].data \in Vals
  /\ Done(b) /\ buf[b].sector \in Good => buf[b].data = disk[buf[b].sector]

\* No sector has two buffers.
CacheOK ==
  \A b, c \in Bufs : buf[b].sector = buf[c].sector /\ buf[b].sector # NoSector => b = c

\* A request is in the queue once, and the drive is at the first one, with the data
\* the buffer still has.
QueueOK ==
  /\ \A i, j \in DOMAIN idequeue : idequeue[i] = idequeue[j] => i = j
  /\ drive = NextStarted(buf, idequeue)

\* The list has every buffer.
ListOK == \A b \in Bufs : \E i \in Bufs : lru[i] = b

\* The dirty buffers that nobody writes: those the log keeps.
Pinned == {b \in Bufs : buf[b].dirty /\ b \notin Queued}
PinnedOK == Cardinality(Pinned) <= MaxPinned

IndInv ==
  /\ TypeOK
  /\ \A p \in Procs : ProcOK(p)
  /\ \A b \in Bufs : BufOK(b)
  /\ CacheOK /\ QueueOK /\ ListOK /\ PinnedOK

-----------------------------------------------------------------------------
(* The queue of requests, and the counting of the pinned buffers. *)
LEMMA QueueAppend ==
  ASSUME TypeOK, NEW b \in Bufs, idequeue' = Append(idequeue, b)
  PROVE  /\ idequeue' \in Seq(Bufs) /\ idequeue' # << >>
         /\ Queued' = Queued \cup {b}
         /\ Head(idequeue') = IF idequeue = << >> THEN b ELSE Head(idequeue)
         /\ ~ b \in Queued /\ QueueOK =>
              \A i, j \in DOMAIN idequeue' : idequeue'[i] = idequeue'[j] => i = j
  <1>1. /\ idequeue' \in Seq(Bufs) /\ Len(idequeue') = Len(idequeue) + 1
        /\ \A i \in DOMAIN idequeue : i \in DOMAIN idequeue' /\ idequeue'[i] = idequeue[i]
        /\ idequeue'[Len(idequeue) + 1] = b
        /\ DOMAIN idequeue' = DOMAIN idequeue \cup {Len(idequeue) + 1}
    BY DEF TypeOK
  <1>2. Queued' = Queued \cup {b}
    BY <1>1 DEF Queued
  <1>3. Head(idequeue') = IF idequeue = << >> THEN b ELSE Head(idequeue)
    BY <1>1 DEF TypeOK
  <1>4. ~ b \in Queued /\ QueueOK =>
          \A i, j \in DOMAIN idequeue' : idequeue'[i] = idequeue'[j] => i = j
    BY <1>1 DEF QueueOK, Queued
  <1>. QED  BY <1>1, <1>2, <1>3, <1>4 DEF TypeOK

LEMMA QueueTail ==
  ASSUME TypeOK, QueueOK, idequeue # << >>, idequeue' = Tail(idequeue)
  PROVE  /\ Head(idequeue) \in Bufs /\ Head(idequeue) \in Queued
         /\ idequeue' \in Seq(Bufs)
         /\ Queued' = Queued \ {Head(idequeue)}
         /\ \A i, j \in DOMAIN idequeue' : idequeue'[i] = idequeue'[j] => i = j
         /\ idequeue' # << >> => Head(idequeue') \in Queued'
  <1>1. /\ idequeue' \in Seq(Bufs) /\ Len(idequeue') = Len(idequeue) - 1
        /\ Head(idequeue) = idequeue[1] /\ 1 \in DOMAIN idequeue
        /\ \A i \in DOMAIN idequeue' : i + 1 \in DOMAIN idequeue /\ idequeue'[i] = idequeue[i + 1]
        /\ \A i \in DOMAIN idequeue : i # 1 => i - 1 \in DOMAIN idequeue' /\ idequeue'[i - 1] = idequeue[i]
    BY DEF TypeOK
  <1>2. Head(idequeue) \in Bufs /\ Head(idequeue) \in Queued
    BY <1>1 DEF TypeOK, Queued
  <1>3. \A i, j \in DOMAIN idequeue' : idequeue'[i] = idequeue'[j] => i = j
    BY <1>1 DEF QueueOK
  <1>4. Queued' = Queued \ {Head(idequeue)}
    <2>1. ASSUME NEW c \in Queued' PROVE c \in Queued \ {Head(idequeue)}
      <3>1. PICK i \in DOMAIN idequeue' : c = idequeue'[i]
        BY DEF Queued
      <3>2. i + 1 \in DOMAIN idequeue /\ idequeue[i + 1] = c /\ i + 1 # 1
        BY <1>1, <3>1
      <3>. QED  BY <1>1, <3>2 DEF Queued, QueueOK
    <2>2. ASSUME NEW c \in Queued, c # Head(idequeue) PROVE c \in Queued'
      <3>1. PICK i \in DOMAIN idequeue : c = idequeue[i]
        BY DEF Queued
      <3>2. i - 1 \in DOMAIN idequeue' /\ idequeue'[i - 1] = c
        BY <1>1, <2>2, <3>1
      <3>. QED  BY <3>2 DEF Queued
    <2>. QED  BY <2>1, <2>2
  <1>5. idequeue' # << >> => Head(idequeue') \in Queued'
    <2>1. idequeue' # << >> => Head(idequeue') = idequeue'[1] /\ 1 \in DOMAIN idequeue'
      BY <1>1
    <2>. QED  BY <2>1 DEF Queued
  <1>. QED  BY <1>1, <1>2, <1>3, <1>4, <1>5

LEMMA BufsFinite ==
  /\ IsFiniteSet(Bufs) /\ Cardinality(Bufs) = NBUF
  /\ \A S \in SUBSET Bufs : IsFiniteSet(S) /\ Cardinality(S) \in Nat
  <1>1. IsFiniteSet(Bufs) /\ Cardinality(Bufs) = NBUF
    BY DiskAssumption, FS_Interval DEF Bufs
  <1>2. ASSUME NEW S \in SUBSET Bufs PROVE IsFiniteSet(S) /\ Cardinality(S) \in Nat
    BY <1>1, FS_Subset, FS_CardinalityType
  <1>. QED  BY <1>1, <1>2

LEMMA PinnedFewer ==
  ASSUME PinnedOK, Pinned' \subseteq Pinned
  PROVE  PinnedOK'
  <1>1. Pinned \in SUBSET Bufs /\ Pinned' \in SUBSET Bufs
    BY DEF Pinned
  <1>2. Cardinality(Pinned') <= Cardinality(Pinned)
    BY <1>1, BufsFinite, FS_Subset
  <1>. QED  BY <1>1, <1>2, BufsFinite, DiskAssumption DEF PinnedOK

\* The drive is at the head of the queue as long as its buffer does not change.
LEMMA DriveKept ==
  ASSUME QueueOK, drive' = drive, idequeue' = idequeue,
         idequeue # << >> => /\ buf'[Head(idequeue)].dirty <=> buf[Head(idequeue)].dirty
                             /\ buf'[Head(idequeue)].sector = buf[Head(idequeue)].sector
                             /\ buf'[Head(idequeue)].data = buf[Head(idequeue)].data
  PROVE  QueueOK'
  BY DEF QueueOK, NextStarted, Started

LEMMA HeadQueued ==
  ASSUME TypeOK, idequeue # << >>
  PROVE  Head(idequeue) \in Bufs /\ Head(idequeue) \in Queued
  BY DEF TypeOK, Queued

-----------------------------------------------------------------------------
LEMMA InitInv == Init => IndInv
  <1> SUFFICES ASSUME Init PROVE IndInv
    OBVIOUS
  <1> USE DiskAssumption
  <1>1. TypeOK
    BY DEF Init, TypeOK, Bufs, Idle, Pcs
  <1>2. Queued = {}
    BY DEF Init, Queued
  <1>3. (\A p \in Procs : ProcOK(p)) /\ (\A b \in Bufs : BufOK(b))
    BY <1>2 DEF Init, ProcOK, BufOK, Holding, Done
  <1>4. CacheOK /\ QueueOK
    BY DEF Init, CacheOK, QueueOK, NextStarted
  <1>5. ListOK
    <2>1. ASSUME NEW b \in Bufs PROVE \E i \in Bufs : lru[i] = b
      <3>1. NBUF + 1 - b \in Bufs /\ NBUF + 1 - (NBUF + 1 - b) = b
        BY DEF Bufs
      <3>. QED  BY <3>1 DEF Init
    <2>. QED  BY <2>1 DEF ListOK
  <1>6. PinnedOK
    <2>1. Pinned = {}
      BY DEF Init, Pinned
    <2>. QED  BY <2>1, FS_EmptySet DEF PinnedOK
  <1>. QED  BY <1>1, <1>3, <1>4, <1>5, <1>6 DEF IndInv

\* iderw wakes up only when its request is finished.
LEMMA IderwWakesInv ==
  ASSUME IndInv, NEW p \in Procs, IderwWakes(p)
  PROVE  IndInv'
  <1> USE DEF IndInv
  <1>1. pc' = [pc EXCEPT ![p] = "use"] /\ Done(slot[p]) /\ slot[p] \in Bufs
    BY DEF IderwWakes, ProcOK
  <1>2. TypeOK'
    BY <1>1 DEF IderwWakes, TypeOK, Pcs
  <1>3. ASSUME NEW q \in Procs PROVE ProcOK(q)'
    BY <1>1 DEF IderwWakes, TypeOK, ProcOK, BufOK, Done, Holding, Queued
  <1>4. ASSUME NEW b \in Bufs PROVE BufOK(b)'
    BY <1>1 DEF IderwWakes, TypeOK, ProcOK, BufOK, Done, Holding, Queued
  <1>5. CacheOK' /\ QueueOK' /\ ListOK'
    BY DEF IderwWakes, CacheOK, QueueOK, ListOK, NextStarted, Started
  <1>6. PinnedOK'
    BY DEF IderwWakes, PinnedOK, Pinned, Queued
  <1>. QED  BY <1>2, <1>3, <1>4, <1>5, <1>6

\* The drive has finished the request of the process that is woken.
LEMMA IdeintrInv ==
  ASSUME IndInv, Ideintr
  PROVE  IndInv'
  <1> USE DEF IndInv
  <1> DEFINE b == Head(idequeue)
             s == buf[b].sector
             p == buf[b].busy
  <1>1. /\ b \in Bufs /\ b \in Queued /\ Queued' = Queued \ {b}
        /\ idequeue' \in Seq(Bufs)
        /\ idequeue' # << >> => Head(idequeue') \in Queued'
        /\ \A i, j \in DOMAIN idequeue' : idequeue'[i] = idequeue'[j] => i = j
    BY QueueTail DEF Ideintr
  <1>2. p \in Procs /\ slot[p] = b /\ pc[p] = "iowait" /\ want[p] = s /\ ~ Done(b) /\ s \in Sectors
    BY <1>1 DEF TypeOK, BufOK, ProcOK, Holding
  <1>3. drive = Started(buf, b)
    BY DEF Ideintr, QueueOK, NextStarted
  <1>4. /\ buf'[b].valid /\ ~ buf'[b].dirty /\ buf'[b].sector = s /\ buf'[b].busy = p
        /\ s \in Good => buf'[b].data = IF buf[b].dirty THEN buf[b].data ELSE disk[s]
        /\ \A c \in Bufs : c # b => buf'[c] = buf[c]
        /\ buf' \in [Bufs -> [sector : Sectors \cup {NoSector}, busy : Procs \cup {NoProc},
                       valid : BOOLEAN, dirty : BOOLEAN, data : Vals \cup {Nothing}]]
    <2>1. drive.sector = s /\ s \in Sectors
      BY <1>2, <1>3 DEF Started
    <2>2. s \in Good => disk[s] \in Vals
      BY DEF TypeOK
    <2>3. buf[b] \in [sector : Sectors \cup {NoSector}, busy : Procs \cup {NoProc},
                      valid : BOOLEAN, dirty : BOOLEAN, data : Vals \cup {Nothing}]
      BY <1>1 DEF TypeOK
    <2> DEFINE d == IF ~ buf[b].dirty /\ s \in Good THEN disk[s] ELSE buf[b].data
    <2>4. buf' = [buf EXCEPT ![b] = [@ EXCEPT !.data = d, !.valid = TRUE, !.dirty = FALSE]]
      BY <1>1, <2>1 DEF Ideintr, TypeOK
    <2> DEFINE Bufd == [sector : Sectors \cup {NoSector}, busy : Procs \cup {NoProc},
                        valid : BOOLEAN, dirty : BOOLEAN, data : Vals \cup {Nothing}]
    <2>5. PICK r : r = [buf[b] EXCEPT !.data = d, !.valid = TRUE, !.dirty = FALSE]
      OBVIOUS
    <2>6. r.valid /\ ~ r.dirty /\ r.data = d /\ r.sector = s /\ r.busy = p
      BY <2>3, <2>5
    <2>7. d \in Vals \cup {Nothing}
      BY <2>2, <2>3
    <2>8. r \in Bufd
      BY <2>3, <2>5, <2>7
    <2>9. s \in Good => r.data = IF buf[b].dirty THEN buf[b].data ELSE disk[s]
      BY <2>6
    <2>10. buf \in [Bufs -> Bufd] /\ b \in Bufs
      BY <1>1 DEF TypeOK
    <2> HIDE DEF Bufd, d
    <2>11. buf' = [buf EXCEPT ![b] = r]
      BY <2>4, <2>5
    <2>12. buf'[b] = r /\ buf' \in [Bufs -> Bufd] /\ \A c \in Bufs : c # b => buf'[c] = buf[c]
      BY <2>8, <2>10, <2>11
    <2>. QED  BY <2>6, <2>9, <2>12 DEF Bufd
  <1>5. /\ disk' \in [Good -> Vals]
        /\ s \in Good => disk'[s] = IF buf[b].dirty THEN buf[b].data ELSE disk[s]
        /\ \A t \in Good : t # s => disk'[t] = disk[t]
    <2>1. /\ drive.sector = s /\ (drive.cmd = "write" <=> buf[b].dirty)
          /\ buf[b].dirty => drive.data = buf[b].data
      BY <1>2, <1>3 DEF Started
    <2>2. disk' = IF buf[b].dirty /\ s \in Good THEN [disk EXCEPT ![s] = buf[b].data] ELSE disk
      BY <2>1 DEF Ideintr
    <2>3. disk \in [Good -> Vals] /\ (buf[b].dirty /\ s \in Good => buf[b].data \in Vals)
      BY <1>1 DEF TypeOK, BufOK
    <2>. QED  BY <2>2, <2>3
  <1>6. /\ \A q \in Procs : pc'[q] = IF slot[q] = b /\ pc[q] = "busy" THEN "bget"
                             ELSE IF q = p THEN "iderw" ELSE pc[q]
        /\ pc' \in [Procs -> Pcs]
    <2>1. \A q \in Procs : slot[q] = b /\ pc[q] = "iowait" => q = p
      BY DEF ProcOK, Holding
    <2>. QED  BY <1>1, <1>2, <2>1 DEF Ideintr, Woken, TypeOK, Pcs
  <1>7. UNCHANGED <<lru, want, slot>>
    BY DEF Ideintr
  <1>8. TypeOK'
    <2>1. drive' \in [cmd : {"idle", "read", "write"}, sector : Sectors \cup {NoSector},
                data : Vals \cup {Nothing}]
      <3>1. drive' = NextStarted(buf', idequeue')
        BY DEF Ideintr
      <3>2. CASE idequeue' = << >>
        BY <3>1, <3>2 DEF NextStarted, Idle
      <3>3. CASE idequeue' # << >>
        <4>1. Head(idequeue') \in Bufs
          BY <1>1, <3>3 DEF Queued, TypeOK
        <4>. QED  BY <1>4, <3>1, <3>3, <4>1 DEF NextStarted, Started
      <3>. QED  BY <3>2, <3>3
    <2>. QED  BY <1>1, <1>4, <1>5, <1>6, <1>7, <2>1 DEF TypeOK
  <1>9. ASSUME NEW q \in Procs PROVE ProcOK(q)'
    <2>1. CASE q = p
      BY <1>1, <1>2, <1>4, <1>6, <1>7, <2>1 DEF TypeOK, ProcOK, Done, Holding
    <2>2. CASE q # p
      BY <1>1, <1>2, <1>4, <1>6, <1>7, <2>2 DEF TypeOK, ProcOK, BufOK, Done, Holding
    <2>. QED  BY <2>1, <2>2
  <1>10. ASSUME NEW c \in Bufs PROVE BufOK(c)'
    <2>1. CASE c = b
      BY <1>1, <1>2, <1>4, <1>5, <1>6, <1>7, <2>1 DEF TypeOK, BufOK, Done, Holding
    <2>2. CASE c # b
      <3>1. buf[c].sector \in Good => buf[c].sector # s
        BY <1>1, <1>2, <2>2, DiskAssumption DEF CacheOK
      <3>2. buf[c].busy \in Procs => (buf[c].busy # p /\ (pc[buf[c].busy] \in Holding =>
                                      pc'[buf[c].busy] = pc[buf[c].busy]))
        BY <1>2, <1>6, <2>2, DiskAssumption DEF BufOK, Holding
      <3>. QED  BY <1>1, <1>2, <1>4, <1>5, <1>7, <2>2, <3>1, <3>2 DEF TypeOK, BufOK, Done, Holding
    <2>. QED  BY <2>1, <2>2
  <1>11. CacheOK'
    BY <1>4 DEF CacheOK
  <1>12. QueueOK'
    BY <1>1 DEF Ideintr, QueueOK
  <1>13. ListOK'
    BY <1>7 DEF ListOK
  <1>14. PinnedOK'
    BY <1>1, <1>4, PinnedFewer DEF Pinned
  <1>. QED  BY <1>8, <1>9, <1>10, <1>11, <1>12, <1>13, <1>14

\* The cached buffer is taken, or the process that has it is waited for.
LEMMA BgetHitInv ==
  ASSUME IndInv, NEW p \in Procs, NEW s \in Sectors, BgetHit(p, s)
  PROVE  IndInv'
  <1> USE DEF IndInv
  <1>0. PICK b \in Cached(s) :
         /\ slot' = [slot EXCEPT ![p] = b]
         /\ IF buf[b].busy = NoProc
            THEN buf' = [buf EXCEPT ![b].busy = p] /\ Bread(p, b, buf[b].valid)
            ELSE pc' = [pc EXCEPT ![p] = "busy"] /\ UNCHANGED buf
    BY DEF BgetHit
  <1>1. b \in Bufs /\ buf[b].sector = s /\ pc[p] \in {"idle", "bget"}
    BY <1>0 DEF Cached, BgetHit, Asks
  <1>2. \A c \in Bufs : buf[c].busy # p
    BY <1>1, DiskAssumption DEF BufOK, Holding
  <1>3. UNCHANGED <<lru, idequeue, drive, disk>> /\ want' = [want EXCEPT ![p] = s]
        /\ Queued' = Queued
    BY DEF BgetHit, Queued
  <1>4. buf' = [buf EXCEPT ![b] = [@ EXCEPT
               !.busy = IF buf[b].busy = NoProc THEN p ELSE buf[b].busy]]
    <2>1. CASE buf[b].busy = NoProc
      BY <1>0, <1>1, <2>1 DEF TypeOK
    <2>2. CASE buf[b].busy # NoProc
      <3>1. [buf[b] EXCEPT !.busy = IF buf[b].busy = NoProc THEN p ELSE buf[b].busy] = buf[b]
        BY <1>1, <2>2 DEF TypeOK
      <3>. QED  BY <1>0, <1>1, <2>2, <3>1 DEF TypeOK
    <2>. QED  BY <2>1, <2>2
  <1>b. \A c \in Bufs : c # b => buf'[c] = buf[c]
    BY <1>1, <1>4 DEF TypeOK
  <1>c. /\ buf'[b].sector = buf[b].sector /\ (buf'[b].valid <=> buf[b].valid)
        /\ (buf'[b].dirty <=> buf[b].dirty) /\ buf'[b].data = buf[b].data
        /\ buf'[b].busy = IF buf[b].busy = NoProc THEN p ELSE buf[b].busy
    BY <1>1, <1>4 DEF TypeOK
  <1>5. TypeOK'
    <2>1. buf' \in [Bufs -> [sector : Sectors \cup {NoSector}, busy : Procs \cup {NoProc},
                       valid : BOOLEAN, dirty : BOOLEAN, data : Vals \cup {Nothing}]]
      <3>1. CASE buf[b].busy = NoProc
        <4>1. [buf[b] EXCEPT !.busy = p] \in
                [sector : Sectors \cup {NoSector}, busy : Procs \cup {NoProc},
                 valid : BOOLEAN, dirty : BOOLEAN, data : Vals \cup {Nothing}]
          BY <1>1 DEF TypeOK
        <4>2. buf' = [buf EXCEPT ![b] = [buf[b] EXCEPT !.busy = p]]
          BY <1>0, <1>1, <3>1 DEF TypeOK
        <4>. QED  BY <1>1, <4>1, <4>2 DEF TypeOK
      <3>2. CASE buf[b].busy # NoProc
        BY <1>0, <3>2 DEF TypeOK
      <3>. QED  BY <3>1, <3>2
    <2>2. pc' \in [Procs -> Pcs]
      BY <1>0 DEF TypeOK, Pcs, Bread
    <2>. QED  BY <1>0, <1>1, <1>3, <2>1, <2>2 DEF TypeOK
  <1>6. CacheOK' /\ ListOK'
    <2>1. \A c \in Bufs : buf'[c].sector = buf[c].sector
      BY <1>b, <1>c
    <2>. QED  BY <1>3, <2>1 DEF CacheOK, ListOK
  <1>7. QueueOK'
    BY <1>1, <1>3, <1>b, <1>c, HeadQueued, DriveKept
  <1>8. PinnedOK'
    <2>1. Pinned' \subseteq Pinned
      BY <1>1, <1>3, <1>b, <1>c DEF Pinned
    <2>. QED  BY <2>1, PinnedFewer
  <1>9. CASE buf[b].busy = NoProc
    <2>1. /\ pc' = [pc EXCEPT ![p] = IF buf[b].valid THEN "use" ELSE "read"]
          /\ buf'[b].busy = p
      BY <1>0, <1>1, <1>9, <1>b, <1>c DEF Bread, TypeOK
    <2>2. b \notin Queued
      BY <1>1, <1>9 DEF BufOK
    <2>3. ASSUME NEW q \in Procs PROVE ProcOK(q)'
      <3>1. CASE q = p
        BY <1>1, <1>0, <1>3, <1>b, <1>c, <2>1, <2>2, <3>1 DEF TypeOK, ProcOK, Holding
      <3>2. CASE q # p
        <4>1. pc'[q] = pc[q] /\ slot'[q] = slot[q] /\ want'[q] = want[q]
          BY <1>0, <1>3, <2>1, <3>2 DEF TypeOK
        <4>2. pc[q] \in Holding \cup {"busy"} => slot[q] \in Bufs /\ slot[q] # b
          BY <1>1, <1>9, DiskAssumption DEF ProcOK, Holding
        <4>. QED  BY <1>3, <1>b, <1>c, <4>1, <4>2 DEF ProcOK, Done, Holding
      <3>. QED  BY <3>1, <3>2
    <2>4. ASSUME NEW c \in Bufs PROVE BufOK(c)'
      <3>1. CASE c = b
        BY <1>1, <1>0, <1>3, <1>b, <1>c, <2>1, <2>2, <3>1 DEF TypeOK, BufOK, Done, Holding
      <3>2. CASE c # b
        <4>1. buf[c].busy # NoProc => buf[c].busy \in Procs \ {p}
          BY <1>2 DEF TypeOK
        <4>. QED  BY <1>0, <1>3, <1>b, <1>c, <2>1, <3>2, <4>1 DEF TypeOK, BufOK, Done
      <3>. QED  BY <3>1, <3>2
    <2>. QED  BY <1>5, <1>6, <1>7, <1>8, <2>3, <2>4
  <1>10. CASE buf[b].busy # NoProc
    <2>1. pc' = [pc EXCEPT ![p] = "busy"] /\ buf' = buf /\ buf[b].busy \in Procs \ {p}
      BY <1>0, <1>1, <1>2, <1>10 DEF TypeOK
    <2>2. ASSUME NEW q \in Procs PROVE ProcOK(q)'
      BY <1>0, <1>1, <1>3, <2>1 DEF TypeOK, ProcOK, Done, Holding
    <2>3. ASSUME NEW c \in Bufs PROVE BufOK(c)'
      <3>1. buf[c].busy # NoProc => buf[c].busy \in Procs \ {p}
        BY <1>2 DEF TypeOK
      <3>. QED  BY <1>0, <1>3, <2>1, <3>1 DEF TypeOK, BufOK, Done
    <2>. QED  BY <1>5, <1>6, <1>7, <1>8, <2>2, <2>3
  <1>. QED  BY <1>9, <1>10

\* The recycled buffer was for nobody and in no request; no other is for the sector.
LEMMA BgetMissInv ==
  ASSUME IndInv, NEW p \in Procs, NEW s \in Sectors, BgetMiss(p, s)
  PROVE  IndInv'
  <1> USE DEF IndInv
  <1> PICK i \in Bufs :
         /\ Recyclable(lru[i])
         /\ buf' = [buf EXCEPT ![lru[i]] = Recycled(p, s, lru[i])]
         /\ slot' = [slot EXCEPT ![p] = lru[i]]
         /\ Bread(p, lru[i], buf'[lru[i]].valid)
    BY DEF BgetMiss
  <1> DEFINE b == lru[i]
  <1>1. b \in Bufs /\ buf[b].busy = NoProc /\ ~ buf[b].dirty /\ pc[p] \in {"idle", "bget"}
    BY DEF TypeOK, Recyclable, BgetMiss, Asks
  <1>2. (\A c \in Bufs : buf[c].busy # p) /\ b \notin Queued
    BY <1>1, DiskAssumption DEF BufOK, Holding
  <1>3. UNCHANGED <<lru, idequeue, drive, disk>> /\ want' = [want EXCEPT ![p] = s]
        /\ Queued' = Queued
    BY DEF BgetMiss, Queued
  <1>4. /\ buf'[b] = Recycled(p, s, b)
        /\ \A c \in Bufs : c # b => buf'[c] = buf[c] /\ buf[c].sector # s
        /\ pc' = [pc EXCEPT ![p] = "read"]
    BY <1>1 DEF TypeOK, Recycled, Bread, BgetMiss, Cached
  <1>5. TypeOK'
    <2>1. buf' \in [Bufs -> [sector : Sectors \cup {NoSector}, busy : Procs \cup {NoProc},
                       valid : BOOLEAN, dirty : BOOLEAN, data : Vals \cup {Nothing}]]
      BY <1>1 DEF TypeOK, Recycled
    <2>. QED  BY <1>1, <1>3, <1>4, <2>1 DEF TypeOK, Pcs
  <1>6. CacheOK' /\ ListOK'
    BY <1>3, <1>4 DEF CacheOK, ListOK, Recycled
  <1>7. QueueOK'
    BY <1>2, <1>3, <1>4, HeadQueued, DriveKept
  <1>8. PinnedOK'
    BY <1>3, <1>4, PinnedFewer DEF Pinned, Recycled
  <1>9. ASSUME NEW q \in Procs PROVE ProcOK(q)'
    <2>1. CASE q = p
      BY <1>1, <1>2, <1>3, <1>4, <2>1 DEF TypeOK, ProcOK, Holding, Recycled
    <2>2. CASE q # p
      <3>1. pc'[q] = pc[q] /\ slot'[q] = slot[q] /\ want'[q] = want[q]
        BY <1>3, <1>4, <2>2 DEF TypeOK
      <3>2. pc[q] \in Holding \cup {"busy"} => slot[q] \in Bufs /\ slot[q] # b
        BY <1>1, DiskAssumption DEF ProcOK, Holding
      <3>. QED  BY <1>3, <1>4, <3>1, <3>2 DEF ProcOK, Done, Holding
    <2>. QED  BY <2>1, <2>2
  <1>10. ASSUME NEW c \in Bufs PROVE BufOK(c)'
    <2>1. CASE c = b
      BY <1>1, <1>2, <1>3, <1>4, <2>1 DEF TypeOK, BufOK, Done, Holding, Recycled
    <2>2. CASE c # b
      <3>1. buf[c].busy # NoProc => buf[c].busy \in Procs \ {p}
        BY <1>2 DEF TypeOK
      <3>. QED  BY <1>3, <1>4, <2>2, <3>1 DEF TypeOK, BufOK, Done
    <2>. QED  BY <2>1, <2>2
  <1>. QED  BY <1>5, <1>6, <1>7, <1>8, <1>9, <1>10

\* iderw, with a buffer that may have been changed: p has it, it is not in the queue,
\* and there is something to do.
LEMMA IderwInv ==
  ASSUME IndInv, NEW p \in Procs, pc[p] \in {"read", "use"}, NEW bs,
         bs \in [Bufs -> [sector : Sectors \cup {NoSector}, busy : Procs \cup {NoProc},
                         valid : BOOLEAN, dirty : BOOLEAN, data : Vals \cup {Nothing}]],
         \A c \in Bufs : c # slot[p] => bs[c] = buf[c],
         bs[slot[p]].sector = buf[slot[p]].sector,
         bs[slot[p]].busy = buf[slot[p]].busy,
         bs[slot[p]].dirty <=> bs[slot[p]].valid,
         bs[slot[p]].valid /\ bs[slot[p]].sector \in Good => bs[slot[p]].data \in Vals,
         Iderw(p, bs, slot[p]), UNCHANGED <<lru, disk, want, slot>>
  PROVE  IndInv'
  <1> USE DEF IndInv
  <1> DEFINE b == slot[p]
  <1>1. b \in Bufs /\ buf[b].busy = p /\ want[p] = buf[b].sector /\ want[p] \in Sectors
        /\ b \notin Queued
    BY DEF ProcOK, Holding
  <1>2. /\ buf' = bs /\ idequeue' = Append(idequeue, b) /\ drive' = StartFirst(bs, b)
        /\ pc' = [pc EXCEPT ![p] = "iowait"]
    BY DEF Iderw
  <1>3. /\ idequeue' \in Seq(Bufs) /\ idequeue' # << >>
        /\ Queued' = Queued \cup {b}
        /\ Head(idequeue') = IF idequeue = << >> THEN b ELSE Head(idequeue)
        /\ \A i, j \in DOMAIN idequeue' : idequeue'[i] = idequeue'[j] => i = j
    BY <1>1, <1>2, QueueAppend
  <1>4. \A q \in Procs : pc[q] \in Holding /\ slot[q] = b => q = p
    BY <1>1 DEF ProcOK
  <1>5. TypeOK'
    <2>1. drive' \in [cmd : {"idle", "read", "write"}, sector : Sectors \cup {NoSector},
                data : Vals \cup {Nothing}]
      BY <1>1, <1>2 DEF TypeOK, StartFirst, Started
    <2>. QED  BY <1>2, <1>3, <2>1 DEF TypeOK, Pcs
  <1>6. CacheOK' /\ ListOK'
    BY <1>2 DEF CacheOK, ListOK
  <1>7. QueueOK'
    <2>1. drive' = Started(bs, Head(idequeue'))
      <3>1. CASE idequeue = << >>
        BY <1>2, <1>3, <3>1 DEF StartFirst
      <3>2. CASE idequeue # << >>
        <4>1. Head(idequeue) \in Bufs /\ Head(idequeue) # b
          BY <1>1, <3>2, HeadQueued
        <4>2. drive = Started(buf, Head(idequeue)) /\ drive' = drive
          BY <1>2, <3>2 DEF QueueOK, NextStarted, StartFirst
        <4>. QED  BY <1>3, <3>2, <4>1, <4>2 DEF Started
      <3>. QED  BY <3>1, <3>2
    <2>. QED  BY <1>2, <1>3, <2>1 DEF QueueOK, NextStarted
  <1>8. PinnedOK'
    BY <1>2, <1>3, PinnedFewer DEF Pinned
  <1>9. ASSUME NEW q \in Procs PROVE ProcOK(q)'
    <2>1. CASE q = p
      BY <1>1, <1>2, <1>3, <2>1 DEF TypeOK, ProcOK, Holding
    <2>2. CASE q # p
      <3>1. pc'[q] = pc[q] /\ pc[q] \in Holding => slot[q] # b
        BY <1>2, <1>4, <2>2 DEF TypeOK
      <3>2. pc[q] = "busy" => buf'[slot[q]].busy = buf[slot[q]].busy
                              /\ buf'[slot[q]].sector = buf[slot[q]].sector
        BY <1>2 DEF ProcOK
      <3>3. pc'[q] = pc[q]
        BY <1>2, <2>2 DEF TypeOK
      <3>. QED  BY <1>2, <1>3, <3>1, <3>2, <3>3 DEF ProcOK, Done, Holding
    <2>. QED  BY <2>1, <2>2
  <1>10. ASSUME NEW c \in Bufs PROVE BufOK(c)'
    <2>1. CASE c = b
      <3>1. buf'[b].busy = p /\ pc'[p] = "iowait" /\ slot'[p] = b /\ p # NoProc
        BY <1>1, <1>2, DiskAssumption DEF TypeOK
      <3>2. /\ buf'[b].dirty <=> buf'[b].valid
            /\ buf'[b].valid /\ buf'[b].sector \in Good => buf'[b].data \in Vals
        BY <1>2
      <3>. QED  BY <2>1, <3>1, <3>2 DEF BufOK, Done, Holding
    <2>2. CASE c # b
      <3>1. buf[c].busy # NoProc => buf[c].busy \in Procs \ {p}
        BY <1>1, <2>2 DEF TypeOK, BufOK
      <3>2. buf'[c] = buf[c] /\ (c \in Queued' <=> c \in Queued)
        BY <1>2, <1>3, <2>2
      <3>3. \A q \in Procs \ {p} : pc'[q] = pc[q]
        BY <1>2 DEF TypeOK
      <3>. QED  BY <2>2, <3>1, <3>2, <3>3 DEF BufOK, Done
    <2>. QED  BY <2>1, <2>2
  <1>. QED  BY <1>5, <1>6, <1>7, <1>8, <1>9, <1>10

LEMMA BreadIderwInv ==
  ASSUME IndInv, NEW p \in Procs, BreadIderw(p)
  PROVE  IndInv'
  <1>1. slot[p] \in Bufs /\ ~ buf[slot[p]].valid /\ ~ buf[slot[p]].dirty
    BY DEF IndInv, BreadIderw, ProcOK, BufOK
  <1>. QED  BY <1>1, IderwInv DEF IndInv, TypeOK, BreadIderw

LEMMA ChangedFacts ==
  ASSUME IndInv, NEW p \in Procs, pc[p] = "use", NEW v \in Vals
  PROVE  LET b == slot[p]
             r == Changed(slot[p], v)
         IN  /\ r \in [Bufs -> [sector : Sectors \cup {NoSector}, busy : Procs \cup {NoProc},
                               valid : BOOLEAN, dirty : BOOLEAN, data : Vals \cup {Nothing}]]
             /\ \A c \in Bufs : c # b => r[c] = buf[c]
             /\ b \in Bufs
             /\ r[b].sector = buf[b].sector
             /\ r[b].busy = buf[b].busy
             /\ r[b].valid
             /\ r[b].dirty
             /\ r[b].sector \in Good => r[b].data = v
  <1> DEFINE b == slot[p]
             d == IF buf[b].sector \in Good THEN v ELSE buf[b].data
  <1>1. b \in Bufs /\ buf[b].valid
    BY DEF IndInv, ProcOK
  <1>2. buf[b] \in [sector : Sectors \cup {NoSector}, busy : Procs \cup {NoProc},
                    valid : BOOLEAN, dirty : BOOLEAN, data : Vals \cup {Nothing}]
    BY <1>1 DEF IndInv, TypeOK
  <1>3. Changed(b, v) = [buf EXCEPT ![b] = [@ EXCEPT !.data = d, !.dirty = TRUE]]
    BY <1>1 DEF IndInv, TypeOK, Changed
  <1>4. [buf[b] EXCEPT !.data = d, !.dirty = TRUE] \in
          [sector : Sectors \cup {NoSector}, busy : Procs \cup {NoProc},
           valid : BOOLEAN, dirty : BOOLEAN, data : Vals \cup {Nothing}]
    BY <1>2
  <1> DEFINE r == Changed(b, v)
  <1>5. \A c \in Bufs : c # b => r[c] = buf[c]
    BY <1>1, <1>3 DEF IndInv, TypeOK
  <1>6. r[b] = [buf[b] EXCEPT !.data = d, !.dirty = TRUE]
    BY <1>1, <1>3 DEF IndInv, TypeOK
  <1>7. /\ r[b].sector = buf[b].sector /\ r[b].busy = buf[b].busy
        /\ r[b].valid /\ r[b].dirty /\ (r[b].sector \in Good => r[b].data = v)
    BY <1>1, <1>2, <1>6
  <1>8. r \in [Bufs -> [sector : Sectors \cup {NoSector}, busy : Procs \cup {NoProc},
                       valid : BOOLEAN, dirty : BOOLEAN, data : Vals \cup {Nothing}]]
    BY <1>1, <1>3, <1>4 DEF IndInv, TypeOK
  <1>. QED  BY <1>1, <1>5, <1>7, <1>8

LEMMA BwriteInv ==
  ASSUME IndInv, NEW p \in Procs, NEW v \in Vals, Bwrite(p, v)
  PROVE  IndInv'
  <1> DEFINE r == Changed(slot[p], v)
  <1>1. pc[p] = "use" /\ Iderw(p, r, slot[p]) /\ UNCHANGED <<lru, disk, want, slot>>
    BY DEF Bwrite
  <1>2. /\ r \in [Bufs -> [sector : Sectors \cup {NoSector}, busy : Procs \cup {NoProc},
                          valid : BOOLEAN, dirty : BOOLEAN, data : Vals \cup {Nothing}]]
        /\ \A c \in Bufs : c # slot[p] => r[c] = buf[c]
        /\ r[slot[p]].sector = buf[slot[p]].sector
        /\ r[slot[p]].busy = buf[slot[p]].busy
        /\ r[slot[p]].dirty <=> r[slot[p]].valid
        /\ r[slot[p]].valid /\ r[slot[p]].sector \in Good => r[slot[p]].data \in Vals
    BY <1>1, ChangedFacts
  <1> HIDE DEF r
  <1>. QED  BY <1>1, <1>2, IderwInv

\* log_write pins a buffer that no request is for.
LEMMA LogWriteInv ==
  ASSUME IndInv, NEW p \in Procs, NEW v \in Vals, LogWrite(p, v)
  PROVE  IndInv'
  <1> USE DEF IndInv
  <1> DEFINE b == slot[p]
  <1>1. /\ b \in Bufs /\ b \notin Queued /\ pc[p] = "use" /\ buf[b].busy = p /\ buf[b].valid
    BY DEF LogWrite, ProcOK, Holding
  <1>2. UNCHANGED <<lru, idequeue, drive, disk, pc, want, slot>> /\ Queued' = Queued
    BY DEF LogWrite, Queued
  <1>3. /\ buf' \in [Bufs -> [sector : Sectors \cup {NoSector}, busy : Procs \cup {NoProc},
                         valid : BOOLEAN, dirty : BOOLEAN, data : Vals \cup {Nothing}]]
        /\ \A c \in Bufs : c # b => buf'[c] = buf[c]
        /\ buf'[b].sector = buf[b].sector /\ buf'[b].busy = p
        /\ buf'[b].valid /\ buf'[b].dirty
        /\ buf'[b].sector \in Good => buf'[b].data = v
    BY <1>1, ChangedFacts DEF LogWrite
  <1>4. TypeOK'
    BY <1>2, <1>3 DEF TypeOK
  <1>5. CacheOK' /\ ListOK'
    BY <1>2, <1>3 DEF CacheOK, ListOK
  <1>6. QueueOK'
    BY <1>1, <1>2, <1>3, HeadQueued, DriveKept
  <1>7. PinnedOK'
    <2> DEFINE S == PinnedBut(b)
    <2>1. S \in SUBSET Bufs /\ b \notin S /\ Cardinality(S) < MaxPinned
      BY DEF LogWrite, PinnedBut
    <2>2. Pinned' \subseteq S \cup {b}
      <3>1. DOMAIN idequeue = 1..Len(idequeue)
        BY DEF TypeOK
      <3>. QED  BY <1>2, <1>3, <3>1 DEF Pinned, PinnedBut, Queued
    <2>3. IsFiniteSet(S \cup {b}) /\ Cardinality(S \cup {b}) = Cardinality(S) + 1
      BY <2>1, BufsFinite, FS_AddElement
    <2>4. Cardinality(Pinned') <= Cardinality(S \cup {b}) /\ Cardinality(Pinned') \in Nat
      BY <2>2, <2>3, FS_Subset, FS_CardinalityType
    <2>. QED  BY <2>1, <2>3, <2>4, BufsFinite, DiskAssumption DEF PinnedOK
  <1>8. ASSUME NEW q \in Procs PROVE ProcOK(q)'
    BY <1>1, <1>2, <1>3 DEF ProcOK, Done, Holding
  <1>9. ASSUME NEW c \in Bufs PROVE BufOK(c)'
    <2>1. CASE c = b
      BY <1>1, <1>2, <1>3, <2>1 DEF BufOK, Done, Holding
    <2>2. CASE c # b
      BY <1>2, <1>3, <2>2 DEF BufOK, Done
    <2>. QED  BY <2>1, <2>2
  <1>. QED  BY <1>4, <1>5, <1>6, <1>7, <1>8, <1>9

\* The list after brelse has every buffer, each once.
LEMMA FrontFacts ==
  ASSUME TypeOK, ListOK, NEW b \in Bufs
  PROVE  /\ Front(b) \in [Bufs -> Bufs]
         /\ \A i, j \in Bufs : Front(b)[i] = Front(b)[j] => i = j
         /\ \A c \in Bufs : \E i \in Bufs : Front(b)[i] = c
  <1> DEFINE k == CHOOSE i \in Bufs : lru[i] = b
             f == [i \in Bufs |-> IF i = 1 THEN b ELSE IF i <= k THEN lru[i - 1] ELSE lru[i]]
  <1>1. Front(b) = f
    BY DEF Front
  <1>2. k \in Bufs /\ lru[k] = b
    BY DEF ListOK
  <1> HIDE DEF k
  <1>3. \A i \in Bufs : i # 1 => i - 1 \in Bufs
    BY DiskAssumption DEF Bufs
  <1>4. 1 \in Bufs /\ \A i \in Bufs : i < k => i + 1 \in Bufs
    BY <1>2, DiskAssumption DEF Bufs
  <1>5. \A i \in Bufs : i \in Int /\ i >= 1
    BY DEF Bufs
  <1>6. f \in [Bufs -> Bufs]
    BY <1>3 DEF TypeOK
  <1>7. ASSUME NEW i \in Bufs, NEW j \in Bufs, f[i] = f[j]
        PROVE  i = j
    <2>1. \A m \in Bufs : lru[m] = b => m = k
      BY <1>2 DEF TypeOK
    <2>. QED  BY <1>2, <1>3, <1>5, <1>7, <2>1 DEF TypeOK
  <1>8. ASSUME NEW c \in Bufs PROVE \E i \in Bufs : f[i] = c
    <2>1. PICK m \in Bufs : lru[m] = c
      BY DEF ListOK
    <2>2. CASE m = k
      BY <1>2, <1>4, <2>1, <2>2
    <2>3. CASE m < k
      <3>1. m + 1 \in Bufs /\ m + 1 # 1 /\ m + 1 <= k /\ (m + 1) - 1 = m
        BY <1>2, <1>4, <1>5, <2>3
      <3>2. f[m + 1] = lru[m]
        BY <3>1
      <3>. QED  BY <2>1, <3>1, <3>2
    <2>4. CASE m > k
      <3>1. m # 1 /\ ~ (m <= k)
        BY <1>2, <1>5, <2>4
      <3>. QED  BY <2>1, <3>1
    <2>. QED  BY <1>2, <1>5, <2>2, <2>3, <2>4
  <1> HIDE DEF f
  <1>. QED  BY <1>1, <1>6, <1>7, <1>8

LEMMA BrelseInv ==
  ASSUME IndInv, NEW p \in Procs, Brelse(p)
  PROVE  IndInv'
  <1> USE DEF IndInv
  <1> DEFINE b == slot[p]
  <1>1. /\ b \in Bufs /\ b \notin Queued /\ pc[p] = "use" /\ buf[b].busy = p /\ buf[b].valid
    BY DEF Brelse, ProcOK, Holding
  <1>2. UNCHANGED <<idequeue, drive, disk>> /\ Queued' = Queued
        /\ slot' = [slot EXCEPT ![p] = 0] /\ want' = [want EXCEPT ![p] = NoSector]
    BY DEF Brelse, Queued
  <1>3. buf' = [buf EXCEPT ![b] = [@ EXCEPT !.busy = NoProc]]
    BY <1>1 DEF Brelse, TypeOK
  <1>4. /\ \A c \in Bufs : c # b => buf'[c] = buf[c]
        /\ buf'[b].sector = buf[b].sector /\ (buf'[b].valid <=> buf[b].valid)
        /\ (buf'[b].dirty <=> buf[b].dirty) /\ buf'[b].data = buf[b].data
        /\ buf'[b].busy = NoProc
    BY <1>1, <1>3 DEF TypeOK
  <1>5. /\ pc' \in [Procs -> Pcs] /\ pc'[p] = "idle"
        /\ \A q \in Procs : q # p =>
             pc'[q] = IF slot[q] = b /\ pc[q] = "busy" THEN "bget" ELSE pc[q]
    <2>1. \A q \in Procs : slot[q] = b /\ pc[q] \in Holding => q = p
      BY <1>1 DEF ProcOK
    <2>. QED  BY <1>1, <2>1 DEF Brelse, Woken, TypeOK, Pcs, Holding
  <1>6. TypeOK'
    <2>1. buf' \in [Bufs -> [sector : Sectors \cup {NoSector}, busy : Procs \cup {NoProc},
                       valid : BOOLEAN, dirty : BOOLEAN, data : Vals \cup {Nothing}]]
      <3>0. buf[b] \in
              [sector : Sectors \cup {NoSector}, busy : Procs \cup {NoProc},
               valid : BOOLEAN, dirty : BOOLEAN, data : Vals \cup {Nothing}]
        BY <1>1 DEF TypeOK
      <3>1. [buf[b] EXCEPT !.busy = NoProc] \in
              [sector : Sectors \cup {NoSector}, busy : Procs \cup {NoProc},
               valid : BOOLEAN, dirty : BOOLEAN, data : Vals \cup {Nothing}]
        BY <3>0
      <3>. QED  BY <1>1, <1>3, <3>1 DEF TypeOK
    <2>2. lru' \in [Bufs -> Bufs] /\ \A i, j \in Bufs : lru'[i] = lru'[j] => i = j
      BY <1>1, FrontFacts DEF Brelse
    <2>. QED  BY <1>2, <1>5, <2>1, <2>2 DEF TypeOK
  <1>7. CacheOK'
    <2>1. \A c \in Bufs : buf'[c].sector = buf[c].sector
      BY <1>4
    <2>. QED  BY <2>1 DEF CacheOK
  <1>8. ListOK'
    <2>1. lru' = Front(b)
      BY DEF Brelse
    <2>2. \A c \in Bufs : \E i \in Bufs : lru'[i] = c
      <3>1. \A c \in Bufs : \E i \in Bufs : Front(b)[i] = c
        BY <1>1, FrontFacts
      <3>. QED  BY <2>1, <3>1
    <2>. QED  BY <2>2 DEF ListOK
  <1>9. QueueOK'
    BY <1>1, <1>2, <1>4, HeadQueued, DriveKept
  <1>10. PinnedOK'
    <2>1. Pinned' \subseteq Pinned
      BY <1>1, <1>2, <1>4 DEF Pinned
    <2>. QED  BY <2>1, PinnedFewer
  <1>11. ASSUME NEW q \in Procs PROVE ProcOK(q)'
    <2>1. CASE q = p
      BY <1>2, <1>5, <2>1 DEF TypeOK, ProcOK, Holding
    <2>2. CASE q # p
      <3>1. slot'[q] = slot[q] /\ want'[q] = want[q]
        BY <1>2, <2>2 DEF TypeOK
      <3>2. pc[q] \in Holding => slot[q] # b
        BY <1>1, <2>2 DEF ProcOK
      <3>3. pc'[q] # "idle" => pc[q] # "idle"
        BY <1>5, <2>2
      <3>4. pc'[q] \in Holding \cup {"busy"} => pc'[q] = pc[q] /\ buf'[slot[q]] = buf[slot[q]]
        BY <1>1, <1>4, <1>5, <2>2, <3>2 DEF ProcOK, Holding
      <3>. QED  BY <1>2, <1>5, <2>2, <3>1, <3>3, <3>4 DEF ProcOK, Done, Holding
    <2>. QED  BY <2>1, <2>2
  <1>12. ASSUME NEW c \in Bufs PROVE BufOK(c)'
    <2>1. CASE c = b
      BY <1>1, <1>2, <1>4, <2>1 DEF BufOK, Done
    <2>2. CASE c # b
      <3>1. buf[c].busy # NoProc => buf[c].busy \in Procs \ {p}
        BY <1>1, <2>2 DEF TypeOK, BufOK
      <3>. QED  BY <1>2, <1>4, <1>5, <2>2, <3>1 DEF TypeOK, BufOK, Done, Holding
    <2>. QED  BY <2>1, <2>2
  <1>. QED  BY <1>6, <1>7, <1>8, <1>9, <1>10, <1>11, <1>12

LEMMA NextInv == IndInv /\ [Next]_vars => IndInv'
  <1> SUFFICES ASSUME IndInv, [Next]_vars PROVE IndInv'
    OBVIOUS
  <1>1. CASE Ideintr
    BY <1>1, IdeintrInv
  <1>2. CASE \E p \in Procs : BreadIderw(p) \/ IderwWakes(p) \/ Brelse(p)
    BY <1>2, BreadIderwInv, IderwWakesInv, BrelseInv
  <1>3. CASE \E p \in Procs, s \in Sectors : BgetHit(p, s) \/ BgetMiss(p, s)
    BY <1>3, BgetHitInv, BgetMissInv
  <1>4. CASE \E p \in Procs, v \in Vals : Bwrite(p, v) \/ LogWrite(p, v)
    BY <1>4, BwriteInv, LogWriteInv
  <1>5. CASE UNCHANGED vars
    BY <1>5 DEF vars, IndInv, TypeOK, ProcOK, BufOK, CacheOK, QueueOK, ListOK, PinnedOK, Pinned,
                Queued, Done, NextStarted, Started
  <1>. QED  BY <1>1, <1>2, <1>3, <1>4, <1>5 DEF Next

\* The cache and the driver: who has a buffer, what is in it, which request the drive is
\* at, how many buffers the log keeps.
THEOREM Invariance == Spec => []IndInv
  BY InitInv, NextInv, PTL DEF Spec

-----------------------------------------------------------------------------
\* A process that asks for a buffer has none, so that the others and the log together
\* cannot have all of them.
LEMMA BufferLeft ==
  ASSUME IndInv, NEW p \in Procs, pc[p] \in {"idle", "bget"}
  PROVE  \E b \in Bufs : Recyclable(b)
  <1> USE DEF IndInv
  <1> SUFFICES ASSUME \A b \in Bufs : ~ Recyclable(b) PROVE FALSE
    OBVIOUS
  <1> DEFINE Busy   == {b \in Bufs : buf[b].busy # NoProc}
             Others == Procs \ {p}
             f      == [b \in Busy |-> buf[b].busy]
  <1>1. f \in Injection(Busy, Others)
    <2>1. ASSUME NEW b \in Busy PROVE buf[b].busy \in Others
      <3>1. b \in Bufs /\ buf[b].busy # NoProc
        OBVIOUS
      <3> HIDE DEF Busy, f
      <3>2. buf[b].busy \in Procs
        BY <3>1 DEF TypeOK
      <3>3. BufOK(b)
        BY <3>1
      <3>4. pc[buf[b].busy] \in Holding
        BY <3>1, <3>3 DEF BufOK
      <3>5. buf[b].busy # p
        BY <3>4 DEF Holding
      <3>. QED  BY <3>2, <3>5
    <2>2. \A b, c \in Busy : buf[b].busy = buf[c].busy => b = c
      BY DEF BufOK
    <2>. QED  BY <2>1, <2>2 DEF Injection, IsInjective
  <1>2. IsFiniteSet(Others) /\ Cardinality(Others) = Cardinality(Procs) - 1
        /\ Cardinality(Procs) \in Nat
    BY DiskAssumption, FS_RemoveElement, FS_CardinalityType
  <1>3. Cardinality(Busy) <= Cardinality(Others)
    BY <1>1, <1>2, FS_Injection
  <1>4. Busy \in SUBSET Bufs /\ Pinned \in SUBSET Bufs
    BY DEF Pinned
  <1>5. Bufs = Busy \cup Pinned
    <2>1. \A b \in Bufs : b \in Busy \/ b \in Pinned
      BY DEF Recyclable, Pinned, BufOK
    <2>. QED  BY <1>4, <2>1
  <1>6. Cardinality(Bufs) <= Cardinality(Busy) + Cardinality(Pinned)
    <2>1. IsFiniteSet(Busy) /\ IsFiniteSet(Pinned) /\ Busy \cap Pinned \in SUBSET Bufs
      BY <1>4, BufsFinite
    <2>2. Cardinality(Busy \cup Pinned)
            = Cardinality(Busy) + Cardinality(Pinned) - Cardinality(Busy \cap Pinned)
      BY <2>1, FS_Union
    <2>3. Cardinality(Busy) \in Nat /\ Cardinality(Pinned) \in Nat
          /\ Cardinality(Busy \cap Pinned) \in Nat
      BY <1>4, <2>1, BufsFinite
    <2> HIDE DEF Busy
    <2>. QED  BY <1>5, <2>2, <2>3
  <1>. QED  BY <1>2, <1>3, <1>4, <1>6, BufsFinite, DiskAssumption DEF PinnedOK

\* Whoever asks for a block gets a buffer as long as NBUF is the number of processes and
\* of the buffers the log keeps together, and nobody sleeps whom nobody will wake: no
\* panic of bget, bwrite, brelse or iderw is reached.
THEOREM BuffersAreServed == Spec => []BuffersServed
  <1>1. IndInv => BuffersServed
    <2> SUFFICES ASSUME IndInv PROVE BuffersServed
      OBVIOUS
    <2>1. ASSUME NEW p \in Procs PROVE ~ Panics(p)
      BY BufferLeft DEF IndInv, Panics, Asks, ProcOK, Holding, Done
    <2>2. SleepersWoken
      <3>1. DOMAIN idequeue = 1..Len(idequeue)
        BY DEF IndInv, TypeOK
      <3>2. idequeue # << >> => drive.cmd # "idle" /\ drive.sector = buf[Head(idequeue)].sector
        BY DEF IndInv, QueueOK, NextStarted, Started
      <3>. QED  BY <3>1, <3>2 DEF IndInv, QueueOK, ProcOK, SleepersWoken, Queued
    <2>. QED  BY <2>1, <2>2 DEF BuffersServed, NeverPanics
  <1>. QED  BY <1>1, Invariance, PTL

-----------------------------------------------------------------------------
(***************************************************************************)
(* Disk implements BlockStore.  A good sector has at most one buffer, so    *)
(* the content and the holder the refinement chooses are those of any.      *)
(***************************************************************************)
ContentIs(s) ==
  /\ \A b \in Bufs : buf[b].sector = s /\ buf[b].valid => ContentOf[s] = buf[b].data
  /\ (\A b \in Bufs : buf[b].sector = s => ~ buf[b].valid) => ContentOf[s] = disk[s]

HolderIs(s) ==
  /\ \A b \in Bufs : buf[b].sector = s => HolderOf[s] = buf[b].busy
  /\ (\A b \in Bufs : buf[b].sector # s) => HolderOf[s] = NoProc

\* A process sees the content of the buffer it has, once that is valid.
Sees(p) == pc[p] \in Holding /\ buf[slot[p]].valid /\ want[p] \in Good
ViewIs(p) ==
  /\ Sees(p) => ViewOf[p] = buf[slot[p]].data
  /\ ~ Sees(p) => ViewOf[p] = Nothing

Mapped ==
  /\ \A s \in Good : s # NoSector /\ ContentIs(s) /\ HolderIs(s)
  /\ \A p \in Procs : ViewIs(p)

LEMMA Mapping == IndInv => Mapped
  <1> SUFFICES ASSUME IndInv PROVE Mapped
    OBVIOUS
  <1>1. ASSUME NEW s \in Good PROVE s # NoSector /\ ContentIs(s) /\ HolderIs(s)
    <2>1. s # NoSector
      BY DiskAssumption DEF Good
    <2>2. ASSUME NEW b \in Bufs, buf[b].sector = s, buf[b].valid
          PROVE  ContentOf[s] = buf[b].data
      <3>1. Full(s) = {b}
        BY <2>1, <2>2 DEF IndInv, CacheOK, Full, Cached
      <3>. QED  BY <3>1 DEF ContentOf
    <2>3. ASSUME \A b \in Bufs : buf[b].sector = s => ~ buf[b].valid
          PROVE  ContentOf[s] = disk[s]
      <3>1. Full(s) = {}
        BY <2>3 DEF Full, Cached
      <3>. QED  BY <3>1 DEF ContentOf
    <2>4. ASSUME NEW b \in Bufs, buf[b].sector = s
          PROVE  HolderOf[s] = buf[b].busy
      <3>1. CASE buf[b].busy # NoProc
        <4>1. Held(s) = {b}
          BY <2>1, <2>4, <3>1 DEF IndInv, CacheOK, Held, Cached
        <4>. QED  BY <4>1 DEF HolderOf
      <3>2. CASE buf[b].busy = NoProc
        <4>1. Held(s) = {}
          BY <2>1, <2>4, <3>2 DEF IndInv, CacheOK, Held, Cached
        <4>. QED  BY <3>2, <4>1 DEF HolderOf
      <3>. QED  BY <3>1, <3>2
    <2>5. ASSUME \A b \in Bufs : buf[b].sector # s
          PROVE  HolderOf[s] = NoProc
      <3>1. Held(s) = {}
        BY <2>5 DEF Held, Cached
      <3>. QED  BY <3>1 DEF HolderOf
    <2>. QED  BY <2>1, <2>2, <2>3, <2>4, <2>5 DEF ContentIs, HolderIs
  <1>2. ASSUME NEW p \in Procs PROVE ViewIs(p)
    <2> USE DEF IndInv
    <2>1. slot[p] \in Bufs => (buf[slot[p]].busy = p => pc[p] \in Holding)
      BY DiskAssumption DEF BufOK
    <2>2. Seen(p) <=> Sees(p)
      <3>1. 0 \notin Bufs
        BY DEF Bufs
      <3>. QED  BY <2>1, <3>1 DEF TypeOK, ProcOK, Seen, Sees, Holding
    <2>. QED  BY <2>2 DEF ViewOf, ViewIs
  <1>. QED  BY <1>1, <1>2 DEF Mapped

LEMMA MappingNext == IndInv' => Mapped'
  BY Mapping, PTL

\* The three functions are known by their values.
LEMMA SameContent ==
  ASSUME \A s \in Good : ContentOf'[s] = ContentOf[s]
  PROVE  ContentOf' = ContentOf
  BY DEF ContentOf

LEMMA SameHolder ==
  ASSUME \A s \in Good : HolderOf'[s] = HolderOf[s]
  PROVE  HolderOf' = HolderOf
  BY DEF HolderOf

LEMMA NewHolder ==
  ASSUME NEW s \in Good, NEW p, HolderOf'[s] = p,
         \A t \in Good : t # s => HolderOf'[t] = HolderOf[t]
  PROVE  HolderOf' = [HolderOf EXCEPT ![s] = p]
  <1>1. HolderOf = [t \in Good |-> HolderOf[t]] /\ HolderOf' = [t \in Good |-> HolderOf'[t]]
    BY DEF HolderOf
  <1>. QED  BY <1>1

LEMMA SameView ==
  ASSUME \A q \in Procs : ViewOf'[q] = ViewOf[q]
  PROVE  ViewOf' = ViewOf
  BY DEF ViewOf

LEMMA NewView ==
  ASSUME NEW p \in Procs, NEW v, ViewOf'[p] = v,
         \A q \in Procs : q # p => ViewOf'[q] = ViewOf[q]
  PROVE  ViewOf' = [ViewOf EXCEPT ![p] = v]
  <1>1. ViewOf = [q \in Procs |-> ViewOf[q]] /\ ViewOf' = [q \in Procs |-> ViewOf'[q]]
    BY DEF ViewOf
  <1>. QED  BY <1>1

LEMMA InitRefines == Init => Store!Init
  <1> SUFFICES ASSUME Init PROVE Store!Init
    OBVIOUS
  <1>1. \A b \in Bufs : buf[b].sector = NoSector /\ buf[b].busy = NoProc /\ ~ buf[b].valid
    BY DEF Init
  <1>2. ContentOf = [s \in Good |-> disk[s]]
    BY <1>1 DEF ContentOf, Full, Cached
  <1>3. HolderOf = [s \in Good |-> NoProc]
    BY <1>1 DEF HolderOf, Held, Cached
  <1>4. ViewOf = [p \in Procs |-> Nothing]
    BY DEF Init, ViewOf, Seen
  <1>5. disk = [s \in Good |-> disk[s]]
    BY DEF Init
  <1>. QED  BY <1>2, <1>3, <1>4, <1>5 DEF Init, Store!Init

\* iderw, before and after the request: p has the buffer all the time.
LEMMA IderwWakesRefines ==
  ASSUME IndInv, IndInv', NEW p \in Procs, IderwWakes(p) \/ BreadIderw(p)
  PROVE  UNCHANGED Store!bvars
  <1>1. /\ buf' = buf /\ UNCHANGED <<disk, want, slot>>
        /\ pc' \in [Procs -> Pcs] /\ pc[p] \in Holding /\ pc'[p] \in Holding
        /\ \A q \in Procs : q # p => pc'[q] = pc[q]
    BY DEF IderwWakes, BreadIderw, Iderw, IndInv, TypeOK, Holding
  <1>2. ContentOf' = ContentOf /\ HolderOf' = HolderOf
    BY <1>1 DEF ContentOf, HolderOf, Full, Held, Cached
  <1>3. \A q \in Procs : ViewOf'[q] = ViewOf[q]
    BY <1>1, Mapping, MappingNext DEF Mapped, ViewIs, Sees
  <1>. QED  BY <1>1, <1>2, <1>3, SameView DEF Store!bvars

\* bwrite and log_write: the process that has the block gives it a content.
LEMMA ChangeRefines ==
  ASSUME IndInv, IndInv', NEW p \in Procs, pc[p] = "use", NEW v \in Vals,
         buf' = Changed(slot[p], v), UNCHANGED <<disk, want, slot>>,
         pc'[p] \in Holding, \A q \in Procs : q # p => pc'[q] = pc[q]
  PROVE  (\E s \in Good : Store!Change(p, s, v)) \/ UNCHANGED Store!bvars
  <1> DEFINE b == slot[p]
             s == buf[b].sector
  <1>1. b \in Bufs /\ buf[b].busy = p /\ want[p] = s /\ buf[b].valid /\ s \in Sectors
    BY DEF IndInv, ProcOK, Holding
  <1>2. /\ \A c \in Bufs : c # b => buf'[c] = buf[c]
        /\ buf'[b].sector = s /\ buf'[b].busy = p /\ buf'[b].valid
        /\ s \in Good => buf'[b].data = v
    <2> DEFINE r == Changed(b, v)
    <2>1. /\ \A c \in Bufs : c # b => r[c] = buf[c]
          /\ r[b].sector = s /\ r[b].busy = p /\ r[b].valid
          /\ s \in Good => r[b].data = v
      BY <1>1, ChangedFacts
    <2>. QED  BY <2>1
  <1>3. \A t \in Good : t # s => ContentOf'[t] = ContentOf[t]
    BY <1>1, <1>2, Mapping, MappingNext DEF Mapped, ContentIs
  <1>4. \A t \in Good : HolderOf'[t] = HolderOf[t]
    BY <1>1, <1>2, Mapping, MappingNext DEF Mapped, HolderIs
  <1>5. \A q \in Procs : q # p => ViewOf'[q] = ViewOf[q]
    <2>1. \A q \in Procs : q # p /\ pc[q] \in Holding => slot[q] \in Bufs \ {b}
      BY <1>1 DEF IndInv, ProcOK, Holding
    <2>. QED  BY <1>2, <2>1, Mapping, MappingNext DEF Mapped, ViewIs, Sees
  <1>6. CASE s \in Good
    <2>1. HolderOf[s] = p /\ ContentOf'[s] = v
      BY <1>1, <1>2, <1>6, Mapping, MappingNext DEF Mapped, HolderIs, ContentIs
    <2>2. ViewOf'[p] = v
      BY <1>1, <1>2, <1>6, MappingNext DEF Mapped, ViewIs, Sees
    <2>3. ContentOf' = [ContentOf EXCEPT ![s] = v]
      BY <1>3, <2>1 DEF ContentOf
    <2>4. ViewOf' = [ViewOf EXCEPT ![p] = v]
      BY <1>5, <2>2 DEF ViewOf
    <2>. QED  BY <1>4, <1>6, <2>1, <2>3, <2>4, SameHolder DEF Store!Change
  <1>7. CASE s \notin Good
    <2>1. ContentOf' = ContentOf /\ HolderOf' = HolderOf
      BY <1>3, <1>4, <1>7, SameContent, SameHolder
    <2>2. ViewOf'[p] = ViewOf[p]
      BY <1>1, <1>7, Mapping, MappingNext DEF Mapped, ViewIs, Sees
    <2>. QED  BY <1>5, <2>1, <2>2, SameView DEF Store!bvars
  <1>. QED  BY <1>6, <1>7

LEMMA BrelseRefines ==
  ASSUME IndInv, IndInv', NEW p \in Procs, Brelse(p)
  PROVE  (\E s \in Good : Store!Put(p, s)) \/ UNCHANGED Store!bvars
  <1> DEFINE b == slot[p]
             s == buf[b].sector
  <1>1. /\ b \in Bufs /\ buf[b].busy = p /\ want[p] = s /\ buf[b].valid /\ s \in Sectors
        /\ pc[p] = "use"
    BY DEF IndInv, Brelse, ProcOK, Holding
  <1>2. buf' = [buf EXCEPT ![b] = [@ EXCEPT !.busy = NoProc]]
    BY <1>1 DEF Brelse, IndInv, TypeOK
  <1>3. /\ \A c \in Bufs : c # b => buf'[c] = buf[c]
        /\ buf'[b].sector = s /\ buf'[b].busy = NoProc /\ buf'[b].valid
        /\ buf'[b].data = buf[b].data
    BY <1>1, <1>2 DEF IndInv, TypeOK
  <1>4. /\ disk' = disk /\ pc'[p] = "idle"
        /\ \A q \in Procs : q # p => slot'[q] = slot[q] /\ want'[q] = want[q]
    BY DEF Brelse, IndInv, TypeOK, Woken
  <1>5. \A q \in Procs : q # p => (pc'[q] \in Holding <=> pc[q] \in Holding)
    <2>1. \A q \in Procs : slot[q] = b /\ pc[q] \in Holding => q = p
      BY <1>1 DEF IndInv, ProcOK
    <2>2. \A q \in Procs : q # p =>
             pc'[q] = IF slot[q] = b /\ pc[q] = "busy" THEN "bget" ELSE pc[q]
      BY <1>1, <2>1 DEF Brelse, Woken, IndInv, TypeOK, Pcs, Holding
    <2>. QED  BY <2>2 DEF Holding
  <1>6. ContentOf' = ContentOf
    BY <1>1, <1>3, <1>4, Mapping, MappingNext, SameContent DEF Mapped, ContentIs
  <1>7. \A t \in Good : t # s => HolderOf'[t] = HolderOf[t]
    BY <1>1, <1>3, Mapping, MappingNext DEF Mapped, HolderIs
  <1>8. \A q \in Procs : q # p => ViewOf'[q] = ViewOf[q]
    <2>1. \A q \in Procs : q # p /\ pc[q] \in Holding => slot[q] \in Bufs \ {b}
      BY <1>1 DEF IndInv, ProcOK, Holding
    <2>2. ASSUME NEW q \in Procs, q # p PROVE ViewOf'[q] = ViewOf[q]
      <3>1. /\ pc'[q] \in Holding <=> pc[q] \in Holding
            /\ slot'[q] = slot[q] /\ want'[q] = want[q]
        BY <1>4, <1>5, <2>2
      <3>2. pc[q] \in Holding => buf'[slot[q]] = buf[slot[q]]
        BY <1>3, <2>1, <2>2
      <3>. QED  BY <3>1, <3>2, Mapping, MappingNext DEF Mapped, ViewIs, Sees
    <2>. QED  BY <2>2
  <1>9. ViewOf'[p] = Nothing
    BY <1>4, MappingNext DEF Mapped, ViewIs, Sees, Holding
  <1>10. CASE s \in Good
    <2>1. HolderOf[s] = p /\ HolderOf'[s] = NoProc
      BY <1>1, <1>3, <1>10, Mapping, MappingNext DEF Mapped, HolderIs
    <2>2. HolderOf' = [HolderOf EXCEPT ![s] = NoProc]
      BY <1>7, <1>10, <2>1, NewHolder
    <2>3. ViewOf' = [ViewOf EXCEPT ![p] = Nothing]
      BY <1>8, <1>9 DEF ViewOf
    <2>. QED  BY <1>4, <1>6, <1>10, <2>1, <2>2, <2>3 DEF Store!Put
  <1>11. CASE s \notin Good
    <2>1. ViewOf[p] = Nothing
      BY <1>1, <1>11, Mapping DEF Mapped, ViewIs, Sees
    <2>. QED  BY <1>4, <1>6, <1>7, <1>8, <1>9, <1>11, <2>1, SameHolder, SameView DEF Store!bvars
  <1>. QED  BY <1>10, <1>11

\* A process that did not have a block sees none.
LEMMA NoView ==
  ASSUME IndInv, NEW p \in Procs, pc[p] \in {"idle", "bget"}
  PROVE  ViewOf[p] = Nothing /\ \A c \in Bufs : buf[c].busy # p
  <1>1. ViewOf[p] = Nothing
    BY Mapping DEF Mapped, ViewIs, Sees, Holding
  <1>2. \A c \in Bufs : buf[c].busy # p
    BY DiskAssumption DEF IndInv, BufOK, Holding
  <1>. QED  BY <1>1, <1>2

\* The buffer taken for a sector is as the disk was for its old one.
LEMMA BgetMissRefines ==
  ASSUME IndInv, IndInv', NEW p \in Procs, NEW s \in Sectors, BgetMiss(p, s)
  PROVE  (Store!Get(p, s) /\ s \in Good) \/ UNCHANGED Store!bvars
  <1>0. PICK i \in Bufs :
         /\ Recyclable(lru[i])
         /\ buf' = [buf EXCEPT ![lru[i]] = Recycled(p, s, lru[i])]
         /\ slot' = [slot EXCEPT ![p] = lru[i]]
         /\ Bread(p, lru[i], buf'[lru[i]].valid)
    BY DEF BgetMiss
  <1> DEFINE b == lru[i]
             t == buf[b].sector
  <1>1. b \in Bufs /\ buf[b].busy = NoProc /\ ~ buf[b].dirty /\ pc[p] \in {"idle", "bget"}
    BY <1>0 DEF IndInv, TypeOK, Recyclable, BgetMiss, Asks
  <1>2. /\ disk' = disk /\ want' = [want EXCEPT ![p] = s]
        /\ \A c \in Bufs : buf[c].sector # s
    BY DEF BgetMiss, Cached
  <1>3. buf'[b] = Recycled(p, s, b) /\ \A c \in Bufs : c # b => buf'[c] = buf[c]
    BY <1>0, <1>1 DEF IndInv, TypeOK
  <1>5. buf'[b].sector = s /\ buf'[b].busy = p /\ ~ buf'[b].valid
    BY <1>3 DEF Recycled
  <1>4. pc' = [pc EXCEPT ![p] = "read"]
    BY <1>0, <1>5 DEF Bread
  <1>6. \A r \in Good : ContentOf'[r] = ContentOf[r]
    <2>1. ContentIs(s)' /\ ContentIs(s) /\ s \in Good => ContentOf'[s] = ContentOf[s]
      BY <1>1, <1>2, <1>3, <1>5 DEF IndInv, CacheOK, ContentIs
    <2>2. ASSUME NEW r \in Good, r # s, r = t PROVE ContentOf'[r] = ContentOf[r]
      <3>1. \A c \in Bufs : buf[c].sector = r => c = b
        BY <1>1, <2>2, Mapping DEF IndInv, CacheOK, Mapped
      <3>2. buf[b].valid => buf[b].data = disk[r]
        BY <1>1, <2>2 DEF IndInv, BufOK, Done
      <3>3. ContentOf[r] = disk[r]
        BY <1>1, <2>2, <3>1, <3>2, Mapping DEF Mapped, ContentIs
      <3>4. \A c \in Bufs : buf'[c].sector # r
        BY <1>3, <1>5, <2>2, <3>1
      <3>5. ContentOf'[r] = disk[r]
        BY <1>2, <3>4, MappingNext DEF Mapped, ContentIs
      <3>. QED  BY <3>3, <3>5
    <2>3. ASSUME NEW r \in Good, r # s, r # t PROVE ContentOf'[r] = ContentOf[r]
      <3>1. \A c \in Bufs : buf[c].sector = r => c # b
        BY <2>3
      <3>2. \A c \in Bufs : buf'[c].sector = r => c # b
        BY <1>5, <2>3
      <3>. QED  BY <1>2, <1>3, <3>1, <3>2, Mapping, MappingNext DEF Mapped, ContentIs
    <2>. QED  BY <2>1, <2>2, <2>3, Mapping, MappingNext DEF Mapped
  <1>7. \A r \in Good : r # s => HolderOf'[r] = HolderOf[r]
    <2>1. ASSUME NEW r \in Good, r # s, r = t PROVE HolderOf'[r] = HolderOf[r]
      <3>1. HolderOf[r] = NoProc
        BY <1>1, <2>1, Mapping DEF Mapped, HolderIs
      <3>2. \A c \in Bufs : buf[c].sector = r => c = b
        BY <1>1, <2>1, Mapping DEF IndInv, CacheOK, Mapped
      <3>3. \A c \in Bufs : buf'[c].sector # r
        BY <1>3, <1>5, <2>1, <3>2
      <3>. QED  BY <3>1, <3>3, MappingNext DEF Mapped, HolderIs
    <2>2. ASSUME NEW r \in Good, r # s, r # t PROVE HolderOf'[r] = HolderOf[r]
      <3>1. \A c \in Bufs : buf[c].sector = r => c # b
        BY <2>2
      <3>2. \A c \in Bufs : buf'[c].sector = r => c # b
        BY <1>5, <2>2
      <3>. QED  BY <1>3, <3>1, <3>2, Mapping, MappingNext DEF Mapped, HolderIs
    <2>. QED  BY <2>1, <2>2
  <1>8. \A q \in Procs : ViewOf'[q] = ViewOf[q]
    <2>1. ViewOf[p] = Nothing /\ ViewOf'[p] = Nothing
      <3>1. slot'[p] = b
        BY <1>0, <1>1 DEF IndInv, TypeOK
      <3>. QED  BY <1>1, <1>5, <3>1, NoView, MappingNext DEF Mapped, ViewIs, Sees
    <2>2. ASSUME NEW q \in Procs, q # p PROVE ViewOf'[q] = ViewOf[q]
      <3>1. pc'[q] = pc[q] /\ slot'[q] = slot[q] /\ want'[q] = want[q]
        BY <1>0, <1>2, <1>4, <2>2 DEF IndInv, TypeOK
      <3>2. pc[q] \in Holding => slot[q] \in Bufs /\ slot[q] # b
        BY <1>1, DiskAssumption DEF IndInv, ProcOK, Holding
      <3>. QED  BY <1>3, <3>1, <3>2, Mapping, MappingNext DEF Mapped, ViewIs, Sees
    <2>. QED  BY <2>1, <2>2
  <1>9. CASE s \in Good
    <2>1. HolderOf[s] = NoProc /\ HolderOf'[s] = p
      BY <1>1, <1>2, <1>5, <1>9, Mapping, MappingNext DEF Mapped, HolderIs
    <2>2. HolderOf' = [HolderOf EXCEPT ![s] = p]
      BY <1>7, <1>9, <2>1, NewHolder
    <2>3. ViewOf' = [ViewOf EXCEPT ![p] = Nothing]
      BY <1>1, <1>8, NoView DEF ViewOf
    <2>4. ContentOf' = ContentOf
      BY <1>6, SameContent
    <2>. QED  BY <1>2, <1>9, <2>1, <2>2, <2>3, <2>4 DEF Store!Get
  <1>10. CASE s \notin Good
    <2>1. \A r \in Good : HolderOf'[r] = HolderOf[r]
      BY <1>7, <1>10
    <2>. QED  BY <1>2, <1>6, <1>8, <2>1, SameContent, SameHolder, SameView DEF Store!bvars
  <1>. QED  BY <1>9, <1>10

\* The process has the block at once, or sleeps for it.
LEMMA BgetHitRefines ==
  ASSUME IndInv, IndInv', NEW p \in Procs, NEW s \in Sectors, BgetHit(p, s)
  PROVE  (Store!Get(p, s) /\ s \in Good) \/ UNCHANGED Store!bvars
  <1>0. PICK b \in Cached(s) :
         /\ slot' = [slot EXCEPT ![p] = b]
         /\ IF buf[b].busy = NoProc
            THEN buf' = [buf EXCEPT ![b].busy = p] /\ Bread(p, b, buf[b].valid)
            ELSE pc' = [pc EXCEPT ![p] = "busy"] /\ UNCHANGED buf
    BY DEF BgetHit
  <1>1. /\ b \in Bufs /\ buf[b].sector = s /\ pc[p] \in {"idle", "bget"}
        /\ disk' = disk /\ want' = [want EXCEPT ![p] = s]
    BY <1>0 DEF Cached, BgetHit, Asks
  <1>2. /\ slot'[p] = b /\ want'[p] = s
        /\ \A q \in Procs : q # p => pc'[q] = pc[q] /\ slot'[q] = slot[q] /\ want'[q] = want[q]
    BY <1>0, <1>1 DEF IndInv, TypeOK, Bread
  <1>3. CASE buf[b].busy # NoProc
    <2>1. buf' = buf /\ pc'[p] = "busy"
      BY <1>0, <1>3 DEF IndInv, TypeOK
    <2>2. ContentOf' = ContentOf /\ HolderOf' = HolderOf
      BY <1>1, <2>1 DEF ContentOf, HolderOf, Full, Held, Cached
    <2>3. ViewOf'[p] = Nothing /\ ViewOf[p] = Nothing
      BY <1>1, <2>1, NoView, MappingNext DEF Mapped, ViewIs, Sees, Holding
    <2>4. \A q \in Procs : q # p => ViewOf'[q] = ViewOf[q]
      BY <1>2, <2>1, Mapping, MappingNext DEF Mapped, ViewIs, Sees
    <2>. QED  BY <1>1, <2>2, <2>3, <2>4, SameView DEF Store!bvars
  <1>4. CASE buf[b].busy = NoProc
    <2>1. /\ \A c \in Bufs : c # b => buf'[c] = buf[c]
          /\ buf'[b] = [buf[b] EXCEPT !.busy = p]
      BY <1>0, <1>1, <1>4 DEF IndInv, TypeOK
    <2>2. /\ buf'[b].sector = s /\ (buf'[b].valid <=> buf[b].valid)
          /\ buf'[b].data = buf[b].data /\ buf'[b].busy = p
      BY <1>1, <2>1 DEF IndInv, TypeOK
    <2>3. pc'[p] \in Holding
      BY <1>0, <1>4 DEF IndInv, TypeOK, Bread, Holding
    <2>4. \A r \in Good : ContentOf'[r] = ContentOf[r]
      <3>1. ASSUME NEW r \in Good, r = s PROVE ContentOf'[r] = ContentOf[r]
        <4>1. \A c \in Bufs : buf[c].sector = r \/ buf'[c].sector = r => c = b
          BY <1>1, <2>2, <3>1, Mapping DEF IndInv, CacheOK, Mapped
        <4>2. CASE buf[b].valid
          BY <1>1, <2>2, <3>1, <4>2, Mapping, MappingNext DEF Mapped, ContentIs
        <4>3. CASE ~ buf[b].valid
          BY <1>1, <2>2, <3>1, <4>1, <4>3, Mapping, MappingNext DEF Mapped, ContentIs
        <4>. QED  BY <4>2, <4>3
      <3>2. ASSUME NEW r \in Good, r # s PROVE ContentOf'[r] = ContentOf[r]
        <4>1. \A c \in Bufs : buf[c].sector = r \/ buf'[c].sector = r => c # b
          BY <1>1, <2>2, <3>2
        <4>. QED  BY <1>1, <2>1, <4>1, Mapping, MappingNext DEF Mapped, ContentIs
      <3>. QED  BY <3>1, <3>2
    <2>5. ASSUME NEW r \in Good, r # s PROVE HolderOf'[r] = HolderOf[r]
      <3>1. \A c \in Bufs : buf[c].sector = r \/ buf'[c].sector = r => c # b
        BY <1>1, <2>2, <2>5
      <3>. QED  BY <2>1, <3>1, Mapping, MappingNext DEF Mapped, HolderIs
    <2>6. ASSUME NEW q \in Procs, q # p PROVE ViewOf'[q] = ViewOf[q]
      <3>1. pc[q] \in Holding => slot[q] \in Bufs /\ slot[q] # b
        BY <1>1, <1>4, DiskAssumption DEF IndInv, ProcOK, Holding
      <3>2. pc'[q] = pc[q] /\ slot'[q] = slot[q] /\ want'[q] = want[q]
        BY <1>2, <2>6
      <3>. QED  BY <2>1, <3>1, <3>2, Mapping, MappingNext DEF Mapped, ViewIs, Sees
    <2>7. CASE s \in Good
      <3>1. HolderOf[s] = NoProc /\ HolderOf'[s] = p
        BY <1>1, <1>4, <2>2, <2>7, Mapping, MappingNext DEF Mapped, HolderIs
      <3>2. HolderOf' = [HolderOf EXCEPT ![s] = p]
        BY <2>5, <2>7, <3>1, NewHolder
      <3>3. ViewOf'[p] \in {Nothing, ContentOf[s]}
        <4>1. CASE buf[b].valid
          BY <1>1, <1>2, <2>2, <2>3, <2>7, <4>1, Mapping, MappingNext
          DEF Mapped, ContentIs, ViewIs, Sees
        <4>2. CASE ~ buf[b].valid
          BY <1>2, <2>2, <4>2, MappingNext DEF Mapped, ViewIs, Sees
        <4>. QED  BY <4>1, <4>2
      <3>4. ViewOf' = [ViewOf EXCEPT ![p] = ViewOf'[p]]
        BY <2>6, NewView
      <3>. QED  BY <1>1, <2>4, <2>7, <3>1, <3>2, <3>3, <3>4, SameContent DEF Store!Get
    <2>8. CASE s \notin Good
      <3>1. ViewOf[p] = Nothing /\ ViewOf'[p] = Nothing
        BY <1>1, <1>2, <2>8, NoView, MappingNext DEF Mapped, ViewIs, Sees
      <3>2. \A r \in Good : HolderOf'[r] = HolderOf[r]
        BY <2>5, <2>8
      <3>. QED  BY <1>1, <2>4, <2>6, <3>1, <3>2, SameContent, SameHolder, SameView DEF Store!bvars
    <2>. QED  BY <2>7, <2>8
  <1>. QED  BY <1>3, <1>4

\* A write makes the disk what the processes see already, a read the other way round.
LEMMA IdeintrRefines ==
  ASSUME IndInv, IndInv', Ideintr
  PROVE  (\E s \in Good : Store!Flush(s) \/ \E p \in Procs : Store!Read(p, s))
         \/ UNCHANGED Store!bvars
  <1> DEFINE b == Head(idequeue)
             s == buf[b].sector
             p == buf[b].busy
  <1>1. b \in Bufs /\ b \in Queued
    BY HeadQueued DEF IndInv, Ideintr
  <1>2. p \in Procs /\ slot[p] = b /\ pc[p] = "iowait" /\ want[p] = s /\ ~ Done(b) /\ s \in Sectors
    BY <1>1 DEF IndInv, TypeOK, BufOK, ProcOK, Holding
  <1>3. drive = Started(buf, b)
    BY DEF IndInv, Ideintr, QueueOK, NextStarted
  <1>4. /\ buf'[b].valid /\ buf'[b].sector = s /\ buf'[b].busy = p
        /\ s \in Good => buf'[b].data = IF buf[b].dirty THEN buf[b].data ELSE disk[s]
        /\ \A c \in Bufs : c # b => buf'[c] = buf[c]
    <2>1. drive.sector = s
      BY <1>3 DEF Started
    <2>. QED  BY <1>1, <2>1 DEF IndInv, Ideintr, TypeOK
  <1>5. /\ s \notin Good \/ ~ buf[b].dirty => disk' = disk
        /\ s \in Good /\ buf[b].dirty => disk' = [disk EXCEPT ![s] = buf[b].data]
    BY <1>3 DEF Ideintr, Started
  <1>6. \A q \in Procs : q # p => (pc'[q] \in Holding <=> pc[q] \in Holding)
    <2>1. \A q \in Procs : slot[q] = b /\ pc[q] \in Holding => q = p
      BY <1>1 DEF IndInv, ProcOK
    <2>2. \A q \in Procs : q # p =>
             pc'[q] = IF slot[q] = b /\ pc[q] = "busy" THEN "bget" ELSE pc[q]
      BY <2>1 DEF Ideintr, Woken, IndInv, TypeOK, Pcs, Holding
    <2>. QED  BY <2>2 DEF Holding
  <1>7. pc'[p] \in Holding /\ UNCHANGED <<want, slot>>
    BY <1>2 DEF Ideintr, Woken, Holding
  <1>8. \A t \in Good : HolderOf'[t] = HolderOf[t]
    BY <1>1, <1>4, Mapping, MappingNext DEF Mapped, HolderIs
  <1>9. ASSUME NEW q \in Procs, q # p PROVE ViewOf'[q] = ViewOf[q]
    <2>1. pc[q] \in Holding => slot[q] \in Bufs \ {b}
      BY <1>2, <1>9 DEF IndInv, ProcOK, Holding
    <2>2. pc'[q] \in Holding <=> pc[q] \in Holding
      BY <1>6, <1>9
    <2>. QED  BY <1>4, <1>7, <2>1, <2>2, Mapping, MappingNext DEF Mapped, ViewIs, Sees
  <1>10. ASSUME NEW t \in Good, t # s PROVE ContentOf'[t] = ContentOf[t]
    <2>1. disk'[t] = disk[t]
      BY <1>5, <1>10 DEF IndInv, TypeOK
    <2>2. \A c \in Bufs : buf[c].sector = t \/ buf'[c].sector = t => c # b
      BY <1>4, <1>10
    <2>. QED  BY <1>4, <2>1, <2>2, Mapping, MappingNext DEF Mapped, ContentIs
  <1>11. CASE s \in Good
    <2>1. HolderOf[s] = p
      BY <1>1, <1>11, Mapping DEF Mapped, HolderIs
    <2>2. ContentOf'[s] = buf'[b].data /\ ViewOf'[p] = buf'[b].data
      BY <1>1, <1>2, <1>4, <1>7, <1>11, MappingNext DEF Mapped, ContentIs, ViewIs, Sees
    <2>3. CASE buf[b].dirty
      <3>1. buf[b].valid
        BY <1>1, <2>3 DEF IndInv, BufOK
      <3>2. ContentOf[s] = buf[b].data /\ ViewOf[p] = buf[b].data
        BY <1>1, <1>2, <1>11, <3>1, Mapping DEF Mapped, ContentIs, ViewIs, Sees, Holding
      <3>3. ContentOf' = ContentOf /\ ViewOf' = ViewOf
        BY <1>4, <1>9, <1>10, <1>11, <2>2, <2>3, <3>2, SameContent, SameView
      <3>4. HolderOf[s] # NoProc /\ HolderOf' = HolderOf
        BY <1>2, <1>8, <2>1, DiskAssumption, SameHolder
      <3>5. disk' = [disk EXCEPT ![s] = ContentOf[s]]
        BY <1>5, <1>11, <2>3, <3>2
      <3>. QED  BY <1>11, <3>3, <3>4, <3>5 DEF Store!Flush
    <2>4. CASE ~ buf[b].dirty
      <3>1. ~ buf[b].valid
        BY <1>2, <2>4 DEF Done
      <3>2. ContentOf[s] = disk[s]
        <4>1. \A c \in Bufs : buf[c].sector = s => ~ buf[c].valid
          BY <1>1, <1>11, <3>1, Mapping DEF IndInv, CacheOK, Mapped
        <4>. QED  BY <1>11, <4>1, Mapping DEF Mapped, ContentIs
      <3>3. ContentOf' = ContentOf
        BY <1>4, <1>10, <1>11, <2>2, <2>4, <3>2, SameContent
      <3>4. ViewOf' = [ViewOf EXCEPT ![p] = ContentOf[s]]
        BY <1>2, <1>4, <1>9, <1>11, <2>2, <2>4, <3>2, NewView
      <3>5. HolderOf' = HolderOf /\ disk' = disk
        BY <1>5, <1>8, <2>4, SameHolder
      <3>. QED  BY <1>2, <1>11, <2>1, <3>3, <3>4, <3>5 DEF Store!Read
    <2>. QED  BY <2>3, <2>4
  <1>12. CASE s \notin Good
    <2>1. ContentOf' = ContentOf /\ HolderOf' = HolderOf /\ disk' = disk
      BY <1>5, <1>8, <1>10, <1>12, SameContent, SameHolder
    <2>2. ViewOf[p] = Nothing /\ ViewOf'[p] = Nothing
      BY <1>2, <1>7, <1>12, Mapping, MappingNext DEF Mapped, ViewIs, Sees
    <2>. QED  BY <1>9, <2>1, <2>2, SameView DEF Store!bvars
  <1>. QED  BY <1>11, <1>12

LEMMA NextRefines ==
  ASSUME IndInv, IndInv', [Next]_vars
  PROVE  [Store!Next]_(Store!bvars)
  <1>1. CASE Ideintr
    BY <1>1, IdeintrRefines DEF Store!Next
  <1>2. CASE \E p \in Procs : BreadIderw(p) \/ IderwWakes(p)
    BY <1>2, IderwWakesRefines
  <1>3. CASE \E p \in Procs : Brelse(p)
    BY <1>3, BrelseRefines DEF Store!Next
  <1>4. CASE \E p \in Procs, s \in Sectors : BgetHit(p, s) \/ BgetMiss(p, s)
    BY <1>4, BgetHitRefines, BgetMissRefines DEF Store!Next
  <1>5. CASE \E p \in Procs, v \in Vals : Bwrite(p, v) \/ LogWrite(p, v)
    <2>1. PICK p \in Procs, v \in Vals : Bwrite(p, v) \/ LogWrite(p, v)
      BY <1>5
    <2>2. /\ pc[p] = "use" /\ buf' = Changed(slot[p], v) /\ UNCHANGED <<disk, want, slot>>
          /\ pc'[p] \in Holding /\ \A q \in Procs : q # p => pc'[q] = pc[q]
      BY <2>1 DEF Bwrite, LogWrite, Iderw, IndInv, TypeOK, Holding
    <2>. QED  BY <2>2, ChangeRefines DEF Store!Next
  <1>6. CASE UNCHANGED vars
    <2>1. ContentOf' = ContentOf /\ HolderOf' = HolderOf /\ ViewOf' = ViewOf
      BY <1>6 DEF vars, ContentOf, HolderOf, ViewOf, Full, Held, Seen, Cached
    <2>. QED  BY <1>6, <2>1 DEF vars, Store!bvars
  <1>. QED  BY <1>1, <1>2, <1>3, <1>4, <1>5, <1>6 DEF Next

\* One content for a block, one process at a time: whatever is recycled, queued, pinned,
\* read or written, and in whatever order the drive and the processes go on, the cache
\* and the disk under it are the store that the head of bio.c promises.
THEOREM CacheImplementsStore == Spec => Promise
  <1>1. IndInv /\ IndInv' /\ [Next]_vars => [Store!Next]_(Store!bvars)
    BY NextRefines
  <1>. QED  BY <1>1, InitRefines, Invariance, PTL DEF Promise, Spec, Store!Spec

-----------------------------------------------------------------------------
(* The content of files.                                                   *)

Bytes  == Nat \cup {ByteOf[p] : p \in Writers}
Places == -1..(MAXFILE - 1)

\* The block number at a place, 0 if there is none.
Place(d, i, k) ==
  IF k = -1 THEN d.ip[i].addrs[NDIRECT]
  ELSE IF k < NDIRECT THEN d.ip[i].addrs[k]
  ELSE IF d.ip[i].addrs[NDIRECT] = 0 THEN 0
  ELSE d.data[d.ip[i].addrs[NDIRECT]][k - NDIRECT]

FsType ==
  [bitmap : SUBSET Blocks, data : [Blocks -> [Cells -> Bytes]],
   ip : [InodeSet -> [addrs : [0..NDIRECT -> Blocks], size : Nat]]]

\* Blocks have one place, and those of the places are the ones in use.
Owned(d) ==
  /\ d \in FsType
  /\ \A i \in InodeSet, k \in Places : Place(d, i, k) \in {0} \cup (NMeta..(SIZE - 1))
  /\ \A i, j \in InodeSet, k, m \in Places :
       Place(d, i, k) # 0 /\ Place(d, i, k) = Place(d, j, m) => i = j /\ k = m
  /\ \A b \in Blocks :
       b \in d.bitmap <=> b < NMeta \/ \E i \in InodeSet, k \in Places : Place(d, i, k) = b

\* The byte at offset o of a file, and whether there is a block for it.
Byte(d, i, o) == d.data[Place(d, i, o \div BSIZE)][o % BSIZE]
Has(d, i, o)  == Place(d, i, o \div BSIZE) # 0

\* Whether p is writing at offset o of inode i and has come past it.
Writing(p, i) == write[p].n1 > 0 /\ InodeOf[write[p].file] = i
Past(p, o)    == write[p].off <= o /\ o < write[p].off + write[p].tot

BytesRight(i) ==
  /\ text[i] \in Seq(Bytes) /\ Len(text[i]) <= MAXFILE * BSIZE
  /\ fs.ip[i].size = Len(text[i])
  /\ \A o \in 0..(Len(text[i]) - 1) :
       /\ Has(fs, i, o)
       /\ \/ Byte(fs, i, o) = text[i][o + 1]
          \/ \E p \in Writers : Writing(p, i) /\ Past(p, o)

WriteOK(p) ==
  write[p].n1 > 0 =>
    /\ locker[InodeOf[write[p].file]] = p
    /\ write[p].i < write[p].n /\ write[p].n1 <= write[p].n - write[p].i
    /\ write[p].off <= Len(text[InodeOf[write[p].file]])
    /\ write[p].off + write[p].n1 <= MAXFILE * BSIZE
    /\ write[p].tot <= write[p].n1
    /\ \A o \in write[p].off..(write[p].off + write[p].tot - 1) :
         /\ Has(fs, InodeOf[write[p].file], o)
         /\ Byte(fs, InodeOf[write[p].file], o) = ByteOf[p]

\* The inode on disk is the one in memory, but for what the end of a piece will write.
DiskRight(i) ==
  \/ dinode[i] = fs.ip[i]
  \/ \E p \in Writers :
       Writing(p, i) /\ write[p].off + write[p].n1 > Len(text[i])

WriteType ==
  [file : FileSet \cup {0}, n : Nat, i : Nat, off : Nat, n1 : Nat, tot : Nat]

Typed ==
  /\ dinode \in [InodeSet -> [addrs : [0..NDIRECT -> Blocks], size : Nat]]
  /\ off \in [FileSet -> Nat]
  /\ write \in [Writers -> WriteType]
  /\ \A p \in Writers :
       write[p] # NoWrite => write[p].file \in FileSet /\ write[p].i < write[p].n
  /\ locker \in [InodeSet -> Writers \cup {NoWriter}]
  /\ text \in [InodeSet -> Seq(Bytes)]

LockOK == \A i \in InodeSet, p \in Writers : locker[i] = p => Writing(p, i)

ContentInv ==
  /\ Owned(fs) /\ Typed /\ LockOK
  /\ \A p \in Writers : WriteOK(p)
  /\ \A i \in InodeSet : BytesRight(i) /\ DiskRight(i)

-----------------------------------------------------------------------------
(* Numbers and the constants.                                              *)

LEMMA Division ==
  ASSUME NEW a \in Int, NEW w \in Nat \ {0}
  PROVE  a = w * (a \div w) + (a % w) /\ a \div w \in Int /\ a % w \in 0..(w - 1)
OBVIOUS

LEMMA DivisionIs ==
  ASSUME NEW a \in Int, NEW w \in Nat \ {0}, NEW q \in Int, NEW r \in 0..(w - 1),
         a = w * q + r
  PROVE  a \div w = q /\ a % w = r
OBVIOUS

LEMMA LeastMember ==
  ASSUME NEW S \in SUBSET Nat, S # {}
  PROVE  \E x \in S : \A y \in S : x <= y
<1>1. IsWellFoundedOn(OpToRel(<, Nat), Nat)
  BY NatLessThanWellFounded
<1>2. PICK x \in S : \A y \in S : ~ (<<y, x>> \in OpToRel(<, Nat))
  BY <1>1, WFMin, Zenon
<1>3. \A y \in S : ~ (y < x)
  BY <1>2, Zenon DEF OpToRel
<1> QED BY <1>3

LEMMA LeastIs ==
  ASSUME NEW S \in SUBSET Nat, S # {}
  PROVE  Min(S) \in S
BY LeastMember, Zenon DEF Min

LEMMA Constants ==
  /\ BSIZE \in Nat /\ BSIZE > 0 /\ NDIRECT \in Nat /\ NDIRECT > 0
  /\ NINDIRECT \in Nat /\ NINDIRECT > 0 /\ NINDIRECT <= BSIZE
  /\ NMeta \in Nat /\ NMeta > 0 /\ NData \in Nat /\ NLogBlocks \in Nat
  /\ SIZE \in Nat /\ NMeta <= SIZE /\ 0 \in Blocks /\ Blocks \subseteq Nat
  /\ MAXFILE \in Nat /\ MAXFILE = NDIRECT + NINDIRECT
  /\ Zeroes \in [Cells -> Bytes]
BY ContentAssumption DEF MAXFILE, SIZE, Blocks, Zeroes, Bytes

LEMMA BlocksFinite ==
  ASSUME NEW S \in SUBSET Blocks
  PROVE  IsFiniteSet(S) /\ Cardinality(S) \in Nat
<1>1. IsFiniteSet(Blocks)
  BY Constants, FS_Interval DEF Blocks
<1> QED BY <1>1, FS_Subset, FS_CardinalityType

LEMMA OnePlace ==
  ASSUME NEW d, Owned(d), NEW i \in InodeSet, NEW j \in InodeSet,
         NEW k \in Places, NEW m \in Places,
         Place(d, i, k) # 0, Place(d, i, k) = Place(d, j, m)
  PROVE  i = j /\ k = m
BY DEF Owned

-----------------------------------------------------------------------------
(* A block is taken.                                                       *)

\* What bmap keeps of d in e when it looks for positions P of inode i.
Kept(d, e, i, P) ==
  /\ \A j \in InodeSet : j # i => e.ip[j] = d.ip[j]
  /\ e.ip[i].size = d.ip[i].size
  /\ \A j \in InodeSet, m \in Places :
       /\ Place(e, j, m) # Place(d, j, m) => Place(d, j, m) = 0 /\ j = i /\ m \in P
       /\ m >= 0 /\ Place(d, j, m) # 0 => e.data[Place(d, j, m)] = d.data[Place(d, j, m)]

LEMMA KeptTwice ==
  ASSUME NEW d, NEW e, NEW g, NEW i \in InodeSet, NEW P, NEW Q,
         Kept(d, e, i, P), Kept(e, g, i, Q)
  PROVE  Kept(d, g, i, P \cup Q)
<1>1. \A j \in InodeSet : j # i => g.ip[j] = d.ip[j]
  BY DEF Kept
<1>2. g.ip[i].size = d.ip[i].size
  BY DEF Kept
<1>3. ASSUME NEW j \in InodeSet, NEW m \in Places
      PROVE  /\ Place(g, j, m) # Place(d, j, m) =>
                  Place(d, j, m) = 0 /\ j = i /\ m \in P \cup Q
             /\ m >= 0 /\ Place(d, j, m) # 0 =>
                  g.data[Place(d, j, m)] = d.data[Place(d, j, m)]
  <2>1. Place(e, j, m) # Place(d, j, m) => Place(d, j, m) = 0 /\ j = i /\ m \in P
    BY <1>3, Zenon DEF Kept
  <2>2. Place(g, j, m) # Place(e, j, m) => Place(e, j, m) = 0 /\ j = i /\ m \in Q
    BY <1>3, Zenon DEF Kept
  <2>3. m >= 0 /\ Place(d, j, m) # 0 => e.data[Place(d, j, m)] = d.data[Place(d, j, m)]
    BY <1>3, Zenon DEF Kept
  <2>4. m >= 0 /\ Place(e, j, m) # 0 => g.data[Place(e, j, m)] = e.data[Place(e, j, m)]
    BY <1>3, Zenon DEF Kept
  <2>5. m \in P \/ m \in Q => m \in P \cup Q
    OBVIOUS
  <2> HIDE DEF Place
  <2> QED BY <2>1, <2>2, <2>3, <2>4, <2>5
<1> QED BY <1>1, <1>2, <1>3, Zenon DEF Kept

LEMMA FreeIs ==
  ASSUME NEW d, d.bitmap \in SUBSET Blocks, Blocks \ d.bitmap # {}
  PROVE  FreeBlock(d) \in Blocks \ d.bitmap
<1>1. (Blocks \ d.bitmap) \in SUBSET Nat
  BY Constants
<1> QED BY <1>1, LeastIs, Zenon DEF FreeBlock

LEMMA BallocIs ==
  ASSUME NEW d \in FsType, Blocks \ d.bitmap # {}
  PROVE  /\ FreeBlock(d) \in Blocks \ d.bitmap
         /\ Balloc(d) \in FsType
         /\ Balloc(d).bitmap = d.bitmap \cup {FreeBlock(d)}
         /\ Balloc(d).ip = d.ip
         /\ Balloc(d).data[FreeBlock(d)] = Zeroes
         /\ \A x \in Blocks \ {FreeBlock(d)} : Balloc(d).data[x] = d.data[x]
<1>1. FreeBlock(d) \in Blocks \ d.bitmap
  BY FreeIs DEF FsType
<1> QED BY <1>1, Constants DEF Balloc, FsType

\* A block that was free is put where there was none.
LEMMA TakenIs ==
  ASSUME NEW d, NEW e \in FsType, Owned(d), NEW i \in InodeSet, NEW k \in Places,
         NEW b \in Blocks \ d.bitmap,
         e.bitmap = d.bitmap \cup {b}, Place(d, i, k) = 0, Place(e, i, k) = b,
         \A j \in InodeSet, m \in Places :
           j # i \/ m # k => Place(e, j, m) = Place(d, j, m)
  PROVE  Owned(e)
<1>1. b \in NMeta..(SIZE - 1)
  BY Constants DEF Owned, Blocks
<1>2. \A j \in InodeSet, m \in Places : Place(d, j, m) # b
  BY DEF Owned
<1>3. \A j \in InodeSet, m \in Places : Place(e, j, m) \in {0} \cup (NMeta..(SIZE - 1))
  <2> TAKE j \in InodeSet, m \in Places
  <2>1. CASE j = i /\ m = k
    BY <2>1, <1>1
  <2>2. CASE j # i \/ m # k
    BY <2>2, Zenon DEF Owned
  <2> QED BY <2>1, <2>2
<1>4. ASSUME NEW j \in InodeSet, NEW l \in InodeSet, NEW m \in Places, NEW n \in Places,
             Place(e, j, m) # 0, Place(e, j, m) = Place(e, l, n)
      PROVE  j = l /\ m = n
  <2>1. CASE (j = i /\ m = k) \/ (l = i /\ n = k)
    <3>1. j = i /\ m = k <=> Place(e, j, m) = b
      BY <1>2, Zenon
    <3>2. l = i /\ n = k <=> Place(e, l, n) = b
      BY <1>2, Zenon
    <3> QED BY <2>1, <3>1, <3>2, <1>4, Zenon
  <2>2. CASE ~ (j = i /\ m = k) /\ ~ (l = i /\ n = k)
    <3>1. Place(e, j, m) = Place(d, j, m) /\ Place(e, l, n) = Place(d, l, n)
      BY <2>2, Zenon
    <3>2. Place(d, j, m) # 0 /\ Place(d, j, m) = Place(d, l, n)
      BY <1>4, <3>1
    <3> QED BY <3>2, OnePlace
  <2> QED BY <2>1, <2>2
<1>5. ASSUME NEW x \in Blocks
      PROVE  x \in e.bitmap <=> x < NMeta \/ \E j \in InodeSet, m \in Places : Place(e, j, m) = x
  <2>1. CASE x = b
    BY <2>1, Zenon
  <2>2. CASE x # b
    <3>1. x \in e.bitmap <=> x \in d.bitmap
      BY <2>2
    <3>2. x \in d.bitmap <=>
            x < NMeta \/ \E j \in InodeSet, m \in Places : Place(d, j, m) = x
      BY Zenon DEF Owned
    <3>3. ASSUME NEW j \in InodeSet, NEW m \in Places, Place(d, j, m) = x, ~ (x < NMeta)
          PROVE  Place(e, j, m) = x
      <4>1. x # 0
        BY <3>3, Constants
      <4> QED BY <3>3, <4>1, Zenon
    <3>4. ASSUME NEW j \in InodeSet, NEW m \in Places, Place(e, j, m) = x
          PROVE  Place(d, j, m) = x
      BY <3>4, <2>2, Zenon
    <3> QED BY <3>1, <3>2, <3>3, <3>4, Zenon
  <2> QED BY <2>1, <2>2
<1>6. \A j, l \in InodeSet, m, n \in Places :
        Place(e, j, m) # 0 /\ Place(e, j, m) = Place(e, l, n) => j = l /\ m = n
  BY <1>4
<1>7. \A x \in Blocks :
        x \in e.bitmap <=> x < NMeta \/ \E j \in InodeSet, m \in Places : Place(e, j, m) = x
  BY <1>5, Zenon
<1> QED BY <1>3, <1>6, <1>7, Zenon DEF Owned

\* The position of a block number of the inode.
Pos(k) == IF k = NDIRECT THEN -1 ELSE k

LEMMA PosIs ==
  ASSUME NEW k \in 0..NDIRECT
  PROVE  /\ Pos(k) \in Places
         /\ \A d, i : Place(d, i, Pos(k)) = d.ip[i].addrs[k]
BY Constants DEF Pos, Places, Place

LEMMA DirectIs ==
  ASSUME NEW d, Owned(d), NEW i \in InodeSet, NEW k \in 0..NDIRECT,
         d.ip[i].addrs[k] = 0 => Blocks \ d.bitmap # {}
  PROVE  /\ Owned(Direct(d, i, k)) /\ Kept(d, Direct(d, i, k), i, {Pos(k)})
         /\ Place(Direct(d, i, k), i, Pos(k)) # 0
         /\ d.ip[i].addrs[k] # 0 => Direct(d, i, k) = d
         /\ d.ip[i].addrs[k] = 0 =>
              \E b \in Blocks \ d.bitmap : Direct(d, i, k).bitmap = d.bitmap \cup {b}
<1>1. CASE d.ip[i].addrs[k] # 0
  BY <1>1, PosIs DEF Direct, Kept
<1>2. CASE d.ip[i].addrs[k] = 0
  <2> DEFINE b == FreeBlock(d)
  <2> DEFINE a == Balloc(d)
  <2> DEFINE e == Direct(d, i, k)
  <2>1. /\ d \in FsType /\ b \in Blocks \ d.bitmap /\ a \in FsType
        /\ a.bitmap = d.bitmap \cup {b} /\ a.ip = d.ip
        /\ a.data[b] = Zeroes /\ \A x \in Blocks \ {b} : a.data[x] = d.data[x]
    BY <1>2, BallocIs DEF Owned
  <2>2. e = [a EXCEPT !.ip[i].addrs[k] = b]
    BY <1>2 DEF Direct
  <2> HIDE DEF a, b, e
  <2>3. /\ e \in FsType /\ e.bitmap = a.bitmap /\ e.data = a.data
        /\ \A j \in InodeSet : j # i => e.ip[j] = d.ip[j]
        /\ e.ip[i].size = d.ip[i].size
        /\ e.ip[i].addrs[k] = b
        /\ \A m \in 0..NDIRECT : m # k => e.ip[i].addrs[m] = d.ip[i].addrs[m]
    <3>1. a.ip \in [InodeSet -> [addrs : [0..NDIRECT -> Blocks], size : Nat]]
      BY <2>1 DEF FsType
    <3>2. a.ip[i] \in [addrs : [0..NDIRECT -> Blocks], size : Nat]
      BY <3>1
    <3> DEFINE x == [a.ip[i] EXCEPT !.addrs[k] = b]
    <3>3. x \in [addrs : [0..NDIRECT -> Blocks], size : Nat] /\ x.size = a.ip[i].size
          /\ x.addrs[k] = b /\ \A m \in 0..NDIRECT : m # k => x.addrs[m] = a.ip[i].addrs[m]
      BY <3>2, <2>1
    <3>4. e = [a EXCEPT !.ip[i] = x]
      BY <2>2
    <3> HIDE DEF x
    <3>5. e \in FsType /\ e.bitmap = a.bitmap /\ e.data = a.data
          /\ e.ip[i] = x /\ \A j \in InodeSet : j # i => e.ip[j] = a.ip[j]
      BY <2>1, <3>1, <3>3, <3>4 DEF FsType
    <3> QED BY <2>1, <3>3, <3>5
  <2>4. \A j \in InodeSet, m \in Places :
          Place(d, j, m) \in d.bitmap \cup {0} /\ Place(d, j, m) \in Blocks
    BY Constants DEF Owned, Blocks
  <2>5. b # 0 /\ b \in Blocks
    BY <2>1, Constants DEF Owned
  <2>6. \A j \in InodeSet : d.ip[j].addrs[NDIRECT] # b
    BY <2>1, <2>4, <2>5, PosIs, Constants
  <2>7. \A j \in InodeSet, m \in Places :
          j # i \/ m # Pos(k) => Place(e, j, m) = Place(d, j, m)
    <3> TAKE j \in InodeSet, m \in Places
    <3> HAVE j # i \/ m # Pos(k)
    <3>1. CASE m \in -1..(NDIRECT - 1)
      BY <3>1, <2>3, Constants DEF Place, Pos
    <3>2. CASE m \in NDIRECT..(MAXFILE - 1)
      <4> DEFINE n == d.ip[j].addrs[NDIRECT]
      <4>1. m - NDIRECT \in Cells /\ m # -1 /\ ~ (m < NDIRECT)
        BY <3>2, Constants DEF Cells
      <4>2. n \in Blocks /\ n # b
        BY <2>1, <2>6, Constants DEF FsType
      <4>3. CASE j # i \/ k # NDIRECT
        <5>1. e.ip[j].addrs[NDIRECT] = n
          BY <4>3, <2>3, Constants
        <5>2. e.data[n] = d.data[n]
          BY <2>1, <2>3, <4>2
        <5> QED BY <4>1, <5>1, <5>2 DEF Place
      <4>4. CASE j = i /\ k = NDIRECT
        <5>1. e.ip[j].addrs[NDIRECT] = b /\ n = 0
          BY <4>4, <2>3, <1>2
        <5>2. e.data[b] = Zeroes
          BY <2>1, <2>3
        <5>3. Zeroes[m - NDIRECT] = 0
          BY <4>1 DEF Zeroes
        <5> QED BY <4>1, <2>5, <5>1, <5>2, <5>3 DEF Place
      <4> QED BY <4>3, <4>4
    <3> QED BY <3>1, <3>2, Constants DEF Places
  <2>8. Place(d, i, Pos(k)) = 0 /\ Place(e, i, Pos(k)) = b
    BY <1>2, <2>3, PosIs
  <2>9. Owned(e)
    <3>1. e.bitmap = d.bitmap \cup {b} /\ Pos(k) \in Places
      BY <2>1, <2>3, PosIs
    <3> QED BY <2>1, <2>3, <2>7, <2>8, <3>1, TakenIs, Zenon
  <2>10. Kept(d, e, i, {Pos(k)})
    <3>1. ASSUME NEW j \in InodeSet, NEW m \in Places
          PROVE  /\ Place(e, j, m) # Place(d, j, m) =>
                      Place(d, j, m) = 0 /\ j = i /\ m \in {Pos(k)}
                 /\ m >= 0 /\ Place(d, j, m) # 0 =>
                      e.data[Place(d, j, m)] = d.data[Place(d, j, m)]
      <4>1. Place(e, j, m) # Place(d, j, m) => j = i /\ m = Pos(k)
        BY <2>7, Zenon
      <4>2. Place(d, j, m) # 0 => Place(d, j, m) \in Blocks \ {b}
        BY <2>1, <2>4
      <4>3. Place(d, j, m) # 0 => e.data[Place(d, j, m)] = d.data[Place(d, j, m)]
        BY <4>2, <2>1, <2>3, Zenon
      <4> QED BY <4>1, <4>3, <2>8
    <3> QED BY <2>3, <3>1, Zenon DEF Kept
  <2> QED BY <1>2, <2>1, <2>3, <2>5, <2>8, <2>9, <2>10, Zenon DEF e
<1> QED BY <1>1, <1>2

LEMMA IndirectIs ==
  ASSUME NEW d, Owned(d), NEW i \in InodeSet, NEW k \in 0..(NINDIRECT - 1),
         d.ip[i].addrs[NDIRECT] # 0, Place(d, i, NDIRECT + k) = 0 => Blocks \ d.bitmap # {}
  PROVE  /\ Owned(Indirect(d, i, k)) /\ Kept(d, Indirect(d, i, k), i, {NDIRECT + k})
         /\ Place(Indirect(d, i, k), i, NDIRECT + k) # 0
         /\ Place(d, i, NDIRECT + k) # 0 => Indirect(d, i, k) = d
<1> DEFINE ind == d.ip[i].addrs[NDIRECT]
<1> DEFINE pos == NDIRECT + k
<1>0. /\ pos \in Places /\ ~ (pos < NDIRECT) /\ pos # -1 /\ pos - NDIRECT = k
      /\ k \in Cells /\ ind \in Blocks /\ -1 \in Places
  BY Constants DEF Places, Cells, Owned, FsType
<1>a. Place(d, i, pos) = d.data[ind][k] /\ Place(d, i, -1) = ind
  BY <1>0 DEF Place
<1>1. CASE Place(d, i, pos) # 0
  BY <1>1, <1>a DEF Indirect, Kept
<1>2. CASE Place(d, i, pos) = 0
  <2> DEFINE b == FreeBlock(d)
  <2> DEFINE a == Balloc(d)
  <2> DEFINE e == Indirect(d, i, k)
  <2>1. /\ d \in FsType /\ b \in Blocks \ d.bitmap /\ a \in FsType
        /\ a.bitmap = d.bitmap \cup {b} /\ a.ip = d.ip
        /\ \A x \in Blocks \ {b} : a.data[x] = d.data[x]
    BY <1>2, BallocIs DEF Owned
  <2>2. e = [a EXCEPT !.data[ind][k] = b]
    BY <1>2, <1>a DEF Indirect
  <2>4. \A j \in InodeSet, m \in Places :
          Place(d, j, m) \in d.bitmap \cup {0} /\ Place(d, j, m) \in Blocks
    BY Constants DEF Owned, Blocks
  <2> HIDE DEF a, b, e, ind
  <2>5. b # 0 /\ b \in Blocks /\ b \in Bytes /\ ind # b
    BY <2>1, <2>4, <1>0, <1>a, Constants DEF Owned, Bytes, ind
  <2>3. /\ e \in FsType /\ e.bitmap = a.bitmap /\ e.ip = d.ip
        /\ \A x \in Blocks \ {b, ind} : e.data[x] = d.data[x]
        /\ e.data[ind][k] = b
        /\ \A c \in Cells : c # k => e.data[ind][c] = d.data[ind][c]
    BY <2>1, <2>2, <2>5, <1>0 DEF FsType
  <2>6. \A j \in InodeSet : d.ip[j].addrs[NDIRECT] \in Blocks \ {b}
    BY <2>1, <2>4, <2>5, PosIs, Constants DEF FsType
  <2>7. \A j \in InodeSet, m \in Places :
          j # i \/ m # pos => Place(e, j, m) = Place(d, j, m)
    <3> TAKE j \in InodeSet, m \in Places
    <3> HAVE j # i \/ m # pos
    <3>1. CASE m \in -1..(NDIRECT - 1)
      BY <3>1, <2>3, Constants DEF Place
    <3>2. CASE m \in NDIRECT..(MAXFILE - 1)
      <4> DEFINE n == d.ip[j].addrs[NDIRECT]
      <4>1. m - NDIRECT \in Cells /\ m # -1 /\ ~ (m < NDIRECT)
        BY <3>2, Constants DEF Cells
      <4>2. n \in Blocks /\ n # b
        BY <2>6
      <4>3. CASE j # i
        <5>1. Place(d, j, -1) = n /\ (n = ind /\ ind # 0 => j = i)
          <6>1. Place(d, j, -1) = n
            BY DEF Place
          <6> QED BY <6>1, <1>0, <1>a DEF Owned
        <5>2. n # 0 => e.data[n] = d.data[n]
          BY <4>2, <4>3, <5>1, <2>3 DEF ind
        <5> QED BY <4>1, <5>2, <2>3 DEF Place
      <4>4. CASE j = i
        <5>1. n = ind /\ m - NDIRECT # k
          BY <4>4, <4>1, <3>2, Constants DEF ind
        <5>2. e.data[n][m - NDIRECT] = d.data[n][m - NDIRECT]
          BY <5>1, <4>1, <2>3
        <5> QED BY <4>1, <5>2, <2>3 DEF Place
      <4> QED BY <4>3, <4>4
    <3> QED BY <3>1, <3>2, Constants DEF Places
  <2>8. Place(e, i, pos) = b
    BY <2>3, <1>0 DEF Place, ind
  <2>9. Owned(e)
    <3>1. e.bitmap = d.bitmap \cup {b}
      BY <2>1, <2>3
    <3>2. e \in FsType /\ b \in Blocks \ d.bitmap /\ pos \in Places
      BY <1>0, <2>1, <2>3
    <3> HIDE DEF pos
    <3> QED BY <1>2, <2>7, <2>8, <3>1, <3>2, TakenIs
  <2>10. Kept(d, e, i, {pos})
    <3>1. ASSUME NEW j \in InodeSet, NEW m \in Places
          PROVE  /\ Place(e, j, m) # Place(d, j, m) =>
                      Place(d, j, m) = 0 /\ j = i /\ m \in {pos}
                 /\ m >= 0 /\ Place(d, j, m) # 0 =>
                      e.data[Place(d, j, m)] = d.data[Place(d, j, m)]
      <4> HIDE DEF pos
      <4>1. Place(e, j, m) # Place(d, j, m) => j = i /\ m = pos
        BY <2>7, Zenon
      <4>2. Place(d, j, m) # 0 => Place(d, j, m) \in Blocks \ {b}
        BY <2>1, <2>4
      <4>3. m >= 0 /\ Place(d, j, m) # 0 => Place(d, j, m) # ind
        <5>1. Place(d, i, -1) = ind /\ -1 \in Places
          BY <1>0, <1>a
        <5>2. Place(d, j, m) # 0 /\ Place(d, j, m) = Place(d, i, -1) => j = i /\ m = -1
          BY <5>1, OnePlace
        <5> QED BY <5>1, <5>2
      <4>4. m >= 0 /\ Place(d, j, m) # 0 => e.data[Place(d, j, m)] = d.data[Place(d, j, m)]
        BY <4>2, <4>3, <2>3, Zenon
      <4> QED BY <4>1, <4>4, <1>2
    <3> QED BY <2>3, <3>1, Zenon DEF Kept
  <2> QED BY <1>2, <2>5, <2>8, <2>9, <2>10, Zenon DEF e
<1> QED BY <1>1, <1>2

\* The positions bmap may fill.
Needed(bn) == {bn} \cup (IF bn < NDIRECT THEN {} ELSE {-1})

LEMMA NeedsIs ==
  ASSUME NEW d, Owned(d), NEW i \in InodeSet, NEW bn \in 0..(MAXFILE - 1)
  PROVE  /\ Needs(d, i, bn) \in {0, 1, 2}
         /\ Needs(d, i, bn) = 0 <=> Place(d, i, bn) # 0
         /\ Place(d, i, bn) # 0 => Addr(d, i, bn) = Place(d, i, bn)
BY Constants DEF Needs, Place, Addr

LEMMA BmapIs ==
  ASSUME NEW d, Owned(d), NEW i \in InodeSet, NEW bn \in 0..(MAXFILE - 1),
         Needs(d, i, bn) <= Cardinality(Blocks \ d.bitmap)
  PROVE  /\ Owned(Bmap(d, i, bn)) /\ Kept(d, Bmap(d, i, bn), i, Needed(bn))
         /\ Place(Bmap(d, i, bn), i, bn) # 0
         /\ Place(d, i, bn) # 0 => Bmap(d, i, bn) = d
<1>0. bn \in Places /\ -1 \in Places
  BY Constants DEF Places
<1>c. \A S \in SUBSET Blocks :
        /\ Cardinality(S) \in Nat /\ (Cardinality(S) > 0 => S # {})
        /\ \A b \in S : Cardinality(S \ {b}) = Cardinality(S) - 1
  BY BlocksFinite, FS_EmptySet, FS_RemoveElement
<1>1. CASE bn < NDIRECT
  <2>1. bn \in 0..NDIRECT /\ Pos(bn) = bn /\ Needed(bn) = {bn} /\ Bmap(d, i, bn) = Direct(d, i, bn)
    BY <1>1, Constants DEF Pos, Needed, Bmap
  <2>2. Place(d, i, bn) = d.ip[i].addrs[bn]
    BY <1>1, <2>1, PosIs
  <2>3. d.ip[i].addrs[bn] = 0 => Blocks \ d.bitmap # {}
    BY <1>1, <1>c DEF Needs
  <2> QED BY <2>1, <2>2, <2>3, DirectIs
<1>2. CASE ~ (bn < NDIRECT)
  <2> DEFINE e == Direct(d, i, NDIRECT)
  <2> DEFINE k == bn - NDIRECT
  <2>1. /\ NDIRECT \in 0..NDIRECT /\ Pos(NDIRECT) = -1 /\ k \in 0..(NINDIRECT - 1)
        /\ bn = NDIRECT + k /\ Bmap(d, i, bn) = Indirect(e, i, k)
    BY <1>2, Constants DEF Pos, Bmap
  <2>2. d.ip[i].addrs[NDIRECT] = 0 => Needs(d, i, bn) = 2
    BY <1>2 DEF Needs
  <2>3. d.ip[i].addrs[NDIRECT] = 0 => Blocks \ d.bitmap # {}
    BY <2>2, <1>c
  <2>4. /\ Owned(e) /\ Kept(d, e, i, {-1}) /\ Place(e, i, -1) # 0
        /\ d.ip[i].addrs[NDIRECT] # 0 => e = d
        /\ d.ip[i].addrs[NDIRECT] = 0 => \E b \in Blocks \ d.bitmap : e.bitmap = d.bitmap \cup {b}
    BY <2>1, <2>3, DirectIs
  <2> HIDE DEF e, k
  <2>5. Place(e, i, bn) = 0 => Blocks \ e.bitmap # {}
    <3>1. CASE d.ip[i].addrs[NDIRECT] = 0
      <4>1. PICK b \in Blocks \ d.bitmap : e.bitmap = d.bitmap \cup {b}
        BY <2>4, <3>1
      <4>2. Blocks \ e.bitmap = (Blocks \ d.bitmap) \ {b}
        BY <4>1
      <4>3. Cardinality(Blocks \ e.bitmap) = Cardinality(Blocks \ d.bitmap) - 1
        BY <4>2, <1>c
      <4> QED BY <4>3, <2>2, <3>1, <1>c
    <3>2. CASE d.ip[i].addrs[NDIRECT] # 0
      <4>1. e = d
        BY <2>4, <3>2
      <4>2. Place(d, i, bn) = 0 => Needs(d, i, bn) # 0
        BY NeedsIs
      <4> QED BY <4>1, <4>2, <1>c, NeedsIs
    <3> QED BY <3>1, <3>2
  <2>6. e.ip[i].addrs[NDIRECT] # 0
    BY <2>4 DEF Place
  <2>7. /\ Owned(Indirect(e, i, k)) /\ Kept(e, Indirect(e, i, k), i, {bn})
        /\ Place(Indirect(e, i, k), i, bn) # 0
        /\ Place(e, i, bn) # 0 => Indirect(e, i, k) = e
    BY <2>1, <2>4, <2>5, <2>6, IndirectIs
  <2>8. Kept(d, Indirect(e, i, k), i, {-1} \cup {bn})
    BY <2>4, <2>7, KeptTwice
  <2>9. {-1} \cup {bn} = Needed(bn)
    BY <1>2 DEF Needed
  <2>10. Place(d, i, bn) # 0 => d.ip[i].addrs[NDIRECT] # 0
    BY <1>2, Constants DEF Place
  <2> QED BY <2>1, <2>4, <2>7, <2>8, <2>9, <2>10
<1> QED BY <1>1, <1>2

\* The bytes of a block are changed.
LEMMA StoredIs ==
  ASSUME NEW e, Owned(e), NEW i \in InodeSet, NEW k \in 0..(MAXFILE - 1),
         Place(e, i, k) # 0, NEW x \in [Cells -> Bytes]
  PROVE  LET g == [e EXCEPT !.data[Place(e, i, k)] = x]
         IN  /\ Owned(g) /\ g.ip = e.ip /\ g.data[Place(e, i, k)] = x
             /\ \A j \in InodeSet, m \in Places :
                  /\ Place(g, j, m) = Place(e, j, m)
                  /\ (j # i \/ m # k) /\ Place(e, j, m) # 0 =>
                       g.data[Place(e, j, m)] = e.data[Place(e, j, m)]
<1> DEFINE B == Place(e, i, k)
<1> DEFINE g == [e EXCEPT !.data[B] = x]
<1>0. k \in Places /\ k # -1 /\ -1 \in Places /\ e \in FsType
  BY Constants DEF Places, Owned
<1>1. B \in Blocks /\ B # 0
  BY <1>0, Constants DEF Owned, Blocks
<1> HIDE DEF B
<1>2. /\ g \in FsType /\ g.bitmap = e.bitmap /\ g.ip = e.ip /\ g.data[B] = x
      /\ \A y \in Blocks \ {B} : g.data[y] = e.data[y]
  BY <1>0, <1>1 DEF FsType
<1> HIDE DEF g
<1>3. ASSUME NEW j \in InodeSet, NEW m \in Places, j # i \/ m # k, Place(e, j, m) # 0
      PROVE  Place(e, j, m) \in Blocks \ {B}
  <2>1. Place(e, j, m) \in Blocks
    BY Constants DEF Owned, Blocks
  <2> QED BY <1>0, <1>3, <2>1, OnePlace DEF B
<1>4. ASSUME NEW j \in InodeSet, NEW m \in Places
      PROVE  Place(g, j, m) = Place(e, j, m)
  <2> DEFINE n == e.ip[j].addrs[NDIRECT]
  <2>1. n # 0 => n \in Blocks \ {B}
    <3>1. Place(e, j, -1) = n
      BY DEF Place
    <3> QED BY <3>1, <1>0, <1>3
  <2>2. n # 0 => g.data[n] = e.data[n]
    BY <2>1, <1>2
  <2> QED BY <2>2, <1>2 DEF Place
<1>5. ASSUME NEW j \in InodeSet, NEW m \in Places, j # i \/ m # k, Place(e, j, m) # 0
      PROVE  g.data[Place(e, j, m)] = e.data[Place(e, j, m)]
  BY <1>3, <1>2, <1>5
<1>6. Owned(g)
  <2>1. \A j \in InodeSet, m \in Places : Place(g, j, m) \in {0} \cup (NMeta..(SIZE - 1))
    BY <1>4 DEF Owned
  <2>2. \A j, l \in InodeSet, m, n \in Places :
          Place(g, j, m) # 0 /\ Place(g, j, m) = Place(g, l, n) => j = l /\ m = n
    BY <1>4, OnePlace
  <2>3. \A b \in Blocks :
          b \in g.bitmap <=> b < NMeta \/ \E j \in InodeSet, m \in Places : Place(g, j, m) = b
    <3> TAKE b \in Blocks
    <3>1. b \in e.bitmap <=> b < NMeta \/ \E j \in InodeSet, m \in Places : Place(e, j, m) = b
      BY DEF Owned
    <3> QED BY <3>1, <1>2, <1>4
  <2> QED BY <1>2, <2>1, <2>2, <2>3 DEF Owned
<1> QED BY <1>2, <1>4, <1>5, <1>6 DEF B, g

LEMMA IpIs ==
  ASSUME NEW d \in FsType, NEW i \in InodeSet,
         NEW x \in [addrs : [0..NDIRECT -> Blocks], size : Nat],
         NEW g, g = [d EXCEPT !.ip[i] = x]
  PROVE  /\ g \in FsType /\ g.data = d.data /\ g.bitmap = d.bitmap
         /\ g.ip[i] = x /\ \A j \in InodeSet : j # i => g.ip[j] = d.ip[j]
BY DEF FsType

\* The size is set.
NewSize(r, n)     == [r EXCEPT !.size = n]
WithSize(d, i, n) == [d EXCEPT !.ip[i].size = n]

LEMMA SizedIs ==
  ASSUME NEW d, Owned(d), NEW i \in InodeSet, NEW n \in Nat
  PROVE  /\ Owned(WithSize(d, i, n)) /\ WithSize(d, i, n).data = d.data
         /\ NewSize(d.ip[i], n) \in [addrs : [0..NDIRECT -> Blocks], size : Nat]
         /\ NewSize(d.ip[i], n).size = n
         /\ WithSize(d, i, n).ip[i] = NewSize(d.ip[i], n)
         /\ \A j \in InodeSet : j # i => WithSize(d, i, n).ip[j] = d.ip[j]
         /\ \A j \in InodeSet : WithSize(d, i, n).ip[j].addrs = d.ip[j].addrs
<1> DEFINE x == NewSize(d.ip[i], n)
<1> DEFINE g == WithSize(d, i, n)
<1>1. d \in FsType /\ d.ip \in [InodeSet -> [addrs : [0..NDIRECT -> Blocks], size : Nat]]
  BY DEF Owned, FsType
<1>2. d.ip[i] \in [addrs : [0..NDIRECT -> Blocks], size : Nat]
  BY <1>1
<1>3. /\ x \in [addrs : [0..NDIRECT -> Blocks], size : Nat]
      /\ x.addrs = d.ip[i].addrs /\ x.size = n
  BY <1>2 DEF NewSize
<1>4. g = [d EXCEPT !.ip[i] = x]
  BY DEF NewSize, WithSize
<1> HIDE DEF x, g
<1>5. /\ g \in FsType /\ g.data = d.data /\ g.bitmap = d.bitmap
      /\ g.ip[i] = x /\ \A j \in InodeSet : j # i => g.ip[j] = d.ip[j]
  BY <1>1, <1>3, <1>4, IpIs
<1>6. \A j \in InodeSet : g.ip[j].addrs = d.ip[j].addrs
  BY <1>3, <1>5
<1>7. \A j \in InodeSet, k \in Places : Place(g, j, k) = Place(d, j, k)
  BY <1>5, <1>6 DEF Place
<1>8. Owned(g)
  <2>1. \A j \in InodeSet, k \in Places : Place(g, j, k) \in {0} \cup (NMeta..(SIZE - 1))
    BY <1>7 DEF Owned
  <2>2. \A j, l \in InodeSet, k, m \in Places :
          Place(g, j, k) # 0 /\ Place(g, j, k) = Place(g, l, m) => j = l /\ k = m
    BY <1>7, OnePlace
  <2>3. \A b \in Blocks :
          b \in g.bitmap <=> b < NMeta \/ \E j \in InodeSet, k \in Places : Place(g, j, k) = b
    <3> TAKE b \in Blocks
    <3>1. b \in d.bitmap <=> b < NMeta \/ \E j \in InodeSet, k \in Places : Place(d, j, k) = b
      BY DEF Owned
    <3> QED BY <3>1, <1>5, <1>7
  <2> QED BY <1>5, <2>1, <2>2, <2>3 DEF Owned
<1> QED BY <1>3, <1>5, <1>6, <1>8 DEF x, g

-----------------------------------------------------------------------------
(* A step of writei.                                                       *)

LEMMA Times ==
  ASSUME NEW a \in Int, NEW b \in Int, NEW w \in Nat, a <= b
  PROVE  w * a <= w * b
<1> DEFINE c == b - a
<1>1. c \in Nat /\ b = a + c
  OBVIOUS
<1> HIDE DEF c
<1>2. w * c >= 0
  BY <1>1
<1>3. w * b = w * a + w * c
  BY <1>1
<1> QED BY <1>1, <1>2, <1>3

Offsets == 0..(MAXFILE * BSIZE - 1)

LEMMA CellIs ==
  ASSUME NEW q \in Offsets
  PROVE  /\ q \div BSIZE \in 0..(MAXFILE - 1) /\ q % BSIZE \in Cells
         /\ q \div BSIZE \in Places
<1> DEFINE k == q \div BSIZE
<1> DEFINE r == q % BSIZE
<1>0. q \in Nat /\ q \in Int /\ q < MAXFILE * BSIZE /\ BSIZE \in Nat \ {0}
  BY Constants DEF Offsets
<1>1. q = BSIZE * k + r /\ k \in Int /\ r \in 0..(BSIZE - 1)
  BY <1>0, Division
<1> HIDE DEF k, r
<1>2. k >= 0
  <2> SUFFICES ASSUME k <= -1
               PROVE  FALSE
    BY <1>1
  <2>1. BSIZE * k <= BSIZE * (-1)
    BY <1>1, Constants, Times
  <2> QED BY <2>1, <1>0, <1>1, Constants
<1>3. k < MAXFILE
  <2> SUFFICES ASSUME MAXFILE <= k
               PROVE  FALSE
    BY <1>1, Constants
  <2>1. BSIZE * MAXFILE <= BSIZE * k
    BY <1>1, Constants, Times
  <2>2. BSIZE * MAXFILE = MAXFILE * BSIZE /\ BSIZE * k \in Int
    BY <1>1, Constants
  <2> QED BY <2>1, <2>2, <1>0, <1>1, Constants
<1>4. k \in 0..(MAXFILE - 1) /\ r \in Cells /\ k \in Places
  BY <1>1, <1>2, <1>3, Constants DEF Cells, Places
<1> QED BY <1>4 DEF k, r

\* The bytes an iteration moves, and the cells they are in.
LEMMA MovedIs ==
  ASSUME NEW o \in Nat, NEW n \in Nat, NEW tot \in Nat, tot < n
  PROVE  /\ Moved(o, n, tot) \in 1..(n - tot)
         /\ Into(o, n, tot) \subseteq Cells
         /\ \A q \in Nat :
              q \div BSIZE = o \div BSIZE =>
                (q % BSIZE \in Into(o, n, tot) <=> q \in o..(o + Moved(o, n, tot) - 1))
         /\ \A q \in o..(o + Moved(o, n, tot) - 1) :
              q \div BSIZE = o \div BSIZE /\ q % BSIZE = (o % BSIZE) + (q - o)
<1> DEFINE k == o \div BSIZE
<1> DEFINE r == o % BSIZE
<1> DEFINE m == Moved(o, n, tot)
<1>1. o = BSIZE * k + r /\ k \in Int /\ r \in 0..(BSIZE - 1)
  BY Constants, Division
<1>2. m \in 1..(n - tot) /\ r + m <= BSIZE
  BY <1>1, Constants DEF Moved, min
<1>3. Into(o, n, tot) = r..(r + m - 1)
  BY DEF Into
<1> HIDE DEF k, r, m
<1>4. Into(o, n, tot) \subseteq Cells
  BY <1>1, <1>2, <1>3, Constants DEF Cells
<1>5. ASSUME NEW q \in Nat, q \div BSIZE = k
      PROVE  q % BSIZE \in Into(o, n, tot) <=> q \in o..(o + m - 1)
  <2> DEFINE s == q % BSIZE
  <2>0. BSIZE \in Nat \ {0} /\ q \in Int
    BY Constants
  <2>1. q = BSIZE * (q \div BSIZE) + s /\ s \in 0..(BSIZE - 1)
    BY <2>0, Division
  <2> HIDE DEF s
  <2>2. q - o = s - r
    BY <2>1, <1>1, <1>5, Constants
  <2> QED BY <2>1, <2>2, <1>1, <1>2, <1>3 DEF s
<1>6. ASSUME NEW q \in o..(o + m - 1)
      PROVE  q \div BSIZE = k /\ q % BSIZE = r + (q - o)
  <2> DEFINE s == r + (q - o)
  <2>1. q \in Int /\ s \in 0..(BSIZE - 1) /\ q = BSIZE * k + s
    BY <1>1, <1>2, <1>6, Constants
  <2> HIDE DEF s
  <2>2. q \div BSIZE = k /\ q % BSIZE = s
    BY <2>1, <1>1, Constants, DivisionIs
  <2> QED BY <2>2 DEF s
<1> QED BY <1>2, <1>4, <1>5, <1>6 DEF k, r, m

\* g is d with m bytes b at offset o of inode i.
Written(d, g, i, o, m, b) ==
  /\ Owned(g)
  /\ \A j \in InodeSet : j # i => g.ip[j] = d.ip[j]
  /\ g.ip[i].size = d.ip[i].size
  /\ Has(d, i, o) => g.ip = d.ip
  /\ \A j \in InodeSet, k \in Places :
       Place(g, j, k) # Place(d, j, k) =>
         Place(d, j, k) = 0 /\ j = i /\ k \in Needed(o \div BSIZE)
  /\ \A j \in InodeSet, q \in Offsets :
       Has(d, j, q) =>
         /\ Has(g, j, q)
         /\ j # i \/ q \notin o..(o + m - 1) => Byte(g, j, q) = Byte(d, j, q)
  /\ \A q \in o..(o + m - 1) : Has(g, i, q) /\ Byte(g, i, q) = b

LEMMA ChunkIs ==
  ASSUME NEW d, Owned(d), NEW i \in InodeSet, NEW start \in Nat, NEW n \in Nat, NEW tot \in Nat,
         tot < n, start + n <= MAXFILE * BSIZE, NEW b \in Bytes,
         Needs(d, i, (start + tot) \div BSIZE) <= Cardinality(Blocks \ d.bitmap)
  PROVE  /\ Moved(start + tot, n, tot) \in 1..(n - tot) /\ start + tot \in Offsets
         /\ Written(d, Chunk(d, i, start, n, tot, b), i, start + tot, Moved(start + tot, n, tot), b)
<1> DEFINE o == start + tot
<1> DEFINE m == Moved(o, n, tot)
<1> DEFINE g == Chunk(d, i, start, n, tot, b)
<1> DEFINE bn == o \div BSIZE
<1> DEFINE e == Bmap(d, i, bn)
<1> DEFINE B == Place(e, i, bn)
<1> DEFINE x == [c \in Cells |-> IF c \in Into(o, n, tot) THEN b ELSE e.data[B][c]]
<1>1. o \in Offsets /\ o \in Nat /\ \A q \in o..(o + (n - tot) - 1) : q \in Offsets
  BY Constants DEF Offsets
<1>2. bn \in 0..(MAXFILE - 1) /\ bn \in Places
  BY <1>1, CellIs
<1>3. /\ m \in 1..(n - tot)
      /\ Into(o, n, tot) \subseteq Cells
      /\ \A q \in Nat :
           q \div BSIZE = bn => (q % BSIZE \in Into(o, n, tot) <=> q \in o..(o + m - 1))
      /\ \A q \in o..(o + m - 1) : q \div BSIZE = bn
  <2>1. /\ Moved(o, n, tot) \in 1..(n - tot)
        /\ Into(o, n, tot) \subseteq Cells
        /\ \A q \in Nat :
             q \div BSIZE = o \div BSIZE =>
               (q % BSIZE \in Into(o, n, tot) <=> q \in o..(o + Moved(o, n, tot) - 1))
        /\ \A q \in o..(o + Moved(o, n, tot) - 1) :
             q \div BSIZE = o \div BSIZE /\ q % BSIZE = (o % BSIZE) + (q - o)
    <3> HIDE DEF o
    <3> QED BY <1>1, MovedIs, Zenon
  <2> QED BY <2>1
<1>4. /\ Owned(e) /\ Kept(d, e, i, Needed(bn)) /\ B # 0
      /\ Place(d, i, bn) # 0 => e = d
  BY <1>2, BmapIs
<1> HIDE DEF e
<1>5. Addr(e, i, bn) = B
  BY <1>2, <1>4, NeedsIs
<1>6. B \in Blocks /\ e.data \in [Blocks -> [Cells -> Bytes]]
  BY <1>2, <1>4, Constants DEF Owned, Blocks, FsType
<1>7. x \in [Cells -> Bytes]
  BY <1>6
<1>8. g = [e EXCEPT !.data[B] = x]
  <2>1. g = [e EXCEPT !.data[Addr(e, i, bn)] =
                        [c \in Cells |-> IF c \in Into(o, n, tot) THEN b ELSE @[c]]]
    BY DEF Chunk, e
  <2> QED BY <2>1, <1>5
<1> HIDE DEF x, g, m
<1>9. /\ Owned(g) /\ g.ip = e.ip /\ g.data[B] = x
      /\ \A j \in InodeSet, k \in Places :
           /\ Place(g, j, k) = Place(e, j, k)
           /\ (j # i \/ k # bn) /\ Place(e, j, k) # 0 =>
                g.data[Place(e, j, k)] = e.data[Place(e, j, k)]
  BY <1>2, <1>4, <1>7, <1>8, StoredIs
<1>10. /\ \A j \in InodeSet : j # i => g.ip[j] = d.ip[j]
       /\ g.ip[i].size = d.ip[i].size
       /\ \A j \in InodeSet, k \in Places :
            Place(g, j, k) # Place(d, j, k) =>
              Place(d, j, k) = 0 /\ j = i /\ k \in Needed(bn)
  BY <1>4, <1>9 DEF Kept
<1>11. Has(d, i, o) => g.ip = d.ip
  BY <1>4, <1>9 DEF Has
<1>12. ASSUME NEW j \in InodeSet, NEW q \in Offsets, Has(d, j, q)
       PROVE  /\ Has(g, j, q)
              /\ j # i \/ q \notin o..(o + m - 1) => Byte(g, j, q) = Byte(d, j, q)
  <2> DEFINE k == q \div BSIZE
  <2>1. k \in 0..(MAXFILE - 1) /\ k \in Places /\ k >= 0 /\ q % BSIZE \in Cells /\ q \in Nat
    BY CellIs, Constants DEF Offsets
  <2>2. Place(d, j, k) # 0
    BY <1>12 DEF Has
  <2> HIDE DEF k
  <2>3. /\ Place(g, j, k) = Place(d, j, k) /\ Place(e, j, k) = Place(d, j, k)
        /\ e.data[Place(d, j, k)] = d.data[Place(d, j, k)]
    BY <1>4, <1>9, <1>10, <2>1, <2>2 DEF Kept
  <2>4. CASE j # i \/ k # bn
    <3>1. g.data[Place(e, j, k)] = e.data[Place(e, j, k)]
      BY <1>9, <2>1, <2>2, <2>3, <2>4
    <3> QED BY <3>1, <2>2, <2>3 DEF Has, Byte, k
  <2>5. CASE j = i /\ k = bn
    <3>1. q \notin o..(o + m - 1) => x[q % BSIZE] = e.data[B][q % BSIZE]
      BY <1>3, <2>1, <2>5 DEF x, k
    <3>2. Place(d, j, k) = B
      BY <2>3, <2>5
    <3> QED BY <3>1, <3>2, <1>9, <2>2, <2>3, <2>5 DEF Has, Byte, k
  <2> QED BY <2>4, <2>5
<1>13. ASSUME NEW q \in o..(o + m - 1)
       PROVE  Has(g, i, q) /\ Byte(g, i, q) = b
  <2>1. q \in Offsets /\ q \in Nat
    BY <1>1, <1>3 DEF Offsets
  <2>2. q \div BSIZE = bn /\ q % BSIZE \in Into(o, n, tot) /\ q % BSIZE \in Cells
    BY <1>3, <1>13, <2>1
  <2>3. x[q % BSIZE] = b
    BY <2>2 DEF x
  <2> QED BY <2>2, <2>3, <1>2, <1>4, <1>9 DEF Has, Byte
<1>14. Written(d, g, i, o, m, b)
  BY <1>9, <1>10, <1>11, <1>12, <1>13 DEF Written
<1> QED BY <1>1, <1>3, <1>14 DEF g, m

-----------------------------------------------------------------------------
(* readi.                                                                  *)

\* The function of the loop of readi.
Piece(d, i, o, n, tot) ==
  [c \in 1..Moved(o, n, tot) |-> d.data[Addr(d, i, o \div BSIZE)][(o % BSIZE) + c - 1]]

ReadLoop(d, i, start, n, f) ==
  f = [tot \in 0..n |->
         IF tot = n THEN << >>
         ELSE Piece(d, i, start + tot, n, tot) \o f[tot + Moved(start + tot, n, tot)]]

LEMMA ReadiLoop ==
  ASSUME NEW d, NEW i, NEW start, NEW n0
  PROVE  Readi(d, i, start, n0) =
           (CHOOSE f : ReadLoop(d, i, start, min(n0, d.ip[i].size - start), f))[0]
BY DEF Readi, ReadLoop, Piece

\* Text T is what is in the blocks of inode i.
Reads(d, i, T) ==
  /\ T \in Seq(Bytes) /\ Len(T) <= MAXFILE * BSIZE /\ d.ip[i].size = Len(T)
  /\ \A q \in 0..(Len(T) - 1) : Has(d, i, q) /\ Byte(d, i, q) = T[q + 1]

LEMMA PieceIs ==
  ASSUME NEW d, Owned(d), NEW i \in InodeSet, NEW T, Reads(d, i, T),
         NEW start \in Nat, NEW n \in Nat, start + n <= Len(T), NEW tot \in Nat, tot < n
  PROVE  /\ Moved(start + tot, n, tot) \in 1..(n - tot)
         /\ Piece(d, i, start + tot, n, tot) =
              SubSeq(T, start + tot + 1, start + tot + Moved(start + tot, n, tot))
<1> DEFINE o == start + tot
<1> DEFINE m == Moved(o, n, tot)
<1> DEFINE bn == o \div BSIZE
<1>0. T \in Seq(Bytes) /\ Len(T) \in Nat /\ Len(T) <= MAXFILE * BSIZE /\ o \in Nat
  BY DEF Reads
<1>1. /\ m \in 1..(n - tot)
      /\ \A q \in o..(o + m - 1) : q \div BSIZE = bn /\ q % BSIZE = (o % BSIZE) + (q - o)
  <2> HIDE DEF o
  <2> QED BY <1>0, MovedIs, Zenon
<1> HIDE DEF m
<1>2. \A q \in o..(o + m - 1) : q \in 0..(Len(T) - 1) /\ q \in Offsets
  BY <1>0, <1>1, Constants DEF Offsets
<1>3. o \in o..(o + m - 1)
  BY <1>0, <1>1
<1>4. bn \in 0..(MAXFILE - 1) /\ Place(d, i, bn) # 0
  BY <1>2, <1>3, CellIs DEF Reads, Has
<1>5. Addr(d, i, bn) = Place(d, i, bn)
  BY <1>4, NeedsIs
<1>6. ASSUME NEW c \in 1..m
      PROVE  d.data[Addr(d, i, bn)][(o % BSIZE) + c - 1] = T[o + c]
  <2> DEFINE q == o + c - 1
  <2>1. q \in o..(o + m - 1) /\ q - o = c - 1 /\ q + 1 = o + c
    BY <1>0, <1>1
  <2>2. o % BSIZE \in Nat
    BY <1>0, Constants, Division
  <2> HIDE DEF q
  <2>3. Byte(d, i, q) = T[q + 1] /\ q \div BSIZE = bn /\ q % BSIZE = (o % BSIZE) + (q - o)
    BY <1>1, <1>2, <2>1 DEF Reads
  <2>4. (o % BSIZE) + c - 1 = q % BSIZE
    BY <2>1, <2>2, <2>3
  <2> QED BY <1>5, <2>1, <2>3, <2>4 DEF Byte
<1>7. Piece(d, i, o, n, tot) = [c \in 1..m |-> T[o + c]]
  BY <1>6 DEF Piece, m
<1>8. \A c \in 1..m : T[o + c] \in Bytes
  <2> TAKE c \in 1..m
  <2>1. o + c \in 1..Len(T)
    BY <1>0, <1>1
  <2> QED BY <1>0, <2>1, ElementOfSeq
<1>9. \A k \in (o + 1)..(o + m) : T[k] \in Bytes
  <2> TAKE k \in (o + 1)..(o + m)
  <2>1. k \in 1..Len(T)
    BY <1>0, <1>1
  <2> QED BY <1>0, <2>1, ElementOfSeq
<1>10. /\ SubSeq(T, o + 1, o + m) \in Seq(Bytes) /\ Len(SubSeq(T, o + 1, o + m)) = m
       /\ \A c \in 1..m : SubSeq(T, o + 1, o + m)[c] = T[o + c]
  <2>1. o + 1 \in Int /\ o + m \in Int /\ o + 1 <= o + m /\ (o + m) - (o + 1) + 1 = m
    BY <1>0, <1>1
  <2>2. /\ SubSeq(T, o + 1, o + m) \in Seq(Bytes)
        /\ Len(SubSeq(T, o + 1, o + m)) = m
        /\ \A c \in 1..m : SubSeq(T, o + 1, o + m)[c] = T[(o + 1) + c - 1]
    <3> HIDE DEF o
    <3> QED BY <1>9, <2>1, SubSeqProperties
  <2>3. \A c \in 1..m : (o + 1) + c - 1 = o + c
    BY <1>0, <1>1
  <2> QED BY <2>2, <2>3
<1>11. SubSeq(T, o + 1, o + m) = [c \in 1..m |-> T[o + c]]
  BY <1>1, <1>10, LenProperties
<1> QED BY <1>1, <1>7, <1>11 DEF m

\* What is left to read has one more piece.
Onward(d, i, T, start, n, tot) ==
  Piece(d, i, start + tot, n, tot)
    \o SubSeq(T, start + tot + Moved(start + tot, n, tot) + 1, start + n)
      = SubSeq(T, start + tot + 1, start + n)

LEMMA LoopIs ==
  ASSUME NEW d, Owned(d), NEW i \in InodeSet, NEW T, Reads(d, i, T),
         NEW start \in Nat, NEW n \in Nat, start + n <= Len(T), NEW tot \in Nat, tot < n
  PROVE  Onward(d, i, T, start, n, tot)
<1> DEFINE o == start + tot
<1> DEFINE m == Moved(o, n, tot)
<1>1. m \in 1..(n - tot) /\ Piece(d, i, o, n, tot) = SubSeq(T, o + 1, o + m)
  BY PieceIs
<1> HIDE DEF m
<1>2. T \in Seq(Bytes) /\ Len(T) \in Nat /\ o \in Nat
  BY DEF Reads
<1>3. /\ o + 1 \in 1..(Len(T) + 1) /\ o + m \in ((o + 1) - 1)..Len(T)
      /\ start + n \in (o + m)..Len(T)
  BY <1>1, <1>2
<1>4. SubSeq(T, o + 1, o + m) \o SubSeq(T, o + m + 1, start + n) = SubSeq(T, o + 1, start + n)
  <2> HIDE DEF o
  <2> QED BY <1>2, <1>3, ConcatAdjacentSubSeq
<1> QED BY <1>1, <1>4 DEF m, Onward

LEMMA ReadiIs ==
  ASSUME NEW d, Owned(d), NEW i \in InodeSet, NEW T, Reads(d, i, T),
         NEW start \in Nat, start <= Len(T), NEW n0 \in Nat
  PROVE  Readi(d, i, start, n0) = SubSeq(T, start + 1, min(start + n0, Len(T)))
<1> DEFINE n == min(n0, d.ip[i].size - start)
<1> DEFINE w == [tot \in 0..n |-> SubSeq(T, start + tot + 1, start + n)]
<1> DEFINE F == CHOOSE f : ReadLoop(d, i, start, n, f)
<1>1. n \in Nat /\ start + n <= Len(T) /\ start + n = min(start + n0, Len(T))
  BY DEF Reads, min
<1> HIDE DEF n
<1>2. ReadLoop(d, i, start, n, w)
  <2>1. ASSUME NEW tot \in 0..n
        PROVE  w[tot] = IF tot = n THEN << >>
                        ELSE Piece(d, i, start + tot, n, tot)
                               \o w[tot + Moved(start + tot, n, tot)]
    <3>1. CASE tot = n
      <4>1. w[tot] = SubSeq(T, start + n + 1, start + n)
        BY <3>1, <1>1
      <4>2. SubSeq(T, start + n + 1, start + n) = << >>
        BY <1>1, SubSeqEmpty
      <4> QED BY <3>1, <4>1, <4>2
    <3>2. CASE tot # n
      <4> DEFINE m == Moved(start + tot, n, tot)
      <4>1. tot \in Nat /\ tot < n
        BY <1>1, <3>2
      <4>0. Onward(d, i, T, start, n, tot)
        BY <1>1, <4>1, LoopIs
      <4>2. m \in 1..(n - tot)
        BY <1>1, <4>1, PieceIs
      <4> HIDE DEF m
      <4>3. tot + m \in 0..n /\ start + (tot + m) + 1 = start + tot + m + 1
        BY <1>1, <4>1, <4>2
      <4>4. w[tot + m] = SubSeq(T, start + tot + m + 1, start + n)
        BY <4>3
      <4>5. Piece(d, i, start + tot, n, tot) \o SubSeq(T, start + tot + m + 1, start + n)
              = SubSeq(T, start + tot + 1, start + n)
        BY <4>0, Zenon DEF m, Onward
      <4> QED BY <3>2, <4>4, <4>5 DEF m
    <3> QED BY <3>1, <3>2
  <2> HIDE DEF w
  <2>2. w = [tot \in 0..n |-> w[tot]]
    BY DEF w
  <2> QED BY <2>1, <2>2 DEF ReadLoop
<1>3. ReadLoop(d, i, start, n, F)
  <2> HIDE DEF w
  <2> QED BY <1>2, Zenon
<1> HIDE DEF F
<1>4. \A tot \in 0..n : F[tot] = w[tot]
  <2> DEFINE S == {k \in 0..n : F[n - k] # w[n - k]}
  <2> SUFFICES ASSUME S # {}
               PROVE  FALSE
    <3> SUFFICES ASSUME NEW tot \in 0..n, F[tot] # w[tot]
                 PROVE  FALSE
      OBVIOUS
    <3>1. n - tot \in 0..n /\ n - (n - tot) = tot
      BY <1>1
    <3> HIDE DEF w
    <3> QED BY <3>1
  <2> HIDE DEF w
  <2>1. S \in SUBSET Nat
    BY <1>1
  <2>2. PICK k \in S : \A y \in S : k <= y
    BY <2>1, LeastMember
  <2>3. k \in 0..n /\ F[n - k] # w[n - k]
    BY <2>2
  <2> DEFINE tot == n - k
  <2>4. tot \in 0..n
    BY <1>1, <2>3
  <2> HIDE DEF S
  <2>5. CASE k = 0
    <3>1. tot = n
      BY <2>5, <1>1
    <3>2. F[tot] = << >> /\ w[tot] = << >>
      BY <3>1, <2>4, <1>2, <1>3 DEF ReadLoop
    <3> QED BY <3>2, <2>3
  <2>6. CASE k # 0
    <3> DEFINE m == Moved(start + tot, n, tot)
    <3>1. tot \in Nat /\ tot < n /\ tot # n
      BY <1>1, <2>3, <2>6
    <3> HIDE DEF tot
    <3>2. m \in 1..(n - tot)
      BY <1>1, <3>1, PieceIs
    <3>3. /\ F[tot] = Piece(d, i, start + tot, n, tot) \o F[tot + m]
          /\ w[tot] = Piece(d, i, start + tot, n, tot) \o w[tot + m]
      BY <3>1, <2>4, <1>2, <1>3 DEF ReadLoop
    <3> HIDE DEF m
    <3>4. n - (tot + m) \in 0..n /\ n - (tot + m) < k /\ n - (n - (tot + m)) = tot + m
      BY <1>1, <2>3, <3>1, <3>2 DEF tot
    <3>5. n - (tot + m) \notin S
      BY <2>2, <2>3, <3>4
    <3>6. F[tot + m] = w[tot + m]
      BY <3>4, <3>5 DEF S
    <3> QED BY <3>3, <3>6, <2>3 DEF tot
  <2> QED BY <2>5, <2>6
<1>5. Readi(d, i, start, n0) = F[0]
  BY ReadiLoop DEF F, n
<1>6. F[0] = SubSeq(T, start + 0 + 1, start + n)
  BY <1>1, <1>4
<1>7. start + 0 + 1 = start + 1
  OBVIOUS
<1> QED BY <1>1, <1>5, <1>6, <1>7

-----------------------------------------------------------------------------
(* The blocks of an inode, and itrunc.                                     *)

LEMMA BlocksAre ==
  ASSUME NEW d, Owned(d), NEW i \in InodeSet
  PROVE  \A u : u \in BlocksOf(d, i) <=>
                  \E k \in Places : Place(d, i, k) # 0 /\ u = <<Place(d, i, k), i, k>>
<1> DEFINE a == d.ip[i].addrs
<1> DEFINE ind == a[NDIRECT]
<1>0. BlocksOf(d, i) =
        {<<a[k], i, IF k = NDIRECT THEN -1 ELSE k>> : k \in {k \in 0..NDIRECT : a[k] # 0}}
        \cup IF ind = 0 THEN {}
             ELSE {<<d.data[ind][k], i, NDIRECT + k>> :
                     k \in {k \in 0..(NINDIRECT - 1) : d.data[ind][k] # 0}}
  BY DEF BlocksOf
<1>1. \A k \in 0..NDIRECT : Place(d, i, Pos(k)) = a[k] /\ Pos(k) \in Places
  BY PosIs
<1>2. \A k \in 0..(NINDIRECT - 1) :
        /\ NDIRECT + k \in Places
        /\ ind # 0 => Place(d, i, NDIRECT + k) = d.data[ind][k]
        /\ ind = 0 => Place(d, i, NDIRECT + k) = 0
  BY Constants DEF Place, Places
<1>3. \A k \in Places :
        \/ \E m \in 0..NDIRECT : k = Pos(m)
        \/ \E m \in 0..(NINDIRECT - 1) : k = NDIRECT + m
  <2> TAKE k \in Places
  <2>1. CASE k = -1
    BY <2>1, Constants DEF Pos
  <2>2. CASE k \in 0..(NDIRECT - 1)
    <3>1. k \in 0..NDIRECT /\ Pos(k) = k
      BY <2>2, Constants DEF Pos
    <3> QED BY <3>1
  <2>3. CASE k \in NDIRECT..(MAXFILE - 1)
    <3>1. k - NDIRECT \in 0..(NINDIRECT - 1) /\ k = NDIRECT + (k - NDIRECT)
      BY <2>3, Constants
    <3> QED BY <3>1
  <2> QED BY <2>1, <2>2, <2>3, Constants DEF Places
<1> TAKE u
<1> HIDE DEF ind, a
<1>4. ASSUME u \in BlocksOf(d, i)
      PROVE  \E k \in Places : Place(d, i, k) # 0 /\ u = <<Place(d, i, k), i, k>>
  <2>1. CASE \E k \in 0..NDIRECT : a[k] # 0 /\ u = <<a[k], i, Pos(k)>>
    BY <2>1, <1>1
  <2>2. CASE ind # 0 /\ \E k \in 0..(NINDIRECT - 1) :
                          d.data[ind][k] # 0 /\ u = <<d.data[ind][k], i, NDIRECT + k>>
    BY <2>2, <1>2
  <2> QED BY <1>0, <1>4, <2>1, <2>2 DEF Pos
<1>5. ASSUME NEW k \in Places, Place(d, i, k) # 0, u = <<Place(d, i, k), i, k>>
      PROVE  u \in BlocksOf(d, i)
  <2>1. CASE \E m \in 0..NDIRECT : k = Pos(m)
    <3>1. PICK m \in 0..NDIRECT : k = Pos(m)
      BY <2>1
    <3>2. a[m] # 0 /\ u = <<a[m], i, Pos(m)>>
      BY <3>1, <1>1, <1>5
    <3> QED BY <3>2, <1>0 DEF Pos
  <2>2. CASE \E m \in 0..(NINDIRECT - 1) : k = NDIRECT + m
    <3>1. PICK m \in 0..(NINDIRECT - 1) : k = NDIRECT + m
      BY <2>2
    <3>2. ind # 0 /\ d.data[ind][m] # 0 /\ u = <<d.data[ind][m], i, NDIRECT + m>>
      BY <3>1, <1>2, <1>5
    <3> QED BY <3>2, <1>0
  <2> QED BY <2>1, <2>2, <1>3
<1> QED BY <1>4, <1>5

\* The blocks of all inodes in the words of BlocksOwned.
LEMMA OwnedBlocks ==
  ASSUME Owned(fs)
  PROVE  BlocksOwned
<1>1. \A u : u \in AllBlocks <=>
               \E i \in InodeSet, k \in Places :
                 Place(fs, i, k) # 0 /\ u = <<Place(fs, i, k), i, k>>
  <2> TAKE u
  <2>1. u \in AllBlocks <=> \E i \in InodeSet : u \in BlocksOf(fs, i)
    BY Zenon DEF AllBlocks
  <2>2. \A i \in InodeSet :
          u \in BlocksOf(fs, i) <=>
            \E k \in Places : Place(fs, i, k) # 0 /\ u = <<Place(fs, i, k), i, k>>
    BY BlocksAre
  <2> QED BY <2>1, <2>2, Zenon
<1>2. \A i \in InodeSet, k \in Places :
        Place(fs, i, k) # 0 => Place(fs, i, k) \in NMeta..(SIZE - 1) /\ Place(fs, i, k) \in Blocks
  BY Constants DEF Owned, Blocks
<1>3. fs.bitmap = 0..(NMeta - 1) \cup {u[1] : u \in AllBlocks}
  <2>1. fs.bitmap \subseteq Blocks
    BY DEF Owned, FsType
  <2>2. ASSUME NEW b \in fs.bitmap
        PROVE  b \in 0..(NMeta - 1) \cup {u[1] : u \in AllBlocks}
    <3>1. b \in Blocks
      BY <2>1
    <3>2. CASE b < NMeta
      BY <3>1, <3>2, Constants
    <3>3. CASE ~ (b < NMeta)
      <4>1. PICK i \in InodeSet, k \in Places : Place(fs, i, k) = b
        BY <3>1, <3>3 DEF Owned
      <4>2. b # 0
        BY <3>3, Constants
      <4>3. <<b, i, k>> \in AllBlocks
        BY <4>1, <4>2, <1>1
      <4> QED BY <4>3
    <3> QED BY <3>2, <3>3
  <2>3. ASSUME NEW b \in 0..(NMeta - 1)
        PROVE  b \in fs.bitmap
    <3>1. b \in Blocks /\ b < NMeta
      BY Constants DEF Blocks
    <3> QED BY <3>1 DEF Owned
  <2>4. ASSUME NEW u \in AllBlocks
        PROVE  u[1] \in fs.bitmap
    <3>1. PICK i \in InodeSet, k \in Places :
                 Place(fs, i, k) # 0 /\ u = <<Place(fs, i, k), i, k>>
      BY <1>1
    <3>2. u[1] = Place(fs, i, k) /\ Place(fs, i, k) \in Blocks
      BY <3>1, <1>2
    <3> QED BY <3>2 DEF Owned
  <2> QED BY <2>2, <2>3, <2>4
<1>4. ASSUME NEW u \in AllBlocks, NEW w \in AllBlocks, u[1] = w[1]
      PROVE  u = w
  <2>1. PICK i \in InodeSet, k \in Places :
               Place(fs, i, k) # 0 /\ u = <<Place(fs, i, k), i, k>>
    BY <1>1
  <2>2. PICK j \in InodeSet, m \in Places :
               Place(fs, j, m) # 0 /\ w = <<Place(fs, j, m), j, m>>
    BY <1>1
  <2>3. i = j /\ k = m
    BY <2>1, <2>2, <1>4, OnePlace
  <2> QED BY <2>1, <2>2, <2>3
<1>5. ASSUME NEW u \in AllBlocks
      PROVE  u[1] >= NMeta
  <2>1. PICK i \in InodeSet, k \in Places :
               Place(fs, i, k) # 0 /\ u = <<Place(fs, i, k), i, k>>
    BY <1>1
  <2>2. u[1] \in NMeta..(SIZE - 1)
    BY <2>1, <1>2
  <2> QED BY <2>2, Constants
<1> QED BY <1>3, <1>4, <1>5 DEF BlocksOwned

LEMMA ItruncIs ==
  ASSUME NEW d, Owned(d), NEW i \in InodeSet
  PROVE  LET g == Itrunc(d, i)
         IN  /\ Owned(g)
             /\ \A j \in InodeSet : j # i => g.ip[j] = d.ip[j]
             /\ g.ip[i] = [addrs |-> NoAddrs, size |-> 0]
             /\ \A j \in InodeSet, q \in Offsets :
                  j # i => (Has(g, j, q) <=> Has(d, j, q)) /\ Byte(g, j, q) = Byte(d, j, q)
<1> DEFINE g == Itrunc(d, i)
<1>0. NoAddrs \in [0..NDIRECT -> Blocks] /\ NDIRECT \in 0..NDIRECT /\ d \in FsType
  BY Constants DEF NoAddrs, Owned
<1>1. /\ g \in FsType /\ g.bitmap = d.bitmap \ Freed(d, i) /\ g.data = d.data
      /\ \A j \in InodeSet : j # i => g.ip[j] = d.ip[j]
      /\ g.ip[i] = [addrs |-> NoAddrs, size |-> 0]
  BY <1>0 DEF Itrunc, FsType
<1> HIDE DEF g
<1>2. \A k \in Places : Place(g, i, k) = 0
  BY <1>1, Constants DEF Place, NoAddrs, Places
<1>3. \A j \in InodeSet, k \in Places : j # i => Place(g, j, k) = Place(d, j, k)
  BY <1>1 DEF Place
<1>4. \A b : b \in Freed(d, i) <=> \E k \in Places : Place(d, i, k) = b /\ b # 0
  <2> TAKE b
  <2>1. b \in Freed(d, i) <=> \E u \in BlocksOf(d, i) : b = u[1]
    BY Zenon DEF Freed
  <2>2. ASSUME NEW u \in BlocksOf(d, i), b = u[1]
        PROVE  \E k \in Places : Place(d, i, k) = b /\ b # 0
    <3>1. PICK k \in Places : Place(d, i, k) # 0 /\ u = <<Place(d, i, k), i, k>>
      BY BlocksAre
    <3> QED BY <3>1, <2>2
  <2>3. ASSUME NEW k \in Places, Place(d, i, k) = b, b # 0
        PROVE  \E u \in BlocksOf(d, i) : b = u[1]
    <3>1. <<b, i, k>> \in BlocksOf(d, i)
      BY <2>3, BlocksAre
    <3>2. <<b, i, k>>[1] = b
      OBVIOUS
    <3> QED BY <3>1, <3>2
  <2> QED BY <2>1, <2>2, <2>3
<1>5. Owned(g)
  <2>1. \A j \in InodeSet, k \in Places : Place(g, j, k) \in {0} \cup (NMeta..(SIZE - 1))
    BY <1>2, <1>3 DEF Owned
  <2>2. \A j, l \in InodeSet, k, m \in Places :
          Place(g, j, k) # 0 /\ Place(g, j, k) = Place(g, l, m) => j = l /\ k = m
    BY <1>2, <1>3, OnePlace
  <2>3. \A b \in Blocks :
          b \in g.bitmap <=> b < NMeta \/ \E j \in InodeSet, k \in Places : Place(g, j, k) = b
    <3> TAKE b \in Blocks
    <3>1. b \in d.bitmap <=> b < NMeta \/ \E j \in InodeSet, k \in Places : Place(d, j, k) = b
      BY DEF Owned
    <3>2. b \in g.bitmap <=> b \in d.bitmap /\ ~ \E k \in Places : Place(d, i, k) = b /\ b # 0
      BY <1>1, <1>4
    <3>3. CASE b < NMeta
      <4>1. \A k \in Places : Place(d, i, k) = b => b = 0
        BY <3>3, Constants DEF Owned
      <4> QED BY <3>1, <3>2, <3>3, <4>1
    <3>4. CASE ~ (b < NMeta)
      <4>0. b # 0
        BY <3>4, Constants
      <4>1. ASSUME b \in g.bitmap
            PROVE  \E j \in InodeSet, k \in Places : Place(g, j, k) = b
        <5>1. PICK j \in InodeSet, k \in Places : Place(d, j, k) = b
          BY <3>1, <3>2, <3>4, <4>1
        <5>2. j # i
          BY <5>1, <4>0, <4>1, <3>2
        <5>3. Place(g, j, k) = b
          BY <5>1, <5>2, <1>3
        <5> QED BY <5>3
      <4>2. ASSUME NEW j \in InodeSet, NEW k \in Places, Place(g, j, k) = b
            PROVE  b \in g.bitmap
        <5>1. j # i /\ Place(d, j, k) = b
          BY <4>0, <4>2, <1>2, <1>3
        <5>2. \A m \in Places : Place(d, i, m) # b
          BY <5>1, <4>0, OnePlace
        <5>3. b \in d.bitmap
          BY <3>1, <5>1
        <5> QED BY <3>2, <5>2, <5>3
      <4> QED BY <3>4, <4>1, <4>2
    <3> QED BY <3>3, <3>4
  <2> QED BY <1>1, <2>1, <2>2, <2>3 DEF Owned
<1>6. ASSUME NEW j \in InodeSet, NEW q \in Offsets, j # i
      PROVE  (Has(g, j, q) <=> Has(d, j, q)) /\ Byte(g, j, q) = Byte(d, j, q)
  <2>1. Place(g, j, q \div BSIZE) = Place(d, j, q \div BSIZE)
    BY <1>3, <1>6, CellIs
  <2> QED BY <2>1, <1>1 DEF Has, Byte
<1> QED BY <1>1, <1>5, <1>6 DEF g

-----------------------------------------------------------------------------
(* The steps.                                                              *)

LEMMA Busy ==
  ASSUME ContentInv
  PROVE  /\ \A f \in FileSet : InodeOf[f] \in InodeSet
         /\ \A p \in Writers, i \in InodeSet :
              Writing(p, i) => locker[i] = p /\ locker[i] # NoWriter
         /\ \A p \in Writers :
              write[p].n1 > 0 => /\ write[p] # NoWrite /\ write[p].file \in FileSet
                                 /\ InodeOf[write[p].file] \in InodeSet
                                 /\ Writing(p, InodeOf[write[p].file])
<1>1. \A f \in FileSet : InodeOf[f] \in InodeSet
  BY ContentAssumption
<1>2. \A p \in Writers : p # NoWriter
  BY ContentAssumption
<1>3. \A p \in Writers :
        write[p].n1 > 0 => write[p] # NoWrite /\ write[p].file \in FileSet
  BY DEF ContentInv, Typed, NoWrite
<1> QED BY <1>1, <1>2, <1>3 DEF ContentInv, WriteOK, Writing

\* Of an unlocked inode the text can be read.
LEMMA FreeReads ==
  ASSUME ContentInv, NEW i \in InodeSet, locker[i] = NoWriter
  PROVE  Reads(fs, i, text[i])
<1>1. \A p \in Writers : ~ Writing(p, i)
  BY Busy
<1> QED BY <1>1 DEF ContentInv, BytesRight, Reads

\* write begins or ends, and no inode is locked.
LEMMA StartWriteStep ==
  ASSUME ContentInv, NEW p \in Writers, NEW f \in FileSet, NEW n \in Lengths, StartWrite(p, f, n)
  PROVE  ContentInv'
<1>0. n \in Nat /\ n > 0
  BY ContentAssumption
<1>1. /\ write[p] = NoWrite /\ write \in [Writers -> WriteType]
      /\ write' = [write EXCEPT ![p] = [NoWrite EXCEPT !.file = f, !.n = n]]
      /\ UNCHANGED <<fs, dinode, off, locker, text>>
  BY DEF StartWrite, ContentInv, Typed
<1>2. /\ write'[p] = [NoWrite EXCEPT !.file = f, !.n = n]
      /\ \A q \in Writers : q # p => write'[q] = write[q]
      /\ write' \in [Writers -> WriteType]
  BY <1>0, <1>1 DEF NoWrite, WriteType
<1>3. write'[p].n1 = 0 /\ write'[p].i = 0 /\ write'[p].n = n /\ write'[p].file = f
  BY <1>2 DEF NoWrite
<1>4. write[p].n1 = 0
  BY <1>1 DEF NoWrite
<1>5. \A q \in Writers : (write[q].n1 > 0 \/ write'[q].n1 > 0) => write'[q] = write[q]
  <2> TAKE q \in Writers
  <2>1. CASE q = p
    BY <2>1, <1>3, <1>4
  <2>2. CASE q # p
    BY <2>2, <1>2
  <2> QED BY <2>1, <2>2
<1>6. \A q \in Writers : \A i : Writing(q, i)' <=> Writing(q, i)
  BY <1>5 DEF Writing
<1>7. \A q \in Writers : \A i, o : Writing(q, i)  => (Past(q, o)' <=> Past(q, o))
  BY <1>5 DEF Writing, Past
<1>8. Typed'
  BY <1>0, <1>1, <1>2, <1>3 DEF ContentInv, Typed
<1>9. LockOK'
  BY <1>1, <1>6 DEF ContentInv, LockOK, Typed
<1>10. ASSUME NEW q \in Writers
       PROVE  WriteOK(q)'
  <2> SUFFICES ASSUME write'[q].n1 > 0
               PROVE  WriteOK(q)'
    BY DEF WriteOK
  <2>1. write'[q] = write[q]
    BY <1>5
  <2>2. WriteOK(q)
    BY DEF ContentInv
  <2> QED BY <1>1, <2>1, <2>2 DEF WriteOK
<1>11. ASSUME NEW i \in InodeSet
       PROVE  BytesRight(i)' /\ DiskRight(i)'
  <2>1. BytesRight(i)'
    BY <1>1, <1>6, <1>7 DEF ContentInv, BytesRight
  <2>2. DiskRight(i)'
    <3>1. \A q \in Writers : Writing(q, i) => write'[q] = write[q]
      BY <1>5 DEF Writing
    <3> QED BY <1>1, <1>6, <3>1 DEF ContentInv, DiskRight
  <2> QED BY <2>1, <2>2
<1> QED BY <1>1, <1>8, <1>9, <1>10, <1>11 DEF ContentInv

LEMMA BeginPieceStep ==
  ASSUME ContentInv, NEW p \in Writers, BeginPiece(p)
  PROVE  ContentInv'
<1> DEFINE w  == write[p]
<1> DEFINE i  == InodeOf[w.file]
<1> DEFINE n1 == min(w.n - w.i, MaxPiece)
<1> DEFINE o  == off[w.file]
<1>1. /\ w # NoWrite /\ w.n1 = 0 /\ locker[i] = NoWriter
      /\ UNCHANGED <<fs, dinode, off, text>>
      /\ \/ write' = [write EXCEPT ![p] = NoWrite] /\ UNCHANGED locker
         \/ /\ ~ (o > fs.ip[i].size \/ o + n1 > MAXFILE * BSIZE)
            /\ write' = [write EXCEPT ![p].off = o, ![p].n1 = n1, ![p].tot = 0]
            /\ locker' = [locker EXCEPT ![i] = p]
  BY DEF BeginPiece
<1>2. /\ w \in WriteType /\ w.file \in FileSet /\ w.i < w.n /\ i \in InodeSet
      /\ write \in [Writers -> WriteType] /\ locker \in [InodeSet -> Writers \cup {NoWriter}]
      /\ off \in [FileSet -> Nat] /\ p # NoWriter
  BY <1>1, Busy, ContentAssumption DEF ContentInv, Typed
<1>3. o \in Nat /\ w.n \in Nat /\ w.i \in Nat /\ w.n - w.i \in Nat /\ w.n - w.i > 0
  BY <1>2 DEF WriteType
<1>4. n1 \in Nat /\ n1 > 0 /\ n1 <= w.n - w.i
  BY <1>3, ContentAssumption DEF min
<1>5. \A q \in Writers : \A j : Writing(q, j) => q # p
  BY <1>1 DEF Writing
<1> HIDE DEF n1, o
<1>6. CASE write' = [write EXCEPT ![p] = NoWrite] /\ UNCHANGED locker
  <2>1. write'[p] = NoWrite /\ \A q \in Writers : q # p => write'[q] = write[q]
    BY <1>2, <1>6
  <2>2. write'[p].n1 = 0
    BY <2>1 DEF NoWrite
  <2>3. \A q \in Writers : (write[q].n1 > 0 \/ write'[q].n1 > 0) => write'[q] = write[q]
    <3> TAKE q \in Writers
    <3>1. CASE q = p
      BY <3>1, <2>2, <1>1
    <3>2. CASE q # p
      BY <3>2, <2>1
    <3> QED BY <3>1, <3>2
  <2>4. \A q \in Writers : \A j : Writing(q, j)' <=> Writing(q, j)
    BY <2>3 DEF Writing
  <2>5. \A q \in Writers : \A j, r : Writing(q, j)  => (Past(q, r)' <=> Past(q, r))
    BY <2>3 DEF Writing, Past
  <2>6. Typed'
    <3>1. write' \in [Writers -> WriteType]
      BY <1>2, <1>6 DEF NoWrite, WriteType
    <3> QED BY <1>1, <1>6, <2>1, <3>1 DEF ContentInv, Typed
  <2>7. LockOK'
    BY <1>6, <2>4 DEF ContentInv, LockOK, Typed
  <2>8. ASSUME NEW q \in Writers
        PROVE  WriteOK(q)'
    <3> SUFFICES ASSUME write'[q].n1 > 0
                 PROVE  WriteOK(q)'
      BY DEF WriteOK
    <3>1. write'[q] = write[q]
      BY <2>3
    <3>2. WriteOK(q)
      BY DEF ContentInv
    <3> QED BY <1>1, <1>6, <3>1, <3>2 DEF WriteOK
  <2>9. ASSUME NEW j \in InodeSet
        PROVE  BytesRight(j)' /\ DiskRight(j)'
    <3>1. BytesRight(j)'
      BY <1>1, <2>4, <2>5 DEF ContentInv, BytesRight
    <3>2. DiskRight(j)'
      <4>1. \A q \in Writers : Writing(q, j) => write'[q] = write[q]
        BY <2>3 DEF Writing
      <4> QED BY <1>1, <2>4, <4>1 DEF ContentInv, DiskRight
    <3> QED BY <3>1, <3>2
  <2> QED BY <1>1, <2>6, <2>7, <2>8, <2>9 DEF ContentInv
<1>7. CASE /\ ~ (o > fs.ip[i].size \/ o + n1 > MAXFILE * BSIZE)
           /\ write' = [write EXCEPT ![p].off = o, ![p].n1 = n1, ![p].tot = 0]
           /\ locker' = [locker EXCEPT ![i] = p]
  <2>1. /\ write'[p] = [w EXCEPT !.off = o, !.n1 = n1, !.tot = 0]
        /\ \A q \in Writers : q # p => write'[q] = write[q]
        /\ locker'[i] = p /\ \A j \in InodeSet : j # i => locker'[j] = locker[j]
    BY <1>2, <1>7
  <2>2. /\ write'[p].off = o /\ write'[p].n1 = n1 /\ write'[p].tot = 0
        /\ write'[p].file = w.file /\ write'[p].n = w.n /\ write'[p].i = w.i
        /\ write'[p] \in WriteType
    <3> DEFINE v == write'[p]
    <3>1. v = [w EXCEPT !.off = o, !.n1 = n1, !.tot = 0] /\ w \in WriteType
          /\ o \in Nat /\ n1 \in Nat
      BY <2>1, <1>2, <1>3, <1>4
    <3> HIDE DEF w, v
    <3>2. /\ v.off = o /\ v.n1 = n1 /\ v.tot = 0
          /\ v.file = w.file /\ v.n = w.n /\ v.i = w.i /\ v \in WriteType
      BY <3>1 DEF WriteType
    <3> QED BY <3>2 DEF v
  <2>3. fs.ip[i].size = Len(text[i]) /\ Len(text[i]) \in Nat /\ o <= Len(text[i])
        /\ o + n1 <= MAXFILE * BSIZE
    <3>1. fs.ip[i].size = Len(text[i]) /\ Len(text[i]) \in Nat
      BY <1>2 DEF ContentInv, BytesRight
    <3>2. MAXFILE * BSIZE \in Nat
      BY Constants
    <3>3. ~ (o > fs.ip[i].size) /\ ~ (o + n1 > MAXFILE * BSIZE)
      BY <1>7
    <3> HIDE DEF i
    <3> QED BY <3>1, <3>2, <3>3, <1>3, <1>4
  <2>4. ASSUME NEW q \in Writers, NEW j, Writing(q, j)
        PROVE  Writing(q, j)' /\ write'[q] = write[q]
    BY <2>1, <2>4, <1>5 DEF Writing
  <2>5. \A q \in Writers : \A j, r : Writing(q, j)  => (Past(q, r)' <=> Past(q, r))
    BY <2>4 DEF Past
  <2>6. Typed'
    <3>1. write' \in [Writers -> WriteType]
      BY <1>2, <1>7, <2>1, <2>2
    <3>2. locker' \in [InodeSet -> Writers \cup {NoWriter}]
      BY <1>2, <1>7
    <3>3. ASSUME NEW q \in Writers, write'[q] # NoWrite
          PROVE  write'[q].file \in FileSet /\ write'[q].i < write'[q].n
      <4>1. CASE q = p
        BY <4>1, <2>2, <1>2
      <4>2. CASE q # p
        BY <3>3, <4>2, <2>1 DEF ContentInv, Typed
      <4> QED BY <4>1, <4>2
    <3> QED BY <1>1, <3>1, <3>2, <3>3 DEF ContentInv, Typed
  <2>7. LockOK'
    <3> SUFFICES ASSUME NEW j \in InodeSet, NEW q \in Writers, locker'[j] = q
                 PROVE  Writing(q, j)'
      BY DEF LockOK
    <3>1. CASE j = i
      <4>1. q = p
        BY <3>1, <2>1
      <4> QED BY <3>1, <4>1, <2>2, <1>4 DEF Writing
    <3>2. CASE j # i
      <4>1. locker[j] = q
        BY <3>2, <2>1
      <4>2. Writing(q, j)
        BY <4>1 DEF ContentInv, LockOK
      <4>3. Writing(q, j)'
        BY <4>2, <2>4
      <4> QED BY <4>3
    <3> QED BY <3>1, <3>2
  <2>8. ASSUME NEW q \in Writers
        PROVE  WriteOK(q)'
    <3>1. CASE q = p
      <4>1. \A r \in o..(o + 0 - 1) : FALSE
        BY <1>3
      <4> QED BY <3>1, <4>1, <1>1, <1>3, <1>4, <2>1, <2>2, <2>3 DEF WriteOK
    <3>2. CASE q # p
      <4> SUFFICES ASSUME write'[q].n1 > 0
                   PROVE  WriteOK(q)'
        BY DEF WriteOK
      <4>1. write'[q] = write[q]
        BY <3>2, <2>1
      <4>2. WriteOK(q)
        BY DEF ContentInv
      <4>3. locker'[InodeOf[write[q].file]] = q
        <5>1. InodeOf[write[q].file] \in InodeSet /\ locker[InodeOf[write[q].file]] # NoWriter
          BY <4>1, Busy
        <5>2. InodeOf[write[q].file] # i
          BY <5>1, <1>1
        <5> QED BY <5>1, <5>2, <2>1, <4>1, <4>2 DEF WriteOK
      <4> QED BY <1>1, <4>1, <4>2, <4>3 DEF WriteOK
    <3> QED BY <3>1, <3>2
  <2>9. ASSUME NEW j \in InodeSet
        PROVE  BytesRight(j)' /\ DiskRight(j)'
    <3>1. BytesRight(j)'
      BY <1>1, <2>4, <2>5 DEF ContentInv, BytesRight
    <3>2. DiskRight(j)'
      BY <1>1, <2>4 DEF ContentInv, DiskRight
    <3> QED BY <3>1, <3>2
  <2> QED BY <1>1, <2>6, <2>7, <2>8, <2>9 DEF ContentInv
<1> QED BY <1>1, <1>6, <1>7

LEMMA WriteChunkStep ==
  ASSUME ContentInv, NEW p \in Writers, WriteChunk(p)
  PROVE  ContentInv'
<1> DEFINE w  == write[p]
<1> DEFINE i  == InodeOf[w.file]
<1> DEFINE o  == w.off + w.tot
<1> DEFINE m  == Moved(o, w.n1, w.tot)
<1> DEFINE g  == Chunk(fs, i, w.off, w.n1, w.tot, ByteOf[p])
<1>1. /\ w.tot < w.n1 /\ UNCHANGED <<dinode, off, locker, text>>
      /\ \/ UNCHANGED <<fs, write>>
         \/ /\ ~ (Needs(fs, i, o \div BSIZE) > Cardinality(Blocks \ fs.bitmap))
            /\ fs' = g
            /\ write' = [write EXCEPT ![p].tot = @ + m]
  BY DEF WriteChunk
<1>2. CASE UNCHANGED <<fs, write>>
  BY <1>1, <1>2 DEF ContentInv, Typed, LockOK, WriteOK, BytesRight, DiskRight, Writing, Past
<1>3. CASE /\ ~ (Needs(fs, i, o \div BSIZE) > Cardinality(Blocks \ fs.bitmap))
           /\ fs' = g
           /\ write' = [write EXCEPT ![p].tot = @ + m]
  <2>1. /\ w \in WriteType /\ write \in [Writers -> WriteType]
        /\ w.off \in Nat /\ w.n1 \in Nat /\ w.tot \in Nat /\ w.n1 > 0
    BY <1>1 DEF ContentInv, Typed, WriteType
  <2>2. /\ i \in InodeSet /\ locker[i] = p /\ Writing(p, i) /\ w # NoWrite /\ WriteOK(p)
        /\ w.off + w.n1 <= MAXFILE * BSIZE
    BY <2>1, Busy DEF ContentInv, WriteOK
  <2>3. \A q \in Writers, j \in InodeSet : Writing(q, j) => (q = p <=> j = i)
    BY <2>2, Busy DEF Writing
  <2>4. Needs(fs, i, o \div BSIZE) <= Cardinality(Blocks \ fs.bitmap)
    <3>1. o \in Offsets
      BY <2>1, <2>2, <1>1, Constants DEF Offsets
    <3>2. Needs(fs, i, o \div BSIZE) \in Nat
      BY <3>1, <2>2, CellIs, NeedsIs DEF ContentInv
    <3>3. Cardinality(Blocks \ fs.bitmap) \in Nat
      BY BlocksFinite
    <3> QED BY <1>3, <3>2, <3>3
  <2>5. /\ m \in 1..(w.n1 - w.tot) /\ o \in Offsets
        /\ Owned(g)
        /\ \A j \in InodeSet : j # i => g.ip[j] = fs.ip[j]
        /\ g.ip[i].size = fs.ip[i].size
        /\ Has(fs, i, o) => g.ip = fs.ip
        /\ \A j \in InodeSet, q \in Offsets :
             Has(fs, j, q) =>
               /\ Has(g, j, q)
               /\ j # i \/ q \notin o..(o + m - 1) => Byte(g, j, q) = Byte(fs, j, q)
        /\ \A q \in o..(o + m - 1) : Has(g, i, q) /\ Byte(g, i, q) = ByteOf[p]
    <3>1. ByteOf[p] \in Bytes /\ Owned(fs)
      BY DEF Bytes, ContentInv
    <3>2. w.tot < w.n1
      BY <1>1
    <3> DEFINE st  == w.off
    <3> DEFINE n   == w.n1
    <3> DEFINE tot == w.tot
    <3> DEFINE b   == ByteOf[p]
    <3>3. /\ Owned(fs) /\ i \in InodeSet /\ st \in Nat /\ n \in Nat /\ tot \in Nat
          /\ tot < n /\ st + n <= MAXFILE * BSIZE /\ b \in Bytes
          /\ Needs(fs, i, (st + tot) \div BSIZE) <= Cardinality(Blocks \ fs.bitmap)
      BY <2>1, <2>2, <2>4, <3>1, <3>2
    <3> HIDE DEF i, st, n, tot, b
    <3>4. /\ Moved(st + tot, n, tot) \in 1..(n - tot) /\ st + tot \in Offsets
          /\ Written(fs, Chunk(fs, i, st, n, tot, b), i, st + tot, Moved(st + tot, n, tot), b)
      BY <3>3, ChunkIs
    <3>5. m \in 1..(w.n1 - w.tot) /\ o \in Offsets /\ Written(fs, g, i, o, m, ByteOf[p])
      BY <3>4 DEF i, st, n, tot, b
    <3> HIDE DEF w, o, m, g
    <3> QED BY <3>5 DEF Written, b
  <2> HIDE DEF m, g
  <2>6. /\ write'[p] = [w EXCEPT !.tot = w.tot + m]
        /\ \A q \in Writers : q # p => write'[q] = write[q]
    BY <1>3, <2>1
  <2>7. /\ write'[p].tot = w.tot + m /\ write'[p] \in WriteType
        /\ write'[p].file = w.file /\ write'[p].n = w.n /\ write'[p].i = w.i
        /\ write'[p].off = w.off /\ write'[p].n1 = w.n1
    <3> DEFINE v == write'[p]
    <3>1. v = [w EXCEPT !.tot = w.tot + m] /\ w \in WriteType /\ w.tot + m \in Nat
      BY <2>1, <2>5, <2>6
    <3> HIDE DEF w, v
    <3>2. /\ v.tot = w.tot + m /\ v \in WriteType /\ v.file = w.file /\ v.n = w.n /\ v.i = w.i
          /\ v.off = w.off /\ v.n1 = w.n1
      BY <3>1 DEF WriteType
    <3> QED BY <3>2 DEF v
  <2>8. \A q \in Writers :
          /\ write'[q].file = write[q].file /\ write'[q].n1 = write[q].n1
          /\ write'[q].off = write[q].off /\ write'[q].n = write[q].n
          /\ write'[q].i = write[q].i
    BY <2>6, <2>7
  <2>9. \A q \in Writers : \A j : Writing(q, j)' <=> Writing(q, j)
    BY <2>8 DEF Writing
  <2>10. Typed'
    <3>1. write' \in [Writers -> WriteType]
      BY <1>3, <2>1, <2>6, <2>7
    <3>2. \A q \in Writers : write'[q] # NoWrite => write[q] # NoWrite
      BY <2>2, <2>6
    <3>3. \A q \in Writers :
            write'[q] # NoWrite => write'[q].file \in FileSet /\ write'[q].i < write'[q].n
      BY <3>2, <2>8 DEF ContentInv, Typed
    <3> QED BY <1>1, <3>1, <3>3 DEF ContentInv, Typed
  <2>11. LockOK'
    BY <1>1, <2>9 DEF ContentInv, LockOK
  <2>12. ASSUME NEW q \in Writers
         PROVE  WriteOK(q)'
    <3> SUFFICES ASSUME write'[q].n1 > 0
                 PROVE  WriteOK(q)'
      BY DEF WriteOK
    <3> DEFINE j == InodeOf[write[q].file]
    <3>1. /\ WriteOK(q) /\ write[q].n1 > 0 /\ j \in InodeSet /\ Writing(q, j)
          /\ write[q] \in WriteType
      BY <2>8, Busy DEF ContentInv, Typed
    <3>2. /\ locker'[j] = q /\ InodeOf[write'[q].file] = j
          /\ write'[q].i < write'[q].n /\ write'[q].n1 <= write'[q].n - write'[q].i
          /\ write'[q].off <= Len(text'[j])
          /\ write'[q].off + write'[q].n1 <= MAXFILE * BSIZE
      BY <1>1, <2>8, <3>1 DEF WriteOK
    <3>3. \A r \in write[q].off..(write[q].off + write[q].tot - 1) :
            r \in Offsets /\ Has(fs, j, r) /\ Byte(fs, j, r) = ByteOf[q]
      <4>1. \A r \in write[q].off..(write[q].off + write[q].tot - 1) : r \in Offsets
        <5>1. /\ write[q].off \in Nat /\ write[q].tot \in Nat /\ write[q].n1 \in Nat
              /\ write[q].off + write[q].n1 <= MAXFILE * BSIZE /\ write[q].tot <= write[q].n1
          BY <3>1 DEF WriteOK, WriteType
        <5>2. MAXFILE * BSIZE \in Nat
          BY Constants
        <5> QED BY <5>1, <5>2 DEF Offsets
      <4> QED BY <3>1, <4>1 DEF WriteOK
    <3>4. CASE q # p
      <4>1. j # i /\ write'[q] = write[q]
        BY <3>1, <3>4, <2>3, <2>6
      <4>2. \A r \in write[q].off..(write[q].off + write[q].tot - 1) :
              Has(g, j, r) /\ Byte(g, j, r) = ByteOf[q]
        BY <4>1, <3>1, <3>3, <2>5
      <4>3. write[q].tot <= write[q].n1
        BY <3>1 DEF WriteOK
      <4> HIDE DEF j
      <4> QED BY <1>3, <3>2, <4>1, <4>2, <4>3 DEF WriteOK
    <3>5. CASE q = p
      <4>1. j = i /\ write'[q].tot = w.tot + m /\ w.tot + m <= w.n1
        BY <3>5, <2>1, <2>5, <2>7
      <4>2. ASSUME NEW r \in w.off..(w.off + (w.tot + m) - 1)
            PROVE  Has(g, i, r) /\ Byte(g, i, r) = ByteOf[p]
        <5>1. CASE r \in o..(o + m - 1)
          BY <5>1, <2>5
        <5>2. CASE r \notin o..(o + m - 1)
          <6>1. r \in w.off..(w.off + w.tot - 1)
            BY <4>2, <5>2, <2>1, <2>5
          <6>2. r \in Offsets /\ Has(fs, i, r) /\ Byte(fs, i, r) = ByteOf[p]
            BY <6>1, <3>3, <3>5, <4>1
          <6> QED BY <5>2, <6>2, <2>2, <2>5
        <5> QED BY <5>1, <5>2
      <4>3. write'[q].off = w.off /\ write'[q].n1 = w.n1
        BY <3>5, <2>7
      <4> HIDE DEF j, w, i
      <4> QED BY <1>3, <3>2, <3>5, <4>1, <4>2, <4>3 DEF WriteOK
    <3> QED BY <3>4, <3>5
  <2>13. ASSUME NEW j \in InodeSet
         PROVE  BytesRight(j)'
    <3>1. /\ text[j] \in Seq(Bytes) /\ Len(text[j]) <= MAXFILE * BSIZE
          /\ fs.ip[j].size = Len(text[j]) /\ Len(text[j]) \in Nat
          /\ \A r \in 0..(Len(text[j]) - 1) :
               /\ Has(fs, j, r)
               /\ Byte(fs, j, r) = text[j][r + 1] \/ \E q \in Writers : Writing(q, j) /\ Past(q, r)
      BY DEF ContentInv, BytesRight
    <3>2. g.ip[j].size = fs.ip[j].size
      BY <2>5
    <3>3. ASSUME NEW r \in 0..(Len(text[j]) - 1)
          PROVE  /\ Has(g, j, r)
                 /\ \/ Byte(g, j, r) = text[j][r + 1]
                    \/ \E q \in Writers : Writing(q, j)' /\ Past(q, r)'
      <4>1. r \in Offsets /\ r \in Nat /\ Has(fs, j, r)
        BY <3>1, Constants DEF Offsets
      <4>2. Has(g, j, r)
        BY <4>1, <2>5
      <4>3. CASE j = i /\ r \in o..(o + m - 1)
        <5>1. w.off <= r /\ r < w.off + (w.tot + m)
          BY <4>1, <4>3, <2>1, <2>5
        <5>2. Past(p, r)' /\ Writing(p, j)'
          BY <4>3, <5>1, <2>2, <2>7, <2>9 DEF Past
        <5> QED BY <4>2, <5>2
      <4>4. CASE j # i \/ r \notin o..(o + m - 1)
        <5>1. Byte(g, j, r) = Byte(fs, j, r)
          BY <4>1, <4>4, <2>5
        <5>2. ASSUME NEW q \in Writers, Writing(q, j), Past(q, r)
              PROVE  Writing(q, j)' /\ Past(q, r)'
          <6>1. Writing(q, j)'
            BY <5>2, <2>9
          <6>2. write'[q].tot >= write[q].tot /\ write[q].tot \in Nat /\ write'[q].tot \in Nat
            <7>1. write[q].tot \in Nat
              BY <2>1 DEF WriteType
            <7>2. CASE q = p
              BY <7>1, <7>2, <2>1, <2>5, <2>7
            <7>3. CASE q # p
              BY <7>1, <7>3, <2>6
            <7> QED BY <7>1, <7>2, <7>3
          <6>3. /\ write'[q].off = write[q].off /\ write[q].off \in Nat
                /\ write[q].off <= r /\ r < write[q].off + write[q].tot
            BY <5>2, <2>1, <2>8 DEF Past, WriteType
          <6>4. write'[q].off <= r /\ r < write'[q].off + write'[q].tot
            BY <4>1, <6>2, <6>3
          <6>5. Past(q, r)'
            BY <6>4 DEF Past
          <6> QED BY <6>1, <6>5
        <5> QED BY <3>1, <4>2, <5>1, <5>2
      <4> QED BY <4>3, <4>4
    <3> QED BY <1>1, <1>3, <3>1, <3>2, <3>3 DEF BytesRight
  <2>14. ASSUME NEW j \in InodeSet
         PROVE  DiskRight(j)'
    <3>1. dinode[j] = fs.ip[j] \/ \E q \in Writers :
            Writing(q, j) /\ write[q].off + write[q].n1 > Len(text[j])
      BY DEF ContentInv, DiskRight
    <3>2. CASE \E q \in Writers : Writing(q, j) /\ write[q].off + write[q].n1 > Len(text[j])
      BY <3>2, <1>1, <2>8, <2>9 DEF DiskRight
    <3>3. CASE dinode[j] = fs.ip[j] /\ j # i
      BY <3>3, <1>1, <1>3, <2>5 DEF DiskRight
    <3>4. CASE dinode[j] = fs.ip[j] /\ j = i
      <4>1. CASE w.off + w.n1 > Len(text[j])
        BY <3>4, <4>1, <1>1, <2>2, <2>8, <2>9 DEF DiskRight
      <4>2. CASE ~ (w.off + w.n1 > Len(text[j]))
        <5>1. /\ Len(text[j]) \in Nat
              /\ \A r \in 0..(Len(text[j]) - 1) : Has(fs, j, r)
          BY DEF ContentInv, BytesRight
        <5>2. o \in 0..(Len(text[j]) - 1)
          <6> HIDE DEF w
          <6> QED BY <4>2, <5>1, <2>1, <1>1
        <5>3. Has(fs, i, o)
          BY <5>1, <5>2, <3>4
        <5>4. g.ip = fs.ip
          BY <5>3, <2>5
        <5> QED BY <5>4, <3>4, <1>1, <1>3 DEF DiskRight
      <4> QED BY <4>1, <4>2
    <3> QED BY <3>1, <3>2, <3>3, <3>4
  <2>15. Owned(fs')
    BY <1>3, <2>5
  <2> QED BY <2>10, <2>11, <2>12, <2>13, <2>14, <2>15 DEF ContentInv
<1> QED BY <1>1, <1>2, <1>3

LEMMA EndPieceStep ==
  ASSUME ContentInv, NEW p \in Writers, EndPiece(p)
  PROVE  ContentInv'
<1> DEFINE w == write[p]
<1> DEFINE i == InodeOf[w.file]
<1> DEFINE end == w.off + w.n1
<1> DEFINE T == text[i]
<1> DEFINE U == Overlay(T, w.off, w.n1, ByteOf[p])
<1> DEFINE v == IF w.i + w.n1 = w.n THEN NoWrite
                ELSE [w EXCEPT !.i = w.i + w.n1, !.n1 = 0, !.tot = 0]
<1>1. /\ w.n1 > 0 /\ w.tot = w.n1
      /\ IF end > fs.ip[i].size
         THEN /\ fs' = [fs EXCEPT !.ip[i].size = end]
              /\ dinode' = [dinode EXCEPT ![i] = Updated(i, end)]
         ELSE UNCHANGED <<fs, dinode>>
      /\ off' = [off EXCEPT ![w.file] = @ + w.n1]
      /\ text' = [text EXCEPT ![i] = U]
      /\ locker' = [locker EXCEPT ![i] = NoWriter]
      /\ write' = [write EXCEPT ![p] = v]
  BY DEF EndPiece
<1>2. /\ w \in WriteType /\ write \in [Writers -> WriteType]
      /\ w.off \in Nat /\ w.n1 \in Nat /\ w.tot \in Nat /\ w.i \in Nat /\ w.n \in Nat
      /\ end \in Nat /\ w.file \in FileSet
  BY <1>1, Busy DEF ContentInv, Typed, WriteType
<1>3. /\ i \in InodeSet /\ locker[i] = p /\ Writing(p, i) /\ w # NoWrite /\ WriteOK(p)
      /\ end <= MAXFILE * BSIZE /\ w.off <= Len(T) /\ w.n1 <= w.n - w.i
  BY <1>1, Busy DEF ContentInv, WriteOK
<1>4. \A q \in Writers, j \in InodeSet : Writing(q, j) => (q = p <=> j = i)
  BY <1>3, Busy DEF Writing
<1>5. /\ T \in Seq(Bytes) /\ Len(T) \in Nat /\ Len(T) <= MAXFILE * BSIZE /\ fs.ip[i].size = Len(T)
      /\ \A r \in 0..(Len(T) - 1) :
           /\ Has(fs, i, r)
           /\ Byte(fs, i, r) = T[r + 1] \/ \E q \in Writers : Writing(q, i) /\ Past(q, r)
  BY <1>3 DEF ContentInv, BytesRight
<1>6. \A r \in w.off..(end - 1) : Has(fs, i, r) /\ Byte(fs, i, r) = ByteOf[p]
  <2>1. \A r \in w.off..(w.off + w.tot - 1) : Has(fs, i, r) /\ Byte(fs, i, r) = ByteOf[p]
    BY <1>1, <1>3 DEF WriteOK
  <2>2. w.off + w.tot - 1 = end - 1
    BY <1>1, <1>2
  <2> QED BY <2>1, <2>2, Zenon
<1> DEFINE len == IF end > Len(T) THEN end ELSE Len(T)
<1>7. /\ U \in Seq(Bytes) /\ Len(U) = len /\ len \in Nat
      /\ \A k \in 1..len : U[k] = IF k > w.off /\ k <= end THEN ByteOf[p] ELSE T[k]
  <2>1. len \in Nat
    BY <1>2, <1>5
  <2>2. U = [k \in 1..len |-> IF k > w.off /\ k <= end THEN ByteOf[p] ELSE T[k]]
    BY DEF Overlay
  <2>3. \A k \in 1..len : (IF k > w.off /\ k <= end THEN ByteOf[p] ELSE T[k]) \in Bytes
    <3> TAKE k \in 1..len
    <3>1. CASE k > w.off /\ k <= end
      BY <3>1 DEF Bytes
    <3>2. CASE ~ (k > w.off /\ k <= end)
      <4>1. k \in 1..Len(T)
        BY <3>2, <1>2, <1>3, <1>5
      <4>2. T[k] \in Bytes
        BY <4>1, <1>5, ElementOfSeq
      <4> QED BY <3>2, <4>2
    <3> QED BY <3>1, <3>2
  <2> HIDE DEF U, len, end, T
  <2>4. U \in Seq(Bytes)
    BY <2>1, <2>2, <2>3, IsASeq
  <2>5. Len(U) = len
    BY <2>1, <2>2, <2>4, LenProperties
  <2> QED BY <2>1, <2>2, <2>4, <2>5
<1> HIDE DEF U
<1>8. /\ write'[p] = v /\ \A q \in Writers : q # p => write'[q] = write[q]
      /\ locker'[i] = NoWriter /\ \A j \in InodeSet : j # i => locker'[j] = locker[j]
      /\ text'[i] = U /\ \A j \in InodeSet : j # i => text'[j] = text[j]
      /\ text' \in [InodeSet -> Seq(Bytes)]
      /\ locker' \in [InodeSet -> Writers \cup {NoWriter}]
      /\ off' \in [FileSet -> Nat]
  <2>1. /\ text \in [InodeSet -> Seq(Bytes)] /\ off \in [FileSet -> Nat]
        /\ locker \in [InodeSet -> Writers \cup {NoWriter}]
    BY DEF ContentInv, Typed
  <2> HIDE DEF v, i, w
  <2> QED BY <2>1, <1>1, <1>2, <1>3, <1>7 DEF w
<1>9. v \in WriteType /\ v.n1 = 0 /\ (v # NoWrite => v.file \in FileSet /\ v.i < v.n)
  <2>1. CASE w.i + w.n1 = w.n
    BY <2>1 DEF NoWrite, WriteType
  <2>2. CASE w.i + w.n1 # w.n
    <3> DEFINE u == [w EXCEPT !.i = w.i + w.n1, !.n1 = 0, !.tot = 0]
    <3>1. w \in WriteType /\ w.i + w.n1 \in Nat /\ w.i + w.n1 < w.n
      BY <2>2, <1>2, <1>3
    <3> HIDE DEF w
    <3>2. u \in WriteType /\ u.n1 = 0 /\ u.file = w.file /\ u.i = w.i + w.n1 /\ u.n = w.n
      BY <3>1 DEF WriteType
    <3> QED BY <2>2, <3>1, <3>2, <1>2
  <2> QED BY <2>1, <2>2
<1> HIDE DEF v
<1>10. \A q \in Writers : (q # p => write[q] = write'[q]) /\ (write'[q].n1 > 0 => q # p)
  BY <1>8, <1>9
<1>11. /\ Owned(fs') /\ fs'.data = fs.data
       /\ \A j \in InodeSet : fs'.ip[j].addrs = fs.ip[j].addrs
       /\ \A j \in InodeSet : j # i => fs'.ip[j] = fs.ip[j] /\ dinode'[j] = dinode[j]
       /\ fs'.ip[i].size = len
       /\ end > Len(T) => dinode'[i] = fs'.ip[i]
       /\ end <= Len(T) => dinode'[i] = dinode[i] /\ fs'.ip[i] = fs.ip[i]
       /\ dinode' \in [InodeSet -> [addrs : [0..NDIRECT -> Blocks], size : Nat]]
  <2>0. /\ Owned(fs) /\ fs \in FsType
        /\ dinode \in [InodeSet -> [addrs : [0..NDIRECT -> Blocks], size : Nat]]
    BY DEF ContentInv, Owned, Typed
  <2>1. CASE end > fs.ip[i].size
    <3> DEFINE x == NewSize(fs.ip[i], end)
    <3>0. fs' = WithSize(fs, i, end)
      BY <1>1, <2>1 DEF WithSize
    <3>1. /\ Owned(fs') /\ fs'.data = fs.data
          /\ x \in [addrs : [0..NDIRECT -> Blocks], size : Nat]
          /\ fs'.ip[i] = x /\ x.size = end
          /\ \A j \in InodeSet : j # i => fs'.ip[j] = fs.ip[j]
          /\ \A j \in InodeSet : fs'.ip[j].addrs = fs.ip[j].addrs
      <4>1. Owned(fs) /\ i \in InodeSet /\ end \in Nat
        BY <1>2, <1>3, <2>0
      <4> DEFINE g == WithSize(fs, i, end)
      <4> HIDE DEF i, end
      <4>2. /\ Owned(g) /\ g.data = fs.data
            /\ x \in [addrs : [0..NDIRECT -> Blocks], size : Nat]
            /\ g.ip[i] = x /\ x.size = end
            /\ \A j \in InodeSet : j # i => g.ip[j] = fs.ip[j]
            /\ \A j \in InodeSet : g.ip[j].addrs = fs.ip[j].addrs
        BY <4>1, SizedIs
      <4>3. fs' = g
        BY <3>0
      <4> HIDE DEF g, x
      <4>4. Owned(fs') <=> Owned(g)
        BY <4>3 DEF Owned, FsType, Place
      <4> QED BY <4>2, <4>3, <4>4
    <3>2. dinode' = [dinode EXCEPT ![i] = x]
      BY <1>1, <2>1 DEF Updated, NewSize
    <3> HIDE DEF x, i, w, T
    <3>3. /\ dinode'[i] = x /\ \A j \in InodeSet : j # i => dinode'[j] = dinode[j]
          /\ dinode' \in [InodeSet -> [addrs : [0..NDIRECT -> Blocks], size : Nat]]
      BY <2>0, <3>1, <3>2, <1>3
    <3>4. len = end
      BY <2>1, <1>5 DEF T
    <3> QED BY <3>1, <3>3, <3>4, <2>1, <1>2, <1>5 DEF T, i
  <2>2. CASE ~ (end > fs.ip[i].size)
    <3>1. UNCHANGED <<fs, dinode>>
      BY <1>1, <2>2
    <3>2. end <= Len(T) /\ len = Len(T)
      BY <2>2, <1>2, <1>5
    <3> QED BY <2>0, <3>1, <3>2, <1>2, <1>5
  <2> QED BY <2>1, <2>2
<1>12. \A j \in InodeSet : \A r : (Has(fs', j, r) <=> Has(fs, j, r)) /\ Byte(fs', j, r) = Byte(fs, j, r)
  BY <1>11 DEF Has, Byte, Place
<1>13. Typed'
  <2>1. write' \in [Writers -> WriteType]
    BY <1>1, <1>2, <1>8, <1>9
  <2>2. \A q \in Writers :
          write'[q] # NoWrite => write'[q].file \in FileSet /\ write'[q].i < write'[q].n
    <3> TAKE q \in Writers
    <3>1. CASE q = p
      BY <3>1, <1>8, <1>9
    <3>2. CASE q # p
      BY <3>2, <1>8 DEF ContentInv, Typed
    <3> QED BY <3>1, <3>2
  <2> QED BY <1>8, <1>11, <2>1, <2>2 DEF Typed
<1>14. LockOK'
  <2> SUFFICES ASSUME NEW j \in InodeSet, NEW q \in Writers, locker'[j] = q
               PROVE  Writing(q, j)'
    BY DEF LockOK
  <2>1. j # i /\ locker[j] = q
    BY <1>8, ContentAssumption
  <2>2. Writing(q, j)
    BY <2>1 DEF ContentInv, LockOK
  <2>3. q # p
    BY <2>1, <2>2, <1>4
  <2> QED BY <2>2, <2>3, <1>8 DEF Writing
<1>15. ASSUME NEW q \in Writers
       PROVE  WriteOK(q)'
  <2> SUFFICES ASSUME write'[q].n1 > 0
               PROVE  WriteOK(q)'
    BY DEF WriteOK
  <2> DEFINE j == InodeOf[write[q].file]
  <2>1. q # p /\ write'[q] = write[q]
    BY <1>8, <1>10
  <2>2. j \in InodeSet /\ Writing(q, j) /\ WriteOK(q)
    BY <2>1, Busy DEF ContentInv
  <2>3. j # i
    BY <2>1, <2>2, <1>4
  <2>4. locker'[j] = locker[j] /\ text'[j] = text[j]
    BY <2>2, <2>3, <1>8
  <2> HIDE DEF i, w, T
  <2> QED BY <2>1, <2>2, <2>4, <1>12 DEF WriteOK
<1>16. ASSUME NEW j \in InodeSet
       PROVE  BytesRight(j)'
  <2>1. CASE j # i
    <3>1. text'[j] = text[j] /\ fs'.ip[j] = fs.ip[j] /\ BytesRight(j)
      BY <2>1, <1>8, <1>11 DEF ContentInv
    <3>2. ASSUME NEW q \in Writers, Writing(q, j)
          PROVE  write'[q] = write[q]
      BY <2>1, <3>2, <1>4, <1>8
    <3>3. \A q \in Writers : \A r : Writing(q, j) /\ Past(q, r) => Writing(q, j)' /\ Past(q, r)'
      BY <3>2 DEF Writing, Past
    <3> HIDE DEF i, w, T
    <3> QED BY <3>1, <3>3, <1>12 DEF BytesRight
  <2>2. CASE j = i
    <3>1. text'[i] = U /\ fs'.ip[i].size = Len(U) /\ Len(U) = len /\ len <= MAXFILE * BSIZE
      BY <1>3, <1>5, <1>7, <1>8, <1>11
    <3>2. ASSUME NEW r \in 0..(len - 1)
          PROVE  Has(fs, i, r) /\ Byte(fs, i, r) = U[r + 1]
      <4>0. r \in Nat /\ r + 1 \in 1..len
        BY <1>7
      <4>1. CASE r \in w.off..(end - 1)
        <5>1. r + 1 > w.off /\ r + 1 <= end
          BY <4>0, <4>1, <1>2
        <5>2. U[r + 1] = ByteOf[p]
          BY <4>0, <5>1, <1>7
        <5> QED BY <4>1, <5>2, <1>6
      <4>2. CASE r \notin w.off..(end - 1)
        <5>1. ~ (r + 1 > w.off /\ r + 1 <= end) /\ r \in 0..(Len(T) - 1)
          BY <4>0, <4>2, <1>2, <1>3, <1>5
        <5>2. U[r + 1] = T[r + 1]
          BY <4>0, <5>1, <1>7
        <5>3. ASSUME NEW q \in Writers, Writing(q, i), Past(q, r)
              PROVE  FALSE
          <6>1. q = p
            BY <5>3, <1>3, <1>4
          <6>2. w.off <= r /\ r < w.off + w.tot
            BY <5>3, <6>1 DEF Past
          <6> QED BY <6>2, <4>0, <4>2, <1>1, <1>2
        <5> QED BY <5>1, <5>2, <5>3, <1>5
      <4> QED BY <4>1, <4>2
    <3> HIDE DEF i, w, T, len
    <3> QED BY <2>2, <3>1, <3>2, <1>3, <1>7, <1>12 DEF BytesRight
  <2> QED BY <2>1, <2>2
<1>17. ASSUME NEW j \in InodeSet
       PROVE  DiskRight(j)'
  <2>0. dinode[j] = fs.ip[j] \/ \E q \in Writers :
          Writing(q, j) /\ write[q].off + write[q].n1 > Len(text[j])
    BY DEF ContentInv, DiskRight
  <2>1. CASE j # i
    <3>1. text'[j] = text[j] /\ fs'.ip[j] = fs.ip[j] /\ dinode'[j] = dinode[j]
      BY <2>1, <1>8, <1>11
    <3>2. ASSUME NEW q \in Writers, Writing(q, j)
          PROVE  write'[q] = write[q] /\ Writing(q, j)'
      <4>1. write'[q] = write[q]
        BY <2>1, <3>2, <1>4, <1>8
      <4> QED BY <3>2, <4>1 DEF Writing
    <3> HIDE DEF i, w, T
    <3> QED BY <2>0, <3>1, <3>2 DEF DiskRight
  <2>2. CASE j = i /\ end > Len(T)
    BY <2>2, <1>11 DEF DiskRight
  <2>3. CASE j = i /\ end <= Len(T)
    <3>1. \A q \in Writers : Writing(q, j) => q = p
      BY <2>3, <1>3, <1>4
    <3>2. dinode[j] = fs.ip[j]
      BY <2>0, <2>3, <3>1, <1>2, <1>5
    <3> QED BY <2>3, <3>2, <1>11 DEF DiskRight
  <2> QED BY <2>1, <2>2, <2>3, <1>2, <1>5
<1> QED BY <1>11, <1>13, <1>14, <1>15, <1>16, <1>17 DEF ContentInv

LEMMA FileReadStep ==
  ASSUME ContentInv, NEW f \in FileSet, NEW n \in Lengths, FileRead(f, n)
  PROVE  ContentInv'
<1> DEFINE i == InodeOf[f]
<1>1. /\ locker[i] = NoWriter /\ off[f] <= fs.ip[i].size
      /\ off' = [off EXCEPT ![f] = @ + Len(Readi(fs, i, @, n))]
      /\ UNCHANGED <<fs, dinode, write, locker, text>>
  BY DEF FileRead
<1>2. /\ i \in InodeSet /\ off \in [FileSet -> Nat] /\ n \in Nat /\ Reads(fs, i, text[i])
      /\ off[f] \in Nat /\ Owned(fs)
  <2>1. i \in InodeSet
    BY Busy
  <2>2. Reads(fs, i, text[i])
    BY <1>1, <2>1, FreeReads
  <2> QED BY <2>1, <2>2, ContentAssumption DEF ContentInv, Typed
<1>3. Len(Readi(fs, i, off[f], n)) \in Nat
  <2> DEFINE T == text[i]
  <2>1. T \in Seq(Bytes) /\ Len(T) \in Nat /\ off[f] <= Len(T)
    BY <1>1, <1>2 DEF Reads
  <2>2. Readi(fs, i, off[f], n) = SubSeq(T, off[f] + 1, min(off[f] + n, Len(T)))
    BY <1>2, <2>1, ReadiIs
  <2>3. /\ off[f] + 1 \in Int /\ min(off[f] + n, Len(T)) \in Int
        /\ \A k \in (off[f] + 1)..min(off[f] + n, Len(T)) : k \in 1..Len(T)
    BY <1>2, <2>1 DEF min
  <2>4. \A k \in (off[f] + 1)..min(off[f] + n, Len(T)) : T[k] \in Bytes
    BY <2>1, <2>3, ElementOfSeq
  <2>5. SubSeq(T, off[f] + 1, min(off[f] + n, Len(T))) \in Seq(Bytes)
    BY <2>3, <2>4, SubSeqProperties
  <2> QED BY <2>2, <2>5, LenProperties
<1>4. off' \in [FileSet -> Nat]
  BY <1>1, <1>2, <1>3
<1> QED BY <1>1, <1>4 DEF ContentInv, Typed, LockOK, WriteOK, BytesRight, DiskRight, Writing, Past

LEMMA RemoveStep ==
  ASSUME ContentInv, NEW i \in InodeSet, Remove(i)
  PROVE  ContentInv'
<1>1. /\ \A p \in Writers : write[p] # NoWrite => InodeOf[write[p].file] # i
      /\ fs' = Itrunc(fs, i)
      /\ dinode' = [dinode EXCEPT ![i] = [addrs |-> NoAddrs, size |-> 0]]
      /\ off' = [f \in FileSet |-> IF InodeOf[f] = i THEN 0 ELSE off[f]]
      /\ text' = [text EXCEPT ![i] = << >>]
      /\ UNCHANGED <<write, locker>>
  BY DEF Remove
<1>2. \A p \in Writers : ~ Writing(p, i)
  BY <1>1, Busy DEF Writing
<1>3. /\ Owned(fs')
      /\ \A j \in InodeSet : j # i => fs'.ip[j] = fs.ip[j]
      /\ fs'.ip[i] = [addrs |-> NoAddrs, size |-> 0]
      /\ \A j \in InodeSet, q \in Offsets :
           j # i => (Has(fs', j, q) <=> Has(fs, j, q)) /\ Byte(fs', j, q) = Byte(fs, j, q)
  BY <1>1, ItruncIs DEF ContentInv
<1>4. Typed'
  <2>1. /\ text \in [InodeSet -> Seq(Bytes)] /\ off \in [FileSet -> Nat]
        /\ dinode \in [InodeSet -> [addrs : [0..NDIRECT -> Blocks], size : Nat]]
    BY DEF ContentInv, Typed
  <2>2. [addrs |-> NoAddrs, size |-> 0] \in [addrs : [0..NDIRECT -> Blocks], size : Nat]
    BY Constants DEF NoAddrs
  <2>3. << >> \in Seq(Bytes)
    BY EmptySeq
  <2>4. text' \in [InodeSet -> Seq(Bytes)] /\ off' \in [FileSet -> Nat]
        /\ dinode' \in [InodeSet -> [addrs : [0..NDIRECT -> Blocks], size : Nat]]
    BY <1>1, <2>1, <2>2, <2>3
  <2> QED BY <1>1, <2>4 DEF ContentInv, Typed
<1>5. /\ text'[i] = << >> /\ dinode'[i] = fs'.ip[i]
      /\ \A j \in InodeSet : j # i => text'[j] = text[j] /\ dinode'[j] = dinode[j]
  BY <1>1, <1>3 DEF ContentInv, Typed
<1>6. LockOK'
  BY <1>1 DEF ContentInv, LockOK, Writing
<1>7. ASSUME NEW p \in Writers
      PROVE  WriteOK(p)'
  <2> SUFFICES ASSUME write[p].n1 > 0
               PROVE  WriteOK(p)'
    BY <1>1 DEF WriteOK
  <2> DEFINE j == InodeOf[write[p].file]
  <2>1. j \in InodeSet /\ Writing(p, j) /\ WriteOK(p) /\ write[p] \in WriteType
    BY Busy DEF ContentInv, Typed
  <2>2. j # i
    BY <2>1, <1>2
  <2>3. \A r \in write[p].off..(write[p].off + write[p].tot - 1) : r \in Offsets
    <3>1. /\ write[p].off \in Nat /\ write[p].tot \in Nat /\ write[p].n1 \in Nat
          /\ write[p].off + write[p].n1 <= MAXFILE * BSIZE /\ write[p].tot <= write[p].n1
      BY <2>1 DEF WriteOK, WriteType
    <3>2. MAXFILE * BSIZE \in Nat
      BY Constants
    <3> QED BY <3>1, <3>2 DEF Offsets
  <2>4. \A r \in write[p].off..(write[p].off + write[p].tot - 1) :
          Has(fs', j, r) /\ Byte(fs', j, r) = ByteOf[p]
    BY <2>1, <2>2, <2>3, <1>3 DEF WriteOK
  <2>5. text'[j] = text[j]
    BY <2>1, <2>2, <1>5
  <2> QED BY <2>1, <2>4, <2>5, <1>1 DEF WriteOK
<1>8. ASSUME NEW j \in InodeSet
      PROVE  BytesRight(j)' /\ DiskRight(j)'
  <2>1. \A q \in Writers : (Writing(q, j)' <=> Writing(q, j)) /\ \A r : Past(q, r)' <=> Past(q, r)
    BY <1>1 DEF Writing, Past
  <2>2. CASE j = i
    <3>1. BytesRight(j)'
      <4>1. text'[j] \in Seq(Bytes) /\ Len(text'[j]) = 0
        BY <2>2, <1>5, EmptySeq
      <4>2. \A r \in 0..(Len(text'[j]) - 1) : FALSE
        BY <4>1
      <4>3. Len(text'[j]) <= MAXFILE * BSIZE
        BY <4>1, Constants
      <4> QED BY <2>2, <4>1, <4>2, <4>3, <1>3 DEF BytesRight
    <3>2. DiskRight(j)'
      BY <2>2, <1>5 DEF DiskRight
    <3> QED BY <3>1, <3>2
  <2>3. CASE j # i
    <3>1. /\ text'[j] = text[j] /\ dinode'[j] = dinode[j] /\ fs'.ip[j] = fs.ip[j]
          /\ BytesRight(j) /\ DiskRight(j)
      BY <2>3, <1>3, <1>5 DEF ContentInv
    <3>2. \A r \in 0..(Len(text[j]) - 1) : r \in Offsets
      BY <3>1, Constants DEF BytesRight, Offsets
    <3>3. BytesRight(j)'
      BY <2>1, <2>3, <3>1, <3>2, <1>3 DEF BytesRight
    <3>4. DiskRight(j)'
      BY <2>1, <3>1, <1>1 DEF DiskRight
    <3> QED BY <3>3, <3>4
  <2> QED BY <2>2, <2>3
<1> QED BY <1>3, <1>4, <1>6, <1>7, <1>8 DEF ContentInv

LEMMA NextStep ==
  ASSUME ContentInv, [ContentNext]_contentVars
  PROVE  ContentInv'
<1>1. CASE UNCHANGED contentVars
  BY <1>1 DEF contentVars, ContentInv, Typed, LockOK, WriteOK, BytesRight, DiskRight, Writing, Past
<1>2. ASSUME NEW p \in Writers, NEW f \in FileSet, NEW n \in Lengths, StartWrite(p, f, n)
      PROVE  ContentInv'
  BY <1>2, StartWriteStep
<1>3. ASSUME NEW p \in Writers, BeginPiece(p)
      PROVE  ContentInv'
  BY <1>3, BeginPieceStep
<1>4. ASSUME NEW p \in Writers, WriteChunk(p)
      PROVE  ContentInv'
  BY <1>4, WriteChunkStep
<1>5. ASSUME NEW p \in Writers, EndPiece(p)
      PROVE  ContentInv'
  BY <1>5, EndPieceStep
<1>6. ASSUME NEW f \in FileSet, NEW n \in Lengths, FileRead(f, n)
      PROVE  ContentInv'
  BY <1>6, FileReadStep
<1>7. ASSUME NEW i \in InodeSet, Remove(i)
      PROVE  ContentInv'
  BY <1>7, RemoveStep
<1> QED BY <1>1, <1>2, <1>3, <1>4, <1>5, <1>6, <1>7 DEF ContentNext

-----------------------------------------------------------------------------
(* The image that mkfs makes.                                              *)

AppendLoop(d, i, n, b, f) ==
  f = [tot \in 0..n |-> IF tot = 0 THEN d ELSE Chunk(f[tot - 1], i, tot - 1, 1, 0, b)]

MkfsBlank ==
  [bitmap |-> 0..(NMeta - 1), data |-> [k \in Blocks |-> Zeroes],
   ip |-> [i \in InodeSet |-> [addrs |-> NoAddrs, size |-> 0]]]

MkfsLoop(n, b, f) ==
  f = [k \in 0..n |-> IF k = 0 THEN MkfsBlank ELSE Appended(f[k - 1], k, MkfsFiles[k], b)]

LEMMA AppendedLoop ==
  ASSUME NEW d, NEW i, NEW n, NEW b
  PROVE  Appended(d, i, n, b) =
           WithSize((CHOOSE f : AppendLoop(d, i, n, b, f))[n], i, n)
BY DEF Appended, AppendLoop, WithSize

LEMMA MkfsIsLoop ==
  ASSUME NEW b
  PROVE  Mkfs(b) = (CHOOSE f : MkfsLoop(Len(MkfsFiles), b, f))[Len(MkfsFiles)]
BY DEF Mkfs, MkfsLoop, MkfsBlank

\* The loops have a result: one iteration after the other.
LEMMA AppendRuns ==
  ASSUME NEW d, NEW i, NEW n \in Nat, NEW b
  PROVE  \E f : AppendLoop(d, i, n, b, f)
<1> DEFINE S == {k \in Nat : ~ \E f : AppendLoop(d, i, k, b, f)}
<1> SUFFICES ASSUME S # {}
             PROVE  FALSE
  BY Zenon
<1>1. PICK k \in S : \A y \in S : k <= y
  BY LeastMember
<1>2. k \in Nat /\ ~ \E f : AppendLoop(d, i, k, b, f)
  BY <1>1
<1>3. CASE k = 0
  <2> DEFINE f == [tot \in 0..k |-> d]
  <2>1. AppendLoop(d, i, k, b, f)
    <3>1. \A tot \in 0..k : tot = 0
      BY <1>3
    <3> QED BY <3>1, Zenon DEF AppendLoop
  <2> QED BY <1>2, <2>1
<1>4. CASE k # 0
  <2>1. k - 1 \in Nat /\ ~ (k <= k - 1)
    BY <1>2, <1>4
  <2>2. k - 1 \notin S
    BY <1>1, <2>1
  <2>3. PICK f : AppendLoop(d, i, k - 1, b, f)
    BY <2>1, <2>2
  <2> DEFINE g == [tot \in 0..k |->
                     IF tot = k THEN Chunk(f[k - 1], i, k - 1, 1, 0, b) ELSE f[tot]]
  <2> DEFINE h == [tot \in 0..k |->
                     IF tot = 0 THEN d ELSE Chunk(g[tot - 1], i, tot - 1, 1, 0, b)]
  <2>4. ASSUME NEW tot \in 0..k
        PROVE  g[tot] = IF tot = 0 THEN d ELSE Chunk(g[tot - 1], i, tot - 1, 1, 0, b)
    <3>1. CASE tot = k
      <4>1. g[k - 1] = f[k - 1] /\ k - 1 \in 0..k
        BY <2>1
      <4> HIDE DEF g
      <4>2. g[tot] = Chunk(f[k - 1], i, k - 1, 1, 0, b)
        BY <3>1 DEF g
      <4> QED BY <3>1, <4>1, <4>2, <1>4
    <3>2. CASE tot # k
      <4>1. tot \in 0..(k - 1) /\ g[tot] = f[tot]
        BY <3>2, <1>2
      <4>2. f[tot] = IF tot = 0 THEN d ELSE Chunk(f[tot - 1], i, tot - 1, 1, 0, b)
        BY <2>3, <4>1 DEF AppendLoop
      <4>3. tot # 0 => g[tot - 1] = f[tot - 1]
        BY <4>1, <1>2
      <4> HIDE DEF g
      <4> QED BY <4>1, <4>2, <4>3
    <3> QED BY <3>1, <3>2
  <2>5. g = h
    <3>1. \A tot \in 0..k : g[tot] = h[tot]
      <4> HIDE DEF g
      <4> QED BY <2>4
    <3> QED BY <3>1, Zenon
  <2> HIDE DEF g
  <2>6. AppendLoop(d, i, k, b, g)
    BY <2>5, Zenon DEF AppendLoop
  <2> QED BY <1>2, <2>6
<1> QED BY <1>3, <1>4

LEMMA MkfsRuns ==
  ASSUME NEW n \in Nat, NEW b
  PROVE  \E f : MkfsLoop(n, b, f)
<1> DEFINE S == {k \in Nat : ~ \E f : MkfsLoop(k, b, f)}
<1> SUFFICES ASSUME S # {}
             PROVE  FALSE
  BY Zenon
<1>1. PICK k \in S : \A y \in S : k <= y
  BY LeastMember
<1>2. k \in Nat /\ ~ \E f : MkfsLoop(k, b, f)
  BY <1>1
<1>3. CASE k = 0
  <2> DEFINE f == [j \in 0..k |-> MkfsBlank]
  <2>1. MkfsLoop(k, b, f)
    <3>1. \A j \in 0..k : j = 0
      BY <1>3
    <3> QED BY <3>1, Zenon DEF MkfsLoop
  <2> QED BY <1>2, <2>1
<1>4. CASE k # 0
  <2>1. k - 1 \in Nat /\ ~ (k <= k - 1)
    BY <1>2, <1>4
  <2>2. k - 1 \notin S
    BY <1>1, <2>1
  <2>3. PICK f : MkfsLoop(k - 1, b, f)
    BY <2>1, <2>2
  <2> DEFINE g == [j \in 0..k |->
                     IF j = k THEN Appended(f[k - 1], k, MkfsFiles[k], b) ELSE f[j]]
  <2> DEFINE h == [j \in 0..k |->
                     IF j = 0 THEN MkfsBlank ELSE Appended(g[j - 1], j, MkfsFiles[j], b)]
  <2>4. ASSUME NEW j \in 0..k
        PROVE  g[j] = IF j = 0 THEN MkfsBlank ELSE Appended(g[j - 1], j, MkfsFiles[j], b)
    <3>1. CASE j = k
      <4>1. g[k - 1] = f[k - 1] /\ k - 1 \in 0..k
        BY <2>1
      <4> HIDE DEF g
      <4>2. g[j] = Appended(f[k - 1], k, MkfsFiles[k], b)
        BY <3>1 DEF g
      <4> QED BY <3>1, <4>1, <4>2, <1>4
    <3>2. CASE j # k
      <4>1. j \in 0..(k - 1) /\ g[j] = f[j]
        BY <3>2, <1>2
      <4>2. f[j] = IF j = 0 THEN MkfsBlank ELSE Appended(f[j - 1], j, MkfsFiles[j], b)
        BY <2>3, <4>1 DEF MkfsLoop
      <4>3. j # 0 => g[j - 1] = f[j - 1]
        BY <4>1, <1>2
      <4> HIDE DEF g
      <4> QED BY <4>1, <4>2, <4>3
    <3> QED BY <3>1, <3>2
  <2>5. g = h
    <3>1. \A j \in 0..k : g[j] = h[j]
      <4> HIDE DEF g
      <4> QED BY <2>4
    <3> QED BY <3>1, Zenon
  <2> HIDE DEF g
  <2>6. MkfsLoop(k, b, g)
    BY <2>5, Zenon DEF MkfsLoop
  <2> QED BY <1>2, <2>6
<1> QED BY <1>3, <1>4

\* An image with the first L[i] bytes of every file.
Image(d, L) ==
  /\ Owned(d) /\ L \in [InodeSet -> Nat]
  /\ \A j \in InodeSet, k \in Places : Place(d, j, k) # 0 => <<j, k>> \in MkfsBlocks
  /\ \A j \in InodeSet :
       /\ L[j] <= MkfsFiles[j]
       /\ \A q \in 0..(L[j] - 1) : Has(d, j, q) /\ Byte(d, j, q) = MkfsByte

Longer(L, i, n) == [L EXCEPT ![i] = n]

\* g is image d with the first n bytes of file i.
Grown(d, g, L, i, n) ==
  /\ Image(g, Longer(L, i, n))
  /\ \A j \in InodeSet : g.ip[j].size = d.ip[j].size

LEMMA MkfsFilesAre ==
  /\ InodeSet = 1..Len(MkfsFiles) /\ Len(MkfsFiles) \in Nat
  /\ \A i \in InodeSet : MkfsFiles[i] \in Nat /\ MkfsFiles[i] <= MAXFILE * BSIZE
  /\ IsFiniteSet(MkfsBlocks) /\ Cardinality(MkfsBlocks) \in Nat
  /\ Cardinality(MkfsBlocks) <= NData
  /\ MkfsBlocks \subseteq InodeSet \X Places
<1>1. MkfsFiles \in Seq(0..(MAXFILE * BSIZE)) /\ Cardinality(MkfsBlocks) <= NData
  BY ContentAssumption
<1>2. InodeSet = 1..Len(MkfsFiles) /\ Len(MkfsFiles) \in Nat
  BY <1>1, LenProperties DEF InodeSet
<1>3. ASSUME NEW i \in InodeSet
      PROVE  MkfsFiles[i] \in Nat /\ MkfsFiles[i] <= MAXFILE * BSIZE
  <2>1. MkfsFiles[i] \in 0..(MAXFILE * BSIZE)
    BY <1>1, <1>2, ElementOfSeq
  <2>2. MAXFILE * BSIZE \in Nat
    BY Constants
  <2> QED BY <2>1, <2>2
<1>4. MkfsBlocks \subseteq InodeSet \X Places
  BY DEF MkfsBlocks, Places
<1>5. IsFiniteSet(InodeSet) /\ IsFiniteSet(Places)
  BY <1>2, Constants, FS_Interval DEF Places
<1>6. IsFiniteSet(InodeSet \X Places)
  BY <1>5, FS_Product
<1>7. IsFiniteSet(MkfsBlocks) /\ Cardinality(MkfsBlocks) \in Nat
  BY <1>4, <1>6, FS_Subset, FS_CardinalityType
<1> QED BY <1>1, <1>2, <1>3, <1>4, <1>7

\* The blocks of the files have their place.
LEMMA NeededIs ==
  ASSUME NEW i \in InodeSet, NEW q \in Nat, q < MkfsFiles[i]
  PROVE  /\ q \in Offsets
         /\ \A k \in Needed(q \div BSIZE) : k \in Places /\ <<i, k>> \in MkfsBlocks
<1> DEFINE bn == q \div BSIZE
<1>1. q \in Offsets
  <2>1. MAXFILE * BSIZE \in Nat /\ MkfsFiles[i] \in Nat /\ MkfsFiles[i] <= MAXFILE * BSIZE
    BY Constants, MkfsFilesAre
  <2> QED BY <2>1 DEF Offsets
<1>2. bn \in 0..(MAXFILE - 1)
  BY <1>1, CellIs
<1>3. BSIZE * bn <= q /\ BSIZE * bn \in Int
  <2>1. BSIZE \in Nat \ {0} /\ q \in Int
    BY Constants
  <2>2. q = BSIZE * (q \div BSIZE) + (q % BSIZE) /\ q % BSIZE \in 0..(BSIZE - 1)
    BY <2>1, Division
  <2>3. BSIZE * bn \in Int
    BY <2>1, <1>2
  <2> HIDE DEF bn
  <2> QED BY <2>1, <2>2, <2>3 DEF bn
<1> HIDE DEF bn
<1>4. MkfsFiles[i] \in Nat
  BY MkfsFilesAre
<1>5. <<i, bn>> \in MkfsBlocks /\ bn \in Places
  <2>1. bn \in -1..(MAXFILE - 1) /\ bn # -1
    BY <1>2, Constants
  <2>2. MkfsFiles[i] > BSIZE * bn
    BY <1>3, <1>4
  <2> QED BY <2>1, <2>2 DEF MkfsBlocks, Places
<1>6. ~ (bn < NDIRECT) => <<i, -1>> \in MkfsBlocks /\ -1 \in Places
  <2> HAVE ~ (bn < NDIRECT)
  <2>1. BSIZE * NDIRECT <= BSIZE * bn /\ BSIZE * NDIRECT \in Int
    BY <1>2, Constants, Times
  <2>2. MkfsFiles[i] > BSIZE * NDIRECT
    BY <2>1, <1>3, <1>4
  <2>3. -1 \in -1..(MAXFILE - 1)
    BY Constants
  <2> QED BY <2>2, <2>3 DEF MkfsBlocks, Places
<1> QED BY <1>1, <1>5, <1>6 DEF Needed, bn

\* mkfs has a block for each place it needs.
LEMMA RoomIs ==
  ASSUME NEW d, NEW L, Image(d, L), NEW i \in InodeSet, NEW q \in Nat, q < MkfsFiles[i]
  PROVE  Needs(d, i, q \div BSIZE) <= Cardinality(Blocks \ d.bitmap)
<1> DEFINE bn == q \div BSIZE
<1> DEFINE H == {x \in MkfsBlocks : Place(d, x[1], x[2]) # 0}
<1> DEFINE N == {x \in MkfsBlocks : x[1] = i /\ x[2] \in Needed(bn) /\ Place(d, i, x[2]) = 0}
<1> DEFINE M == 0..(NMeta - 1)
<1>0. Owned(d) /\ \A j \in InodeSet, k \in Places : Place(d, j, k) # 0 => <<j, k>> \in MkfsBlocks
  BY DEF Image
<1>1. /\ q \in Offsets /\ bn \in 0..(MAXFILE - 1)
      /\ \A k \in Needed(bn) : k \in Places /\ <<i, k>> \in MkfsBlocks
  BY NeededIs, CellIs
<1> HIDE DEF bn
<1>2. /\ IsFiniteSet(H) /\ IsFiniteSet(N) /\ Cardinality(H) \in Nat /\ Cardinality(N) \in Nat
      /\ Cardinality(H) + Cardinality(N) <= NData
  <2>1. H \subseteq MkfsBlocks /\ N \subseteq MkfsBlocks /\ H \cap N = {}
    OBVIOUS
  <2> HIDE DEF H, N
  <2>2. IsFiniteSet(H) /\ IsFiniteSet(N) /\ Cardinality(H) \in Nat /\ Cardinality(N) \in Nat
    BY <2>1, MkfsFilesAre, FS_Subset, FS_CardinalityType
  <2>3. Cardinality(H \cup N) = Cardinality(H) + Cardinality(N) - Cardinality({})
    BY <2>1, <2>2, FS_Union
  <2>4. Cardinality(H \cup N) <= Cardinality(MkfsBlocks) /\ Cardinality({}) = 0
    BY <2>1, MkfsFilesAre, FS_Subset, FS_EmptySet
  <2> QED BY <2>2, <2>3, <2>4, MkfsFilesAre, Constants
<1>3. Needs(d, i, bn) = Cardinality(N)
  <2>1. \A k \in Needed(bn) : Place(d, i, k) = 0 => <<i, k>> \in N
    BY <1>1
  <2>2. \A x \in N : \E k \in Needed(bn) : x = <<i, k>> /\ Place(d, i, k) = 0
    BY MkfsFilesAre
  <2> HIDE DEF N
  <2>3. /\ Cardinality({}) = 0 /\ \A x : Cardinality({x}) = 1
    BY FS_EmptySet, FS_Singleton
  <2>4. CASE bn < NDIRECT
    <3>1. Needed(bn) = {bn} /\ Place(d, i, bn) = d.ip[i].addrs[bn]
      BY <2>4, <1>1 DEF Needed, Place
    <3>2. CASE Place(d, i, bn) = 0
      <4>1. N = {<<i, bn>>}
        BY <2>1, <2>2, <3>1, <3>2
      <4> QED BY <4>1, <2>3, <2>4, <3>1, <3>2 DEF Needs
    <3>3. CASE Place(d, i, bn) # 0
      <4>1. N = {}
        BY <2>2, <3>1, <3>3
      <4> QED BY <4>1, <2>3, <2>4, <3>1, <3>3 DEF Needs
    <3> QED BY <3>2, <3>3
  <2>5. CASE ~ (bn < NDIRECT)
    <3>1. /\ Needed(bn) = {-1, bn} /\ bn # -1 /\ Place(d, i, -1) = d.ip[i].addrs[NDIRECT]
          /\ Place(d, i, -1) = 0 => Place(d, i, bn) = 0
      BY <2>5, <1>1 DEF Needed, Place
    <3>2. CASE Place(d, i, -1) = 0
      <4>1. N = {<<i, -1>>} \cup {<<i, bn>>} /\ <<i, bn>> \notin {<<i, -1>>}
        BY <2>1, <2>2, <3>1, <3>2
      <4>2. Cardinality(N) = 1 + 1
        <5> DEFINE A == {<<i, -1>>}
        <5> DEFINE y == <<i, bn>>
        <5>1. IsFiniteSet(A) /\ Cardinality(A) = 1 /\ y \notin A /\ N = A \cup {y}
          BY <4>1, <2>3, FS_Singleton
        <5> HIDE DEF A, y
        <5>2. IsFiniteSet(A \cup {y}) /\ Cardinality(A \cup {y}) = Cardinality(A) + 1
          BY <5>1, FS_AddElement
        <5> QED BY <5>1, <5>2
      <4> QED BY <4>2, <2>5, <3>1, <3>2 DEF Needs
    <3>3. CASE Place(d, i, -1) # 0 /\ Place(d, i, bn) = 0
      <4>1. N = {<<i, bn>>}
        BY <2>1, <2>2, <3>1, <3>3
      <4>2. Addr(d, i, bn) = 0
        BY <2>5, <3>1, <3>3 DEF Addr, Place
      <4> QED BY <4>1, <4>2, <2>3, <2>5, <3>1, <3>3 DEF Needs
    <3>4. CASE Place(d, i, -1) # 0 /\ Place(d, i, bn) # 0
      <4>1. N = {}
        BY <2>2, <3>1, <3>4
      <4>2. Addr(d, i, bn) # 0
        BY <1>0, <1>1, <3>4, NeedsIs
      <4> QED BY <4>1, <4>2, <2>3, <2>5, <3>1, <3>4 DEF Needs
    <3> QED BY <3>2, <3>3, <3>4
  <2> QED BY <2>4, <2>5
<1>4. Cardinality(d.bitmap) <= NMeta + Cardinality(H)
  <2> DEFINE F == {Place(d, x[1], x[2]) : x \in H}
  <2>1. IsFiniteSet(F) /\ Cardinality(F) <= Cardinality(H)
    <3> DEFINE f == [x \in H |-> Place(d, x[1], x[2])]
    <3>1. f \in Surjection(H, F)
      BY DEF Surjection
    <3> HIDE DEF f, H, F
    <3> QED BY <1>2, <3>1, FS_Surjection
  <2>2. IsFiniteSet(M) /\ Cardinality(M) = NMeta
    BY Constants, FS_Interval
  <2>3. d.bitmap \subseteq M \cup F
    <3> SUFFICES ASSUME NEW b \in d.bitmap
                 PROVE  b \in M \cup F
      OBVIOUS
    <3>1. b \in Blocks /\ b \in Nat
      BY <1>0, Constants DEF Owned, FsType
    <3>2. b < NMeta => b \in M
      BY <3>1, Constants
    <3>3. ASSUME ~ (b < NMeta)
          PROVE  b \in F
      <4>1. PICK j \in InodeSet, k \in Places : Place(d, j, k) = b
        BY <1>0, <3>1, <3>3 DEF Owned
      <4>2. <<j, k>> \in H
        BY <1>0, <4>1, <3>3, Constants
      <4> QED BY <4>1, <4>2
    <3> QED BY <3>2, <3>3
  <2> HIDE DEF M, F, H
  <2>4. /\ IsFiniteSet(M \cup F)
        /\ Cardinality(M \cup F) = Cardinality(M) + Cardinality(F) - Cardinality(M \cap F)
    BY <2>1, <2>2, FS_Union
  <2>5. Cardinality(d.bitmap) <= Cardinality(M \cup F)
    BY <2>3, <2>4, FS_Subset
  <2>6. Cardinality(M \cap F) \in Nat /\ Cardinality(F) \in Nat
    BY <2>1, <2>2, FS_Intersection, FS_CardinalityType
  <2>7. IsFiniteSet(d.bitmap) /\ Cardinality(d.bitmap) \in Nat
    BY <2>3, <2>4, FS_Subset, FS_CardinalityType
  <2> QED BY <2>1, <2>2, <2>4, <2>5, <2>6, <2>7, <1>2, Constants
<1>5. Cardinality(Blocks \ d.bitmap) = SIZE - Cardinality(d.bitmap)
  <2>1. IsFiniteSet(Blocks) /\ Cardinality(Blocks) = SIZE
    BY Constants, FS_Interval DEF Blocks
  <2>2. Blocks \cap d.bitmap = d.bitmap
    BY <1>0 DEF Owned, FsType
  <2>3. Cardinality(Blocks \ d.bitmap) = Cardinality(Blocks) - Cardinality(Blocks \cap d.bitmap)
    BY <2>1, FS_Difference
  <2> QED BY <2>1, <2>2, <2>3
<1>6. Cardinality(d.bitmap) \in Nat
  BY <1>0, BlocksFinite DEF Owned, FsType
<1>7. SIZE = NMeta + NData + NLogBlocks
  BY DEF SIZE
<1> HIDE DEF H, N
<1>8. Cardinality(N) <= Cardinality(Blocks \ d.bitmap)
  BY <1>2, <1>4, <1>5, <1>6, <1>7, Constants
<1> QED BY <1>3, <1>8 DEF bn


LEMMA LongerIs ==
  ASSUME NEW L \in [InodeSet -> Nat], NEW i \in InodeSet, NEW n \in Nat
  PROVE  /\ Longer(L, i, n) \in [InodeSet -> Nat]
         /\ Longer(L, i, n)[i] = n
         /\ \A j \in InodeSet : j # i => Longer(L, i, n)[j] = L[j]
         /\ \A k \in Nat : Longer(Longer(L, i, n), i, k) = Longer(L, i, k)
         /\ Longer(L, i, L[i]) = L
BY DEF Longer

\* iappend writes a byte.
LEMMA GrownIs ==
  ASSUME NEW d, NEW L, Image(d, L), NEW i \in InodeSet, NEW t \in Nat, L[i] = t,
         t < MkfsFiles[i]
  PROVE  Grown(d, Chunk(d, i, t, 1, 0, MkfsByte), L, i, t + 1)
<1> DEFINE g == Chunk(d, i, t, 1, 0, MkfsByte)
<1> DEFINE G == Longer(L, i, t + 1)
<1> DEFINE m == Moved(t, 1, 0)
<1>1. /\ t \in Offsets /\ Needs(d, i, t \div BSIZE) <= Cardinality(Blocks \ d.bitmap)
      /\ \A k \in Needed(t \div BSIZE) : k \in Places /\ <<i, k>> \in MkfsBlocks
  BY NeededIs, RoomIs
<1>2. /\ Owned(d) /\ L \in [InodeSet -> Nat] /\ MkfsByte \in Bytes /\ t + 0 = t
      /\ 0 < 1 /\ 0 \in Nat /\ 1 \in Nat /\ t + 1 <= MAXFILE * BSIZE
  <2>1. MAXFILE * BSIZE \in Nat
    BY Constants
  <2>2. t + 1 <= MAXFILE * BSIZE
    BY <2>1, <1>1 DEF Offsets
  <2> QED BY <2>2 DEF Image, MkfsByte, Bytes
<1>3. /\ m \in 1..(1 - 0)
      /\ Owned(g)
      /\ \A j \in InodeSet : j # i => g.ip[j] = d.ip[j]
      /\ g.ip[i].size = d.ip[i].size
      /\ \A j \in InodeSet, k \in Places :
           Place(g, j, k) # Place(d, j, k) =>
             Place(d, j, k) = 0 /\ j = i /\ k \in Needed(t \div BSIZE)
      /\ \A j \in InodeSet, q \in Offsets :
           Has(d, j, q) =>
             /\ Has(g, j, q)
             /\ j # i \/ q \notin t..(t + m - 1) => Byte(g, j, q) = Byte(d, j, q)
      /\ \A q \in t..(t + m - 1) : Has(g, i, q) /\ Byte(g, i, q) = MkfsByte
  <2> DEFINE u == 1
  <2> DEFINE z == 0
  <2>1. /\ u \in Nat /\ z \in Nat /\ z < u /\ t + z = t /\ t + u <= MAXFILE * BSIZE
        /\ Needs(d, i, (t + z) \div BSIZE) <= Cardinality(Blocks \ d.bitmap)
        /\ MkfsByte \in Bytes /\ Owned(d)
    BY <1>1, <1>2
  <2> HIDE DEF u, z
  <2>2. /\ Moved(t + z, u, z) \in 1..(u - z)
        /\ Written(d, Chunk(d, i, t, u, z, MkfsByte), i, t + z, Moved(t + z, u, z), MkfsByte)
    BY <2>1, ChunkIs
  <2>3. m \in 1..(1 - 0) /\ Written(d, g, i, t, m, MkfsByte)
    BY <2>1, <2>2 DEF u, z
  <2> HIDE DEF g, m
  <2> QED BY <2>3 DEF Written
<1> HIDE DEF g, m
<1>4. m = 1
  BY <1>3
<1>5. /\ G \in [InodeSet -> Nat] /\ G[i] = t + 1
      /\ \A j \in InodeSet : j # i => G[j] = L[j]
  BY <1>2, LongerIs
<1> HIDE DEF G
<1>6. ASSUME NEW j \in InodeSet, NEW k \in Places, Place(g, j, k) # 0
      PROVE  <<j, k>> \in MkfsBlocks
  BY <1>1, <1>3, <1>6 DEF Image
<1>7. ASSUME NEW j \in InodeSet
      PROVE  G[j] <= MkfsFiles[j] /\ G[j] \in Nat /\ L[j] <= MkfsFiles[j] /\ L[j] \in Nat
  BY <1>2, <1>5, MkfsFilesAre DEF Image
<1>8. ASSUME NEW j \in InodeSet, NEW q \in 0..(G[j] - 1)
      PROVE  Has(g, j, q) /\ Byte(g, j, q) = MkfsByte
  <2>1. q \in Nat /\ q < MkfsFiles[j]
    BY <1>7, MkfsFilesAre
  <2>2. q \in Offsets
    BY <2>1, NeededIs
  <2>3. CASE j = i /\ q = t
    <3>1. q \in t..(t + m - 1)
      BY <2>3, <1>4
    <3> QED BY <3>1, <2>3, <1>3
  <2>4. CASE ~ (j = i /\ q = t)
    <3>1. q \in 0..(L[j] - 1)
      BY <2>4, <1>5, <1>7
    <3>2. Has(d, j, q) /\ Byte(d, j, q) = MkfsByte
      BY <3>1 DEF Image
    <3>3. j # i \/ q \notin t..(t + m - 1)
      BY <2>4, <1>4, <2>1
    <3> QED BY <3>2, <3>3, <2>2, <1>3
  <2> QED BY <2>3, <2>4
<1>9. Image(g, G)
  BY <1>3, <1>5, <1>6, <1>7, <1>8 DEF Image
<1>10. \A j \in InodeSet : g.ip[j].size = d.ip[j].size
  BY <1>3
<1> QED BY <1>9, <1>10 DEF Grown, g, G

\* iappend, after any number of bytes.
LEMMA LoopGrows ==
  ASSUME NEW d, NEW L, Image(d, L), NEW i \in InodeSet, L[i] = 0,
         NEW f, AppendLoop(d, i, MkfsFiles[i], MkfsByte, f)
  PROVE  \A t \in 0..MkfsFiles[i] : Grown(d, f[t], L, i, t)
<1> DEFINE n == MkfsFiles[i]
<1> DEFINE S == {t \in 0..n : ~ Grown(d, f[t], L, i, t)}
<1>0. n \in Nat /\ L \in [InodeSet -> Nat]
  BY MkfsFilesAre DEF Image
<1>1. \A t \in 0..n : f[t] = IF t = 0 THEN d ELSE Chunk(f[t - 1], i, t - 1, 1, 0, MkfsByte)
  BY DEF AppendLoop
<1> HIDE DEF n
<1> SUFFICES ASSUME S # {}
             PROVE  FALSE
  BY DEF n
<1>2. PICK t \in S : \A y \in S : t <= y
  <2>1. S \in SUBSET Nat
    BY <1>0
  <2> HIDE DEF S
  <2> QED BY <2>1, LeastMember
<1>3. t \in 0..n /\ ~ Grown(d, f[t], L, i, t)
  BY <1>2
<1>4. CASE t = 0
  <2>1. f[t] = d /\ Longer(L, i, t) = L
    BY <1>0, <1>1, <1>3, <1>4, LongerIs
  <2> QED BY <2>1, <1>3 DEF Grown
<1>5. CASE t # 0
  <2> DEFINE k == t - 1
  <2>1. k \in 0..n /\ k \in Nat /\ ~ (t <= k) /\ k + 1 = t /\ k < n
    BY <1>0, <1>3, <1>5
  <2>2. f[t] = Chunk(f[k], i, k, 1, 0, MkfsByte)
    BY <1>1, <1>3, <1>5
  <2> HIDE DEF k
  <2>3. Grown(d, f[k], L, i, k)
    BY <1>2, <2>1
  <2> HIDE DEF S
  <2>4. Longer(L, i, k)[i] = k /\ Longer(Longer(L, i, k), i, t) = Longer(L, i, t)
    BY <1>0, <1>3, <2>1, LongerIs
  <2>5. Image(f[k], Longer(L, i, k)) /\ \A j \in InodeSet : f[k].ip[j].size = d.ip[j].size
    BY <2>3 DEF Grown
  <2>6. Grown(f[k], Chunk(f[k], i, k, 1, 0, MkfsByte), Longer(L, i, k), i, k + 1)
    BY <2>1, <2>4, <2>5, GrownIs DEF n
  <2>7. Grown(f[k], f[t], Longer(L, i, k), i, t)
    BY <2>1, <2>2, <2>6
  <2> QED BY <2>4, <2>5, <2>7, <1>3 DEF Grown
<1> QED BY <1>4, <1>5

LEMMA AppendedIs ==
  ASSUME NEW d, NEW L, Image(d, L), NEW i \in InodeSet, L[i] = 0
  PROVE  LET g == Appended(d, i, MkfsFiles[i], MkfsByte)
         IN  /\ Image(g, Longer(L, i, MkfsFiles[i]))
             /\ g.ip[i].size = MkfsFiles[i]
             /\ \A j \in InodeSet : j # i => g.ip[j].size = d.ip[j].size
<1> DEFINE n == MkfsFiles[i]
<1> DEFINE F == CHOOSE f : AppendLoop(d, i, n, MkfsByte, f)
<1> DEFINE e == F[n]
<1> DEFINE g == WithSize(e, i, n)
<1> DEFINE G == Longer(L, i, n)
<1>0. n \in Nat
  BY MkfsFilesAre
<1>1. AppendLoop(d, i, n, MkfsByte, F)
  <2> HIDE DEF n
  <2> QED BY <1>0, AppendRuns, Zenon
<1>2. Appended(d, i, n, MkfsByte) = g
  BY AppendedLoop, Zenon
<1> HIDE DEF F
<1>3. Grown(d, e, L, i, n)
  <2>1. n \in 0..n
    BY <1>0
  <2> QED BY <1>1, <2>1, LoopGrows
<1>4. Image(e, G) /\ Owned(e) /\ \A j \in InodeSet : e.ip[j].size = d.ip[j].size
  BY <1>3 DEF Grown, Image
<1> HIDE DEF e
<1>5. /\ Owned(g) /\ g.data = e.data /\ NewSize(e.ip[i], n).size = n
      /\ g.ip[i] = NewSize(e.ip[i], n)
      /\ \A j \in InodeSet : j # i => g.ip[j] = e.ip[j]
      /\ \A j \in InodeSet : g.ip[j].addrs = e.ip[j].addrs
  <2> HIDE DEF n
  <2> QED BY <1>0, <1>4, SizedIs
<1> HIDE DEF g, G
<1>6. \A j \in InodeSet : \A k : Place(g, j, k) = Place(e, j, k)
  BY <1>5 DEF Place
<1>7. \A j \in InodeSet : \A q : Has(g, j, q) = Has(e, j, q) /\ Byte(g, j, q) = Byte(e, j, q)
  BY <1>5, <1>6 DEF Has, Byte
<1>8. Image(g, G)
  BY <1>4, <1>5, <1>6, <1>7 DEF Image
<1>9. g.ip[i].size = n /\ \A j \in InodeSet : j # i => g.ip[j].size = d.ip[j].size
  BY <1>4, <1>5
<1> QED BY <1>2, <1>8, <1>9 DEF G

\* How much mkfs has made when it has come to inode k.
Upto(k) == [j \in InodeSet |-> IF j <= k THEN MkfsFiles[j] ELSE 0]

\* It has made it, with its size.
Made(d, k) == Image(d, Upto(k)) /\ \A j \in InodeSet : d.ip[j].size = Upto(k)[j]

LEMMA BlankMade == Made(MkfsBlank, 0)
<1> DEFINE d == MkfsBlank
<1> DEFINE inode == [addrs |-> NoAddrs, size |-> 0]
<1>1. NoAddrs \in [0..NDIRECT -> Blocks] /\ \A k \in 0..NDIRECT : NoAddrs[k] = 0
  BY Constants DEF NoAddrs
<1>2. 0..(NMeta - 1) \subseteq Blocks
  BY Constants DEF Blocks
<1>3. inode \in [addrs : [0..NDIRECT -> Blocks], size : Nat]
  BY <1>1
<1>4. /\ d.bitmap = 0..(NMeta - 1) /\ d.data = [k \in Blocks |-> Zeroes]
      /\ \A i \in InodeSet : d.ip[i].addrs = NoAddrs /\ d.ip[i].size = 0
  BY DEF MkfsBlank
<1>5. d \in FsType
  BY <1>2, <1>3, Constants DEF MkfsBlank, FsType
<1> HIDE DEF d
<1>6. ASSUME NEW i \in InodeSet, NEW k \in Places
      PROVE  Place(d, i, k) = 0
  <2>1. NDIRECT \in 0..NDIRECT /\ (k # -1 /\ k < NDIRECT => k \in 0..NDIRECT)
    BY Constants DEF Places
  <2> QED BY <2>1, <1>1, <1>4 DEF Place
<1>7. \A b \in Blocks : b \in d.bitmap <=> b < NMeta
  BY <1>4, Constants DEF Blocks
<1>8. Owned(d)
  <2>1. \A i \in InodeSet, k \in Places : Place(d, i, k) \in {0} \cup (NMeta..(SIZE - 1))
    BY <1>6
  <2>2. \A i, j \in InodeSet, k, m \in Places :
          Place(d, i, k) # 0 /\ Place(d, i, k) = Place(d, j, m) => i = j /\ k = m
    BY <1>6
  <2>3. ASSUME NEW b \in Blocks
        PROVE  b \in d.bitmap <=> b < NMeta \/ \E i \in InodeSet, k \in Places : Place(d, i, k) = b
    <3>1. b = 0 => b < NMeta
      BY Constants
    <3> QED BY <3>1, <1>6, <1>7
  <2> QED BY <1>5, <2>1, <2>2, <2>3 DEF Owned
<1>9. ASSUME NEW j \in InodeSet
      PROVE  /\ Upto(0)[j] = 0 /\ MkfsFiles[j] \in Nat /\ d.ip[j].size = 0
             /\ 0..(Upto(0)[j] - 1) = {}
  <2>1. ~ (j <= 0) /\ MkfsFiles[j] \in Nat
    BY MkfsFilesAre
  <2> QED BY <2>1, <1>4 DEF Upto
<1>10. Upto(0) \in [InodeSet -> Nat]
  BY MkfsFilesAre DEF Upto
<1>11. Image(d, Upto(0))
  BY <1>6, <1>8, <1>9, <1>10 DEF Image
<1> QED BY <1>9, <1>11 DEF Made, d

LEMMA MoreMade ==
  ASSUME NEW d, NEW k \in InodeSet, Made(d, k - 1)
  PROVE  Made(Appended(d, k, MkfsFiles[k], MkfsByte), k)
<1> DEFINE g == Appended(d, k, MkfsFiles[k], MkfsByte)
<1> DEFINE L == Upto(k - 1)
<1> DEFINE G == Upto(k)
<1>1. k \in Nat /\ k > 0 /\ \A j \in InodeSet : j \in Nat /\ (j # k => (j <= k <=> j <= k - 1))
  BY MkfsFilesAre
<1>2. Upto(k - 1)[k] = 0 /\ Upto(k)[k] = MkfsFiles[k]
  BY <1>1 DEF Upto
<1>3. \A j \in InodeSet : j # k => Upto(k)[j] = Upto(k - 1)[j]
  BY <1>1 DEF Upto
<1>4. Longer(Upto(k - 1), k, MkfsFiles[k]) = Upto(k)
  BY <1>2, <1>3 DEF Longer, Upto
<1>5. Image(d, L) /\ L[k] = 0 /\ \A j \in InodeSet : d.ip[j].size = L[j]
  BY <1>2 DEF Made
<1> HIDE DEF L
<1>6. /\ Image(g, Longer(L, k, MkfsFiles[k]))
      /\ g.ip[k].size = MkfsFiles[k]
      /\ \A j \in InodeSet : j # k => g.ip[j].size = d.ip[j].size
  BY <1>5, AppendedIs
<1> HIDE DEF g
<1>7. Image(g, Upto(k))
  BY <1>4, <1>6 DEF L
<1>8. \A j \in InodeSet : g.ip[j].size = Upto(k)[j]
  BY <1>2, <1>3, <1>5, <1>6 DEF L
<1> QED BY <1>7, <1>8 DEF Made, g

LEMMA MkfsIs == Made(Mkfs(MkfsByte), Len(MkfsFiles))
<1> DEFINE n == Len(MkfsFiles)
<1> DEFINE F == CHOOSE f : MkfsLoop(n, MkfsByte, f)
<1> DEFINE S == {k \in 0..n : ~ Made(F[k], k)}
<1>0. n \in Nat /\ InodeSet = 1..n
  BY MkfsFilesAre
<1>1. MkfsLoop(n, MkfsByte, F)
  <2> HIDE DEF n
  <2> QED BY <1>0, MkfsRuns, Zenon
<1>2. Mkfs(MkfsByte) = F[n]
  BY MkfsIsLoop, Zenon
<1> HIDE DEF F, n
<1>3. \A k \in 0..n :
        F[k] = IF k = 0 THEN MkfsBlank ELSE Appended(F[k - 1], k, MkfsFiles[k], MkfsByte)
  BY <1>1 DEF MkfsLoop
<1>4. S = {}
  <2> SUFFICES ASSUME S # {}
               PROVE  FALSE
    OBVIOUS
  <2>1. PICK k \in S : \A y \in S : k <= y
    <3>1. S \in SUBSET Nat
      BY <1>0
    <3> HIDE DEF S
    <3> QED BY <3>1, LeastMember
  <2>2. k \in 0..n /\ ~ Made(F[k], k)
    BY <2>1
  <2>3. CASE k = 0
    BY <1>3, <2>2, <2>3, BlankMade
  <2>4. CASE k # 0
    <3>1. k \in InodeSet /\ k - 1 \in 0..n /\ ~ (k <= k - 1)
      BY <1>0, <2>2, <2>4
    <3>2. Made(F[k - 1], k - 1)
      BY <2>1, <3>1
    <3>3. F[k] = Appended(F[k - 1], k, MkfsFiles[k], MkfsByte)
      BY <1>3, <2>2, <2>4
    <3>4. Made(Appended(F[k - 1], k, MkfsFiles[k], MkfsByte), k)
      BY <3>1, <3>2, MoreMade
    <3> QED BY <2>2, <3>3, <3>4
  <2> QED BY <2>3, <2>4
<1>5. n \in 0..n
  BY <1>0
<1>6. Made(F[n], n)
  BY <1>4, <1>5
<1> QED BY <1>2, <1>6 DEF n

LEMMA ContentInitInv ==
  ASSUME ContentInit
  PROVE  ContentInv
<1>1. fs = Mkfs(MkfsByte)
  BY DEF ContentInit
<1>2. Made(fs, Len(MkfsFiles))
  BY <1>1, MkfsIs
<1>3. \A i \in InodeSet : Upto(Len(MkfsFiles))[i] = MkfsFiles[i]
  BY MkfsFilesAre DEF Upto
<1>4. /\ Owned(fs) /\ \A i \in InodeSet : fs.ip[i].size = MkfsFiles[i]
      /\ \A i \in InodeSet : \A q \in 0..(MkfsFiles[i] - 1) :
           Has(fs, i, q) /\ Byte(fs, i, q) = MkfsByte
  BY <1>2, <1>3 DEF Made, Image
<1>5. /\ dinode = fs.ip /\ off = [f \in FileSet |-> 0]
      /\ write = [p \in Writers |-> NoWrite]
      /\ locker = [i \in InodeSet |-> NoWriter]
      /\ text = [i \in InodeSet |-> [k \in 1..MkfsFiles[i] |-> MkfsByte]]
  BY DEF ContentInit
<1>6. ASSUME NEW i \in InodeSet
      PROVE  /\ text[i] \in Seq(Bytes) /\ Len(text[i]) = MkfsFiles[i]
             /\ \A q \in 0..(MkfsFiles[i] - 1) : text[i][q + 1] = MkfsByte
  <2> DEFINE n == MkfsFiles[i]
  <2>1. n \in Nat /\ MkfsByte \in Bytes
    BY MkfsFilesAre DEF MkfsByte, Bytes
  <2>2. text[i] = [k \in 1..n |-> MkfsByte]
    BY <1>5
  <2> HIDE DEF n
  <2>3. text[i] \in Seq(Bytes) /\ Len(text[i]) = n
    BY <2>1, <2>2
  <2>4. \A q \in 0..(n - 1) : q + 1 \in 1..n
    BY <2>1
  <2>5. \A q \in 0..(n - 1) : text[i][q + 1] = MkfsByte
    BY <2>2, <2>4
  <2> QED BY <2>3, <2>5 DEF n
<1>7. NoWrite \in WriteType /\ NoWrite.n1 = 0
  BY DEF NoWrite, WriteType
<1>8. \A p \in Writers : write[p] = NoWrite /\ write[p].n1 = 0
  BY <1>5, <1>7
<1>9. Typed
  <2>1. dinode \in [InodeSet -> [addrs : [0..NDIRECT -> Blocks], size : Nat]]
    BY <1>4, <1>5 DEF Owned, FsType
  <2>2. text \in [InodeSet -> Seq(Bytes)]
    BY <1>5, <1>6
  <2> QED BY <1>5, <1>7, <1>8, <2>1, <2>2 DEF Typed
<1>10. LockOK
  BY <1>5, ContentAssumption DEF LockOK
<1>11. \A p \in Writers : WriteOK(p)
  BY <1>8 DEF WriteOK
<1>12. ASSUME NEW i \in InodeSet
       PROVE  BytesRight(i) /\ DiskRight(i)
  <2>1. Len(text[i]) <= MAXFILE * BSIZE
    BY <1>6, MkfsFilesAre
  <2>2. BytesRight(i)
    BY <1>4, <1>6, <2>1 DEF BytesRight
  <2> QED BY <2>2, <1>5 DEF DiskRight
<1> QED BY <1>4, <1>9, <1>10, <1>11, <1>12 DEF ContentInv

-----------------------------------------------------------------------------
\* The blocks and the bytes are where the invariant says after every step.
LEMMA ContentInvariance == ContentSpec => []ContentInv
<1>1. ContentInit => ContentInv
  BY ContentInitInv
<1>2. ContentInv /\ [ContentNext]_contentVars => ContentInv'
  BY NextStep
<1> QED BY <1>1, <1>2, PTL DEF ContentSpec

LEMMA IndOnDisk == ContentInv => OnDisk
<1> SUFFICES ASSUME ContentInv, NEW i \in InodeSet, locker[i] = NoWriter
             PROVE  /\ dinode[i] = fs.ip[i]
                    /\ \A o \in 0..(fs.ip[i].size - 1) : Needs(fs, i, o \div BSIZE) = 0
  BY DEF OnDisk, Unlocked
<1>1. \A p \in Writers : ~ Writing(p, i)
  BY Busy
<1>2. dinode[i] = fs.ip[i]
  BY <1>1 DEF ContentInv, DiskRight
<1>3. Reads(fs, i, text[i]) /\ Owned(fs)
  BY FreeReads DEF ContentInv
<1>4. ASSUME NEW o \in 0..(fs.ip[i].size - 1)
      PROVE  Needs(fs, i, o \div BSIZE) = 0
  <2>1. o \in 0..(Len(text[i]) - 1) /\ Has(fs, i, o)
    BY <1>3 DEF Reads
  <2>2. o \in Offsets
    <3>1. MAXFILE * BSIZE \in Nat /\ Len(text[i]) \in Nat /\ Len(text[i]) <= MAXFILE * BSIZE
      BY <1>3, Constants, LenProperties DEF Reads
    <3> QED BY <2>1, <3>1 DEF Offsets
  <2>3. o \div BSIZE \in 0..(MAXFILE - 1)
    BY <2>2, CellIs
  <2> QED BY <1>3, <2>1, <2>3, NeedsIs DEF Has
<1> QED BY <1>2, <1>4

LEMMA IndReads == ContentInv => ReadsBack
<1> SUFFICES ASSUME ContentInv, NEW i \in InodeSet, locker[i] = NoWriter
             PROVE  /\ fs.ip[i].size = Len(text[i])
                    /\ \A o \in 0..Len(text[i]), n \in 0..(MAXFILE * BSIZE) :
                         Readi(fs, i, o, n) =
                           SubSeq(text[i], o + 1, min(o + n, Len(text[i])))
  BY DEF ReadsBack, Unlocked
<1> DEFINE T == text[i]
<1>1. Reads(fs, i, T) /\ Owned(fs) /\ Len(T) \in Nat /\ fs.ip[i].size = Len(T)
  BY FreeReads, LenProperties DEF ContentInv, Reads
<1> HIDE DEF T
<1>2. ASSUME NEW o \in 0..Len(T), NEW n \in 0..(MAXFILE * BSIZE)
      PROVE  Readi(fs, i, o, n) = SubSeq(T, o + 1, min(o + n, Len(T)))
  <2>1. Reads(fs, i, T) /\ Owned(fs) /\ o \in Nat /\ o <= Len(T) /\ n \in Nat
    BY <1>1, Constants
  <2> QED BY <2>1, ReadiIs
<1> QED BY <1>1, <1>2 DEF T

\* A block is in use if and only if some inode has it, and only one place does, whatever
\* writes are in progress and whenever balloc, bmap and itrunc run; between two calls the
\* inode on disk is the one in memory, and a file has all its blocks, so that the bmap of
\* readi, which is in no transaction, allocates none (fs.c).
THEOREM BlocksOwnedAlways == ContentSpec => []BlocksRight
<1>1. ContentInv => BlocksRight
  <2>1. ContentInv => BlocksOwned
    BY OwnedBlocks DEF ContentInv
  <2> QED BY <2>1, IndOnDisk DEF BlocksRight
<1> QED BY <1>1, ContentInvariance, PTL

\* readi, which goes through a file block by block, returns the bytes that writei has put
\* there last, whatever blocks, pieces of filewrite and other writers they came in by.
THEOREM ReadsWhatWasWritten == ContentSpec => []ReadsBack
<1> QED BY IndReads, ContentInvariance, PTL
=============================================================================
