----------------------------- MODULE InodesProofs ----------------------------
(***************************************************************************)
(* Proofs about module Inodes, for any number of processes, inodes, names   *)
(* and any set of calls whose paths have no "..".                          *)
(*                                                                         *)
(* The invariant says of each place of the code which pointers a process    *)
(* has there (PlaceOK), which of the inodes it has locked (LockOK), what is *)
(* on disk under a pointer (LiveOK, NewOK, TruncOK), when the cache agrees  *)
(* with the disk (CopyOK), and that links are counted ahead of the names    *)
(* and behind them (CountOK).                                               *)
(***************************************************************************)
EXTENDS Inodes, FiniteSetTheorems, SequenceTheorems, TLAPS

\* No path has a "..".
NoDotDot ==
  \A c \in Calls : \A t \in {c.path, c.new} : t.names \in Seq(Names) \ {<< >>}

\* Where a process goes on after the iput it may be in.
Dropping == {"put", "itrunc", "freed"}
Where(p) == IF pc[p] \in Dropping THEN ret[p] ELSE pc[p]
Returns  == {"idle", "walk", "found", "bad", "linked", "unlinked", "giveup", "exists", "open",
             "made"}

\* The places where it has an inode in cur or in ip, where it has locked that, and where
\* cur is a directory.
CurPcs == {"walk", "look", "parent", "dirlink", "target", "victim", "unlink", "giveup",
           "create", "new", "fill"}
DirPcs == CurPcs \ {"walk", "look"}
CurLocked == CurPcs \ {"walk", "parent"}
IpPcs == {"found", "open", "chdir", "link", "newname", "dirlink", "linked", "bad", "undo",
          "victim", "unlink", "unlinked", "exists", "existed", "new", "fill", "made"}
NoIpPcs == {"idle", "target", "giveup", "create"}
IpLocked == {"open", "chdir", "link", "undo", "unlink", "unlinked", "existed", "fill", "made"}

\* Where link has counted the name that is not there yet or comes no more, and unlink the
\* one that is no longer there.
LinkPcs == {"newname", "walk", "look", "parent", "dirlink", "bad", "undo"}
OwePcs  == LinkPcs \cup {"unlinked"}

PlaceOK(p) ==
  /\ drop[p] # 0 <=> pc[p] \in Dropping
  /\ pc[p] \in Dropping => ret[p] \in Returns
  /\ pc[p] = "freed" => drop[p] \notin {cur[p], ip[p], cwd[p], file[p]}
  /\ cur[p] # 0 <=> Where(p) \in CurPcs
  /\ Where(p) \in IpPcs => ip[p] # 0
  /\ Where(p) \in NoIpPcs => ip[p] = 0
  /\ cwd[p] # 0
  /\ Where(p) \in CurPcs \ {"giveup"} => rest[p] # << >>
  /\ Where(p) # "idle" => call[p] \in Calls
  /\ Where(p) \in LinkPcs /\ ip[p] # 0 => call[p].sys = "link"
  /\ Where(p) \in {"link", "linked"} => call[p].sys = "link"
  /\ Where(p) = "parent" => Parent(p)
  /\ Where(p) = "found" => call[p].sys \in {"open", "chdir", "link"}
  /\ Where(p) \in {"create", "exists", "existed", "new", "fill"} => Creates(call[p])

\* I_BUSY is set by the process that has the inode locked.
Holds(p, s) ==
  \/ cur[p] = s /\ Where(p) \in CurLocked
  \/ ip[p] = s /\ Where(p) \in IpLocked
  \/ drop[p] = s /\ pc[p] \in {"itrunc", "freed"}

LockOK == \A s \in Inums, p \in Procs : icache[s].busy = p <=> Holds(p, s)

\* What is valid is as on disk, until an inode that is being freed is taken anew.
BeingFreed(s) == \E p \in Procs : drop[p] = s /\ pc[p] = "freed"
CopyOf(s) == dinode[s] = [type |-> icache[s].type, nlink |-> icache[s].nlink]

CopyOK ==
  \A s \in Inums :
    /\ icache[s].valid => icache[s].ref > 0
    /\ icache[s].busy # NoProc => icache[s].valid
    /\ icache[s].valid => CopyOf(s) \/ BeingFreed(s)

\* No pointer leads to a free inode, but that of the process that frees it.
LiveOK(p) ==
  /\ \A s \in {cur[p], ip[p], cwd[p], file[p]} \ {0} : dinode[s].type # "free"
  /\ drop[p] # 0 /\ pc[p] # "freed" => dinode[drop[p]].type # "free"
  /\ dinode[cwd[p]].type = "dir"
  /\ Where(p) \in DirPcs => dinode[cur[p]].type = "dir"
  /\ Where(p) \in LinkPcs /\ ip[p] # 0 => dinode[ip[p]].type = "file"
  /\ pc[p] \in {"victim", "unlink"} => /\ Head(rest[p]) \in Names
                                       /\ dir[cur[p]][Head(rest[p])] = ip[p]

\* An inode about to be freed has one reference and no names, a new one no names and no
\* other reference but that of the process that has freed it.
TruncOK(p) == pc[p] = "itrunc" => icache[drop[p]].ref = 1 /\ dinode[drop[p]].nlink = 0

NewOK(p) ==
  pc[p] \in {"new", "fill"} =>
    /\ dinode[ip[p]] = [type |-> Made(p), nlink |-> 0]
    /\ ip[p] \notin {cur[p], cwd[p], file[p]}
    /\ \A n \in Names : dir[ip[p]][n] = 0
    /\ \A q \in Procs \ {p} :
         /\ ip[p] \notin {cur[q], ip[q], cwd[q], file[q]}
         /\ drop[q] = ip[p] => pc[q] = "freed"

\* The directories are no circle.
Acyclic == \A S \in (SUBSET Inums) \ {{}} : \E s \in S : \A n \in Names : dir[s][n] \notin S

DiskOK ==
  /\ \A s \in Inums : dinode[s].type = "free" => dinode[s].nlink = 0
  /\ \A s \in Inums, n \in Names : dinode[s].type # "dir" => dir[s][n] = 0
  /\ \A s \in Inums, n \in Names : dir[s][n] # Root
  /\ dinode[Root].type = "dir"
  /\ Acyclic

\* Every name has its link, and so has every name that is on its way; one more is the
\* root's.
Owes(p, s) == ip[p] = s /\ Where(p) \in OwePcs
Owed(s)    == Cardinality({p \in Procs : Owes(p, s)})
CountOK ==
  \A s \in Inums : NamesOf(s) + Owed(s) + (IF s = Root THEN 1 ELSE 0) <= dinode[s].nlink

\* The types, with the paths without "..".
Typed ==
  /\ dinode \in [Inums -> [type : Types, nlink : Nat]]
  /\ dir \in [Inums -> [AllNames -> Inums \cup {0}]]
  /\ icache \in [Inums -> [ref : Nat, busy : Procs \cup {NoProc}, valid : BOOLEAN,
                           type : Types, nlink : Nat]]
  /\ pc \in [Procs -> Pcs]
  /\ ret \in [Procs -> Pcs]
  /\ call \in [Procs -> Calls \cup {NoCall}]
  /\ rest \in [Procs -> Seq(Names)]
  /\ cur \in [Procs -> Inums \cup {0}]
  /\ ip \in [Procs -> Inums \cup {0}]
  /\ drop \in [Procs -> Inums \cup {0}]
  /\ cwd \in [Procs -> Inums \cup {0}]
  /\ file \in [Procs -> Inums \cup {0}]

IndInv ==
  /\ Typed
  /\ \A p \in Procs : PlaceOK(p) /\ LiveOK(p) /\ TruncOK(p) /\ NewOK(p)
  /\ RefsCounted /\ LockOK /\ CopyOK /\ DiskOK /\ CountOK

-----------------------------------------------------------------------------
(* What a step of process p leaves alone.                                  *)

\* The pointers and the place of the others.
OthersLocal(p) ==
  \A q \in Procs \ {p} :
    /\ pc'[q] = pc[q] /\ ret'[q] = ret[q] /\ call'[q] = call[q] /\ rest'[q] = rest[q]
    /\ cur'[q] = cur[q] /\ ip'[q] = ip[q] /\ drop'[q] = drop[q]
    /\ cwd'[q] = cwd[q] /\ file'[q] = file[q]

\* ref counts the pointers a step makes and takes away.
B(b) == IF b THEN 1 ELSE 0
Own(p, s) ==
  B(cur[p] = s) + B(ip[p] = s) + B(drop[p] = s) + B(cwd[p] = s) + B(file[p] = s)
RefsStep(p) == \A s \in Inums : icache'[s].ref + Own(p, s) = icache[s].ref + Own(p, s)'

\* I_BUSY is set where it was clear, and cleared by the process that has set it.
LockStep(p) ==
  \A s \in Inums :
    /\ icache'[s].busy = IF Holds(p, s)' THEN p
                         ELSE IF Holds(p, s) THEN NoProc ELSE icache[s].busy
    /\ Holds(p, s)' /\ ~ Holds(p, s) => icache[s].busy = NoProc

\* A pointer is copied, or comes from a name, or is to a free inode.
MovesOK(p) ==
  /\ \A s \in {cur'[p], ip'[p], cwd'[p], file'[p]} \ {0} :
       s \in {cur[p], ip[p], cwd[p], file[p]} \/ dinode[s].nlink > 0 \/ dinode[s].type = "free"
  /\ \/ drop'[p] \in {0, cur[p], ip[p], cwd[p], file[p]}
     \/ drop'[p] = drop[p] /\ pc[p] # "freed"

\* Of what is not free only what is locked changes, and its type only when it is freed.
DiskStep(p) ==
  /\ \A s \in Inums : dinode'[s] # dinode[s] => dinode[s].type = "free" \/ Holds(p, s)
  /\ \A s \in Inums : dinode[s].type # "free" /\ ~ (pc[p] = "itrunc" /\ drop[p] = s) =>
       dinode'[s].type = dinode[s].type
  /\ \A s \in Inums, n \in Names : dir'[s][n] # dir[s][n] => Holds(p, s)
  /\ pc[p] = "freed" => dinode' = dinode /\ dir' = dir

-----------------------------------------------------------------------------
(* Counting pointers.                                                      *)

Slot(v, q) == <<cur, ip, drop, cwd, file>>[v][q]
OwnPointers(p, s)   == {x \in (1..5) \X {p} : Slot(x[1], x[2]) = s}
OtherPointers(p, s) == {x \in (1..5) \X (Procs \ {p}) : Slot(x[1], x[2]) = s}

LEMMA SlotsAre ==
  ASSUME NEW q
  PROVE  /\ Slot(1, q) = cur[q] /\ Slot(2, q) = ip[q] /\ Slot(3, q) = drop[q]
         /\ Slot(4, q) = cwd[q] /\ Slot(5, q) = file[q]
BY DEF Slot

\* At most one element.
LEMMA CountsOne ==
  ASSUME NEW x, NEW b \in BOOLEAN
  PROVE  IsFiniteSet({y \in {x} : b}) /\ Cardinality({y \in {x} : b}) = B(b)
<1>1. CASE b
  <2>1. {y \in {x} : b} = {x}
    BY <1>1
  <2> QED BY <1>1, <2>1, FS_Singleton DEF B
<1>2. CASE ~ b
  <2>1. {y \in {x} : b} = {}
    BY <1>2
  <2> QED BY <1>2, <2>1, FS_EmptySet DEF B
<1> QED BY <1>1, <1>2

LEMMA UnionCounts ==
  ASSUME NEW S, NEW T, IsFiniteSet(S), IsFiniteSet(T), S \cap T = {}
  PROVE  IsFiniteSet(S \cup T) /\ Cardinality(S \cup T) = Cardinality(S) + Cardinality(T)
         /\ Cardinality(S) \in Nat /\ Cardinality(T) \in Nat
<1>1. Cardinality(S \cup T) = Cardinality(S) + Cardinality(T) - Cardinality({})
  BY FS_Union
<1>2. Cardinality({}) = 0 /\ Cardinality(S) \in Nat /\ Cardinality(T) \in Nat
  BY FS_EmptySet, FS_CardinalityType
<1> QED BY <1>1, <1>2, FS_Union

LEMMA OwnCounted ==
  ASSUME NEW p, NEW s
  PROVE  IsFiniteSet(OwnPointers(p, s)) /\ Cardinality(OwnPointers(p, s)) = Own(p, s)
<1> DEFINE E(v) == {y \in {<<v, p>>} : Slot(v, p) = s}
<1>1. \A v \in 1..5 : IsFiniteSet(E(v)) /\ Cardinality(E(v)) = B(Slot(v, p) = s)
  BY CountsOne
<1>2. OwnPointers(p, s) = (((E(1) \cup E(2)) \cup E(3)) \cup E(4)) \cup E(5)
  <2>1. \A v, q : <<v, q>> \in OwnPointers(p, s) <=>
                    v \in 1..5 /\ q = p /\ Slot(v, q) = s
    BY DEF OwnPointers
  <2>2. \A x \in OwnPointers(p, s) : \E v \in 1..5 : x = <<v, p>> /\ Slot(v, p) = s
    BY DEF OwnPointers
  <2>3. \A v \in 1..5 : \A x : x \in E(v) <=> x = <<v, p>> /\ Slot(v, p) = s
    OBVIOUS
  <2> HIDE DEF E
  <2> QED BY <2>1, <2>2, <2>3
<1>3. /\ E(1) \cap E(2) = {} /\ (E(1) \cup E(2)) \cap E(3) = {}
      /\ ((E(1) \cup E(2)) \cup E(3)) \cap E(4) = {}
      /\ (((E(1) \cup E(2)) \cup E(3)) \cup E(4)) \cap E(5) = {}
  OBVIOUS
<1>a. /\ IsFiniteSet(E(1)) /\ IsFiniteSet(E(2)) /\ IsFiniteSet(E(3)) /\ IsFiniteSet(E(4))
      /\ IsFiniteSet(E(5))
  <2> HIDE DEF E
  <2> QED BY <1>1
<1> HIDE DEF E
<1>4. /\ IsFiniteSet(E(1) \cup E(2))
      /\ Cardinality(E(1) \cup E(2)) = Cardinality(E(1)) + Cardinality(E(2))
  BY <1>a, <1>3, UnionCounts
<1>5. /\ IsFiniteSet((E(1) \cup E(2)) \cup E(3))
      /\ Cardinality((E(1) \cup E(2)) \cup E(3))
         = Cardinality(E(1) \cup E(2)) + Cardinality(E(3))
  BY <1>a, <1>3, <1>4, UnionCounts
<1>6. /\ IsFiniteSet(((E(1) \cup E(2)) \cup E(3)) \cup E(4))
      /\ Cardinality(((E(1) \cup E(2)) \cup E(3)) \cup E(4))
         = Cardinality((E(1) \cup E(2)) \cup E(3)) + Cardinality(E(4))
  BY <1>a, <1>3, <1>5, UnionCounts
<1>7. /\ IsFiniteSet((((E(1) \cup E(2)) \cup E(3)) \cup E(4)) \cup E(5))
      /\ Cardinality((((E(1) \cup E(2)) \cup E(3)) \cup E(4)) \cup E(5))
         = Cardinality(((E(1) \cup E(2)) \cup E(3)) \cup E(4)) + Cardinality(E(5))
  BY <1>a, <1>3, <1>6, UnionCounts
<1>8. Own(p, s) = B(Slot(1, p) = s) + B(Slot(2, p) = s) + B(Slot(3, p) = s)
                  + B(Slot(4, p) = s) + B(Slot(5, p) = s)
  BY SlotsAre DEF Own
<1> QED BY <1>1, <1>2, <1>4, <1>5, <1>6, <1>7, <1>8

\* The pointers of one process, and those of the others.
LEMMA PointersSplit ==
  ASSUME NEW p \in Procs, NEW s
  PROVE  /\ IsFiniteSet(OtherPointers(p, s)) /\ Cardinality(OtherPointers(p, s)) \in Nat
         /\ Pointers(s) = Cardinality(OtherPointers(p, s)) + Own(p, s)
<1> DEFINE All == {x \in (1..5) \X Procs : <<cur, ip, drop, cwd, file>>[x[1]][x[2]] = s}
<1>1. IsFiniteSet(OtherPointers(p, s))
  <2>1. IsFiniteSet(1..5)
    <3>1. 1 \in Int /\ 5 \in Int
      OBVIOUS
    <3> QED BY <3>1, FS_Interval
  <2>2. IsFiniteSet(Procs \ {p})
    BY InodesAssumption, FS_Subset
  <2>3. IsFiniteSet((1..5) \X (Procs \ {p}))
    BY <2>1, <2>2, FS_Product
  <2>4. OtherPointers(p, s) \subseteq (1..5) \X (Procs \ {p})
    BY DEF OtherPointers
  <2> QED BY <2>3, <2>4, FS_Subset
<1>2. All = OtherPointers(p, s) \cup OwnPointers(p, s)
  BY DEF OtherPointers, OwnPointers, Slot
<1>3. OtherPointers(p, s) \cap OwnPointers(p, s) = {}
  BY DEF OtherPointers, OwnPointers
<1>4. Pointers(s) = Cardinality(All)
  BY DEF Pointers
<1> HIDE DEF All
<1> QED BY <1>1, <1>2, <1>3, <1>4, OwnCounted, UnionCounts
Split ==
  \A p \in Procs, s \in Inums :
    /\ IsFiniteSet(OtherPointers(p, s)) /\ Cardinality(OtherPointers(p, s)) \in Nat
    /\ Pointers(s) = Cardinality(OtherPointers(p, s)) + Own(p, s)

LEMMA SplitNow == Split
BY PointersSplit DEF Split

LEMMA SplitNext == Split'
BY SplitNow, PTL

LEMMA OwnNat ==
  ASSUME NEW p, NEW s
  PROVE  Own(p, s) \in 0..5
BY DEF Own, B

LEMMA OwnNatNext ==
  ASSUME NEW p, NEW s
  PROVE  Own(p, s)' \in 0..5
BY DEF Own, B

LEMMA KeepsRefs ==
  ASSUME RefsCounted, NEW p \in Procs, OthersLocal(p), RefsStep(p), Typed, Typed'
  PROVE  RefsCounted'
<1> SUFFICES ASSUME NEW s \in Inums PROVE icache'[s].ref = Pointers(s)'
  BY DEF RefsCounted
<1>1. OtherPointers(p, s)' = OtherPointers(p, s)
  <2>1. \A q \in Procs \ {p} : \A v \in 1..5 : Slot(v, q)' = Slot(v, q)
    BY DEF OthersLocal, Slot
  <2> QED BY <2>1 DEF OtherPointers
<1>2. Pointers(s) = Cardinality(OtherPointers(p, s)) + Own(p, s)
      /\ Cardinality(OtherPointers(p, s)) \in Nat
  BY SplitNow DEF Split
<1>3. Pointers(s)' = Cardinality(OtherPointers(p, s))' + Own(p, s)'
  BY SplitNext DEF Split
<1>4. icache'[s].ref + Own(p, s) = icache[s].ref + Own(p, s)'
  BY DEF RefsStep
<1>5. icache[s].ref = Pointers(s)
  BY DEF RefsCounted
<1>6. icache'[s].ref \in Nat
  BY DEF Typed
<1> QED BY <1>1, <1>2, <1>3, <1>4, <1>5, <1>6, OwnNat, OwnNatNext

Points(q, s) == s \in {cur[q], ip[q], drop[q], cwd[q], file[q]}

\* A reference counted is as many as a process has itself.
LEMMA RefsAtLeast ==
  ASSUME Typed, RefsCounted, NEW p \in Procs, NEW s \in Inums
  PROVE  icache[s].ref >= Own(p, s) /\ (Points(p, s) => icache[s].ref > 0)
<1>1. Pointers(s) = Cardinality(OtherPointers(p, s)) + Own(p, s)
      /\ Cardinality(OtherPointers(p, s)) \in Nat
  BY SplitNow DEF Split
<1>2. icache[s].ref = Pointers(s)
  BY DEF RefsCounted
<1>3. Points(p, s) => Own(p, s) > 0
  BY DEF Points, Own, B
<1> QED BY <1>1, <1>2, <1>3, OwnNat

\* The only reference there is.
LEMMA RefAlone ==
  ASSUME Typed, RefsCounted, NEW p \in Procs, NEW s \in Inums, icache[s].ref = 1, drop[p] = s
  PROVE  /\ s \notin {cur[p], ip[p], cwd[p], file[p]}
         /\ \A q \in Procs \ {p} : ~ Points(q, s)
<1>1. /\ Pointers(s) = Cardinality(OtherPointers(p, s)) + Own(p, s)
      /\ IsFiniteSet(OtherPointers(p, s)) /\ Cardinality(OtherPointers(p, s)) \in Nat
  BY SplitNow DEF Split
<1>2. icache[s].ref = Pointers(s)
  BY DEF RefsCounted
<1>3. Own(p, s) >= 1
  BY DEF Own, B
<1>4. Cardinality(OtherPointers(p, s)) = 0 /\ Own(p, s) = 1
  BY <1>1, <1>2, <1>3, OwnNat
<1>5. OtherPointers(p, s) = {}
  BY <1>1, <1>4, FS_EmptySet
<1>6. ASSUME NEW q \in Procs \ {p}, NEW v \in 1..5 PROVE Slot(v, q) # s
  <2>1. <<v, q>> \in (1..5) \X (Procs \ {p}) /\ <<v, q>>[1] = v /\ <<v, q>>[2] = q
    OBVIOUS
  <2> QED BY <1>5, <2>1, Zenon DEF OtherPointers
<1>7. \A q \in Procs \ {p} : ~ Points(q, s)
  BY <1>6, SlotsAre DEF Points
<1>8. s \notin {cur[p], ip[p], cwd[p], file[p]}
  BY <1>4 DEF Own, B
<1> QED BY <1>7, <1>8

\* An entry with references has somebody's.
LEMMA RefSomebody ==
  ASSUME Typed, RefsCounted, NEW s \in Inums, icache[s].ref > 0
  PROVE  \E q \in Procs : Points(q, s)
<1> SUFFICES ASSUME \A q \in Procs : ~ Points(q, s) PROVE FALSE
  OBVIOUS
<1>1. {x \in (1..5) \X Procs : <<cur, ip, drop, cwd, file>>[x[1]][x[2]] = s} = {}
  <2>1. \A q \in Procs : \A v \in 1..5 : Slot(v, q) # s
    <3>1. \A q \in Procs : Slot(1, q) # s /\ Slot(2, q) # s /\ Slot(3, q) # s /\ Slot(4, q) # s
                           /\ Slot(5, q) # s
      BY SlotsAre DEF Points
    <3> QED BY <3>1
  <2> QED BY <2>1 DEF Slot
<1>2. Pointers(s) = 0
  BY <1>1, FS_EmptySet DEF Pointers
<1> QED BY <1>2 DEF RefsCounted
-----------------------------------------------------------------------------
(* The others, when p makes a step.                                        *)

LEMMA OthersKept ==
  ASSUME NEW p \in Procs, OthersLocal(p), NEW q \in Procs \ {p}
  PROVE  /\ Where(q)' = Where(q)
         /\ PlaceOK(q) => PlaceOK(q)'
         /\ \A s : Holds(q, s)' <=> Holds(q, s)
         /\ \A s : Owes(q, s)' <=> Owes(q, s)
         /\ Made(q)' = Made(q)
<1>1. /\ pc'[q] = pc[q] /\ ret'[q] = ret[q] /\ call'[q] = call[q] /\ rest'[q] = rest[q]
      /\ cur'[q] = cur[q] /\ ip'[q] = ip[q] /\ drop'[q] = drop[q]
      /\ cwd'[q] = cwd[q] /\ file'[q] = file[q]
  BY DEF OthersLocal
<1>2. Where(q)' = Where(q)
  BY <1>1 DEF Where
<1>3. PlaceOK(q) => PlaceOK(q)'
  BY <1>1, <1>2 DEF PlaceOK, Parent, Creates
<1>4. \A s : (Holds(q, s)' <=> Holds(q, s)) /\ (Owes(q, s)' <=> Owes(q, s))
  BY <1>1, <1>2 DEF Holds, Owes
<1>5. Made(q)' = Made(q)
  BY <1>1 DEF Made
<1> QED BY <1>2, <1>3, <1>4, <1>5

LEMMA KeepsLocks ==
  ASSUME LockOK, Typed, NEW p \in Procs, OthersLocal(p), LockStep(p)
  PROVE  LockOK'
<1> SUFFICES ASSUME NEW s \in Inums, NEW q \in Procs
             PROVE  icache'[s].busy = q <=> Holds(q, s)'
  BY DEF LockOK
<1>0. NoProc # q /\ NoProc # p
  BY InodesAssumption
<1>1. /\ icache'[s].busy = IF Holds(p, s)' THEN p
                           ELSE IF Holds(p, s) THEN NoProc ELSE icache[s].busy
      /\ Holds(p, s)' /\ ~ Holds(p, s) => icache[s].busy = NoProc
  BY DEF LockStep
<1>2. (icache[s].busy = q <=> Holds(q, s)) /\ (icache[s].busy = p <=> Holds(p, s))
  BY DEF LockOK
<1>3. CASE q = p
  BY <1>0, <1>1, <1>2, <1>3
<1>4. CASE q # p
  <2>1. Holds(q, s)' <=> Holds(q, s)
    BY <1>4, OthersKept
  <2> QED BY <1>0, <1>1, <1>2, <1>4, <2>1
<1> QED BY <1>3, <1>4

\* Two processes do not hold one lock.
LEMMA HoldsAlone ==
  ASSUME LockOK, NEW p \in Procs, NEW q \in Procs, NEW s \in Inums, Holds(p, s), Holds(q, s)
  PROVE  p = q
BY DEF LockOK

\* The links that p owes.
LEMMA OwedSplit ==
  ASSUME NEW p \in Procs, NEW s
  PROVE  /\ IsFiniteSet({q \in Procs \ {p} : Owes(q, s)})
         /\ Cardinality({q \in Procs \ {p} : Owes(q, s)}) \in Nat
         /\ Owed(s) = Cardinality({q \in Procs \ {p} : Owes(q, s)}) + B(Owes(p, s))
<1> DEFINE Rest == {q \in Procs \ {p} : Owes(q, s)}
<1> DEFINE Mine == {q \in {p} : Owes(p, s)}
<1>1. IsFiniteSet(Rest)
  <2>1. Rest \subseteq Procs
    OBVIOUS
  <2> QED BY <2>1, InodesAssumption, FS_Subset
<1>2. IsFiniteSet(Mine) /\ Cardinality(Mine) = B(Owes(p, s))
  <2>1. Owes(p, s) \in BOOLEAN
    BY DEF Owes
  <2> QED BY <2>1, CountsOne
<1>3. {q \in Procs : Owes(q, s)} = Rest \cup Mine /\ Rest \cap Mine = {}
  OBVIOUS
<1> HIDE DEF Rest, Mine
<1>4. Cardinality(Rest \cup Mine) = Cardinality(Rest) + Cardinality(Mine)
      /\ Cardinality(Rest) \in Nat
  BY <1>1, <1>2, <1>3, UnionCounts
<1> QED BY <1>1, <1>2, <1>3, <1>4 DEF Owed, Rest

OwedParts ==
  \A p \in Procs, s \in Inums :
    /\ Cardinality({q \in Procs \ {p} : Owes(q, s)}) \in Nat
    /\ Owed(s) = Cardinality({q \in Procs \ {p} : Owes(q, s)}) + B(Owes(p, s))

LEMMA OwedNow == OwedParts
BY OwedSplit DEF OwedParts

LEMMA OwedNext == OwedParts'
BY OwedNow, PTL

LEMMA OwedStep ==
  ASSUME NEW p \in Procs, OthersLocal(p), NEW s \in Inums
  PROVE  /\ Owed(s) \in Nat /\ Owed(s)' \in Nat
         /\ Owed(s)' + B(Owes(p, s)) = Owed(s) + B(Owes(p, s)')
         /\ Owed(s) >= B(Owes(p, s))
<1>1. {q \in Procs \ {p} : Owes(q, s)}' = {q \in Procs \ {p} : Owes(q, s)}
  BY OthersKept
<1>2. /\ Owed(s) = Cardinality({q \in Procs \ {p} : Owes(q, s)}) + B(Owes(p, s))
      /\ Cardinality({q \in Procs \ {p} : Owes(q, s)}) \in Nat
  BY OwedNow DEF OwedParts
<1>3. Owed(s)' = Cardinality({q \in Procs \ {p} : Owes(q, s)}') + B(Owes(p, s)')
  BY OwedNext DEF OwedParts
<1>4. B(Owes(p, s)) \in Nat /\ B(Owes(p, s)') \in Nat
  BY DEF B
<1> QED BY <1>1, <1>2, <1>3, <1>4

-----------------------------------------------------------------------------
(* Counting names.                                                         *)

Entries(i) == {e \in Inums \X Names : dir[e[1]][e[2]] = i}
Subdirs(i) == {n \in Names : dir[i][n] # 0 /\ dinode[dir[i][n]].type = "dir"}

LEMMA CardMost ==
  ASSUME NEW S, NEW T, IsFiniteSet(T), S \subseteq T
  PROVE  IsFiniteSet(S) /\ Cardinality(S) \in Nat /\ Cardinality(T) \in Nat
         /\ Cardinality(S) <= Cardinality(T)
BY FS_Subset, FS_CardinalityType

LEMMA CardMore ==
  ASSUME NEW S, NEW T, NEW e, IsFiniteSet(T), S \subseteq T \cup {e}
  PROVE  Cardinality(S) \in Nat /\ Cardinality(T) \in Nat
         /\ Cardinality(S) <= Cardinality(T) + 1
<1>1. IsFiniteSet(T \cup {e}) /\ Cardinality(T \cup {e}) \in Nat /\ Cardinality(T) \in Nat
      /\ Cardinality(T \cup {e}) <= Cardinality(T) + 1
  <2>1. CASE e \in T
    <3>1. T \cup {e} = T
      BY <2>1
    <3>2. Cardinality(T) \in Nat
      BY FS_CardinalityType
    <3>3. Cardinality(T) <= Cardinality(T) + 1
      BY <3>2
    <3> QED BY <3>1, <3>2, <3>3
  <2>2. CASE e \notin T
    <3>1. IsFiniteSet(T \cup {e}) /\ Cardinality(T \cup {e}) = Cardinality(T) + 1
      BY <2>2, FS_AddElement
    <3>2. Cardinality(T) \in Nat
      BY FS_CardinalityType
    <3> QED BY <3>1, <3>2
  <2> QED BY <2>1, <2>2
<1> QED BY <1>1, CardMost

LEMMA CardLess ==
  ASSUME NEW S, NEW T, NEW e \in T, IsFiniteSet(T), S \subseteq T \ {e}
  PROVE  Cardinality(S) \in Nat /\ Cardinality(T) \in Nat
         /\ Cardinality(S) + 1 <= Cardinality(T)
<1>1. IsFiniteSet(T \ {e}) /\ Cardinality(T \ {e}) = Cardinality(T) - 1
      /\ Cardinality(T) \in Nat
  BY FS_RemoveElement, FS_CardinalityType
<1> QED BY <1>1, CardMost

NamesParts ==
  \A i \in Inums :
    /\ IsFiniteSet(Entries(i)) /\ Cardinality(Entries(i)) \in Nat
    /\ IsFiniteSet(Subdirs(i)) /\ Cardinality(Subdirs(i)) \in Nat
    /\ NamesOf(i) = Cardinality(Entries(i)) + Cardinality(Subdirs(i))

LEMMA NamesNow == NamesParts
<1> SUFFICES ASSUME NEW i \in Inums
             PROVE  /\ IsFiniteSet(Entries(i)) /\ Cardinality(Entries(i)) \in Nat
                    /\ IsFiniteSet(Subdirs(i)) /\ Cardinality(Subdirs(i)) \in Nat
                    /\ NamesOf(i) = Cardinality(Entries(i)) + Cardinality(Subdirs(i))
  BY DEF NamesParts
<1>1. IsFiniteSet(Names) /\ IsFiniteSet(Inums)
  <2>1. 1 \in Int /\ NInodes \in Int
    BY InodesAssumption
  <2> QED BY <2>1, InodesAssumption, FS_Interval DEF Inums
<1>2. IsFiniteSet(Inums \X Names)
  BY <1>1, FS_Product
<1>3. Entries(i) \subseteq Inums \X Names /\ Subdirs(i) \subseteq Names
  BY DEF Entries, Subdirs
<1>4. NamesOf(i) = Cardinality(Entries(i)) + Cardinality(Subdirs(i))
  BY DEF NamesOf, Entries, Subdirs
<1> QED BY <1>1, <1>2, <1>3, <1>4, CardMost

LEMMA NamesNext == NamesParts'
BY NamesNow, PTL

\* What a name leads to has a link, and what has the name of a directory in it too.
LEMMA NamedHasLink ==
  ASSUME Typed, CountOK, DiskOK, NEW d \in Inums, NEW n \in Names, dir[d][n] # 0
  PROVE  /\ dir[d][n] \in Inums /\ dinode[dir[d][n]].nlink > 0
         /\ dinode[dir[d][n]].type # "free"
         /\ dinode[dir[d][n]].type = "dir" => dinode[d].nlink > 0
<1> DEFINE i == dir[d][n]
<1>1. i \in Inums
  BY DEF Typed, AllNames
<1>2. <<d, n>> \in Entries(i)
  BY DEF Entries
<1> HIDE DEF i
<1>3. Cardinality(Entries(i)) > 0
  BY <1>1, <1>2, NamesNow, FS_EmptySet DEF NamesParts
<1>4. \A s \in Inums : Owed(s) \in Nat /\ dinode[s].nlink \in Nat
  <2>1. Procs # {} => \A s \in Inums : Owed(s) \in Nat
    <3>1. ASSUME NEW p \in Procs, NEW s \in Inums PROVE Owed(s) \in Nat
      <4> DEFINE c == Cardinality({q \in Procs \ {p} : Owes(q, s)})
      <4>1. c \in Nat /\ Owed(s) = c + B(Owes(p, s))
        BY OwedSplit
      <4> HIDE DEF c
      <4>2. B(Owes(p, s)) \in Nat
        BY DEF B
      <4> QED BY <4>1, <4>2
    <3> QED BY <3>1
  <2>2. Procs = {} => \A s \in Inums : Owed(s) \in Nat
    BY FS_EmptySet DEF Owed
  <2> QED BY <2>1, <2>2 DEF Typed
<1>5. dinode[i].nlink > 0
  BY <1>1, <1>3, <1>4, NamesNow DEF NamesParts, CountOK
<1>6. ASSUME dinode[i].type = "dir" PROVE dinode[d].nlink > 0
  <2>1. n \in Subdirs(d)
    BY <1>6, <1>1 DEF Subdirs, i, Inums
  <2>2. Cardinality(Subdirs(d)) > 0
    BY <2>1, NamesNow, FS_EmptySet DEF NamesParts
  <2> QED BY <2>2, <1>4, NamesNow DEF NamesParts, CountOK
<1> QED BY <1>1, <1>5, <1>6 DEF i, DiskOK

\* Links keep ahead of names if no step takes more links away than names.
LEMMA KeepsCount ==
  ASSUME CountOK, Typed, Typed', NEW p \in Procs, OthersLocal(p),
         \A s \in Inums :
           NamesOf(s)' + B(Owes(p, s)') + dinode[s].nlink
             <= NamesOf(s) + B(Owes(p, s)) + dinode'[s].nlink
  PROVE  CountOK'
<1> SUFFICES ASSUME NEW s \in Inums
             PROVE  NamesOf(s)' + Owed(s)' + (IF s = Root THEN 1 ELSE 0) <= dinode'[s].nlink
  BY DEF CountOK, Root
<1>1. NamesOf(s) + Owed(s) + (IF s = Root THEN 1 ELSE 0) <= dinode[s].nlink
  BY DEF CountOK
<1>2. NamesOf(s) \in Nat /\ NamesOf(s)' \in Nat
  BY NamesNow, NamesNext DEF NamesParts
<1>3. dinode[s].nlink \in Nat /\ dinode'[s].nlink \in Nat
  BY DEF Typed
<1>4. B(Owes(p, s)) \in Nat /\ B(Owes(p, s)') \in Nat
  BY DEF B
<1> QED BY <1>1, <1>2, <1>3, <1>4, OwedStep DEF Root

\* A step that leaves the disk alone owes no more links.
LEMMA QuietCount ==
  ASSUME CountOK, Typed, Typed', NEW p \in Procs, OthersLocal(p), UNCHANGED disk,
         \A s \in Inums : Owes(p, s)' => Owes(p, s)
  PROVE  CountOK'
<1>1. \A s \in Inums : NamesOf(s)' = NamesOf(s) /\ dinode'[s].nlink = dinode[s].nlink
  BY DEF NamesOf, disk
<1>2. \A s \in Inums : NamesOf(s) \in Nat /\ dinode[s].nlink \in Nat
  BY NamesNow DEF NamesParts, Typed
<1>3. \A s \in Inums : B(Owes(p, s)') <= B(Owes(p, s)) /\ B(Owes(p, s)') \in Nat
                       /\ B(Owes(p, s)) \in Nat
  BY DEF B
<1> QED BY <1>1, <1>2, <1>3, KeepsCount
-----------------------------------------------------------------------------
(* What the others rely on.                                                *)

LEMMA KeepsTypes ==
  ASSUME IndInv, NEW p \in Procs, DiskStep(p), NEW q \in Procs \ {p}, NEW s \in Inums,
         Points(q, s), dinode[s].type # "free"
  PROVE  dinode'[s].type = dinode[s].type
<1>1. ~ (pc[p] = "itrunc" /\ drop[p] = s)
  BY RefAlone DEF IndInv, TruncOK
<1> QED BY <1>1 DEF DiskStep

LEMMA KeepsLive ==
  ASSUME IndInv, NEW p \in Procs, OthersLocal(p), DiskStep(p), NEW q \in Procs \ {p}
  PROVE  LiveOK(q)'
<1> USE DEF IndInv
<1>1. /\ pc'[q] = pc[q] /\ rest'[q] = rest[q]
      /\ cur'[q] = cur[q] /\ ip'[q] = ip[q] /\ drop'[q] = drop[q]
      /\ cwd'[q] = cwd[q] /\ file'[q] = file[q] /\ Where(q)' = Where(q)
  BY OthersKept DEF OthersLocal
<1>2. \A s \in {cur[q], ip[q], drop[q], cwd[q], file[q]} \ {0} : s \in Inums /\ Points(q, s)
  BY DEF Typed, Points
<1>3. /\ \A s \in {cur[q], ip[q], cwd[q], file[q]} \ {0} :
            dinode[s].type # "free" /\ dinode'[s].type = dinode[s].type
      /\ drop[q] # 0 /\ pc[q] # "freed" =>
            dinode[drop[q]].type # "free" /\ dinode'[drop[q]].type = dinode[drop[q]].type
  BY <1>2, KeepsTypes DEF LiveOK
<1>4. cwd[q] # 0 /\ (Where(q) \in DirPcs => cur[q] # 0)
  BY DEF PlaceOK, DirPcs
<1>5. ASSUME pc[q] \in {"victim", "unlink"}
      PROVE  \A n \in Names : dir'[cur[q]][n] = dir[cur[q]][n]
  <2>1. Where(q) = pc[q] /\ cur[q] # 0 /\ cur[q] \in Inums
    BY <1>5 DEF Where, Dropping, PlaceOK, CurPcs, Typed
  <2>2. Holds(q, cur[q])
    BY <1>5, <2>1 DEF Holds, CurLocked, CurPcs
  <2>3. ~ Holds(p, cur[q])
    BY <2>1, <2>2, HoldsAlone
  <2> QED BY <2>1, <2>3 DEF DiskStep
<1> HIDE DEF IndInv
<1>6. LiveOK(q)
  BY DEF IndInv
<1> QED BY <1>1, <1>3, <1>4, <1>5, <1>6 DEF LiveOK

LEMMA KeepsTrunc ==
  ASSUME IndInv, Typed', NEW p \in Procs, OthersLocal(p), DiskStep(p), RefsStep(p), MovesOK(p),
         NEW q \in Procs \ {p}
  PROVE  TruncOK(q)'
<1> USE DEF IndInv
<1> SUFFICES ASSUME pc[q] = "itrunc" PROVE icache'[drop[q]].ref = 1 /\ dinode'[drop[q]].nlink = 0
  BY DEF OthersLocal, TruncOK
<1>1. PICK s \in Inums : s = drop[q] /\ s # 0
  BY DEF Typed, PlaceOK, Dropping
<1>2. icache[s].ref = 1 /\ dinode[s].nlink = 0 /\ dinode[s].type # "free"
  BY <1>1 DEF TruncOK, LiveOK
<1>3. ~ Points(p, s)
  BY <1>1, <1>2, RefAlone
<1>4. s \notin {cur'[p], ip'[p], drop'[p], cwd'[p], file'[p]}
  BY <1>1, <1>2, <1>3 DEF MovesOK, Points
<1>5. Own(p, s) = 0 /\ Own(p, s)' = 0
  BY <1>3, <1>4 DEF Own, B, Points
<1>6. icache'[s].ref = 1
  BY <1>1, <1>2, <1>5 DEF RefsStep, Typed
<1>7. ~ Holds(p, s)
  <2>1. Holds(q, s)
    BY <1>1 DEF Holds
  <2> QED BY <1>1, <2>1, HoldsAlone
<1>8. dinode'[s] = dinode[s]
  BY <1>1, <1>2, <1>7 DEF DiskStep
<1> QED BY <1>1, <1>2, <1>6, <1>8

LEMMA KeepsNew ==
  ASSUME IndInv, NEW p \in Procs, OthersLocal(p), DiskStep(p), MovesOK(p),
         NEW q \in Procs \ {p}
  PROVE  NewOK(q)'
<1> USE DEF IndInv
<1> DEFINE i == ip[q]
<1>0. /\ pc'[q] = pc[q] /\ ip'[q] = ip[q] /\ cur'[q] = cur[q] /\ cwd'[q] = cwd[q]
      /\ file'[q] = file[q] /\ Made(q)' = Made(q)
  BY OthersKept DEF OthersLocal
<1> SUFFICES ASSUME pc[q] \in {"new", "fill"} PROVE NewOK(q)'
  BY <1>0 DEF NewOK
<1>1. i \in Inums /\ i # 0
  BY DEF Typed, PlaceOK, Where, Dropping, IpPcs, Inums
<1>2. /\ dinode[i] = [type |-> Made(q), nlink |-> 0]
      /\ i \notin {cur[q], cwd[q], file[q]}
      /\ \A n \in Names : dir[i][n] = 0
      /\ \A r \in Procs \ {q} : /\ i \notin {cur[r], ip[r], cwd[r], file[r]}
                                /\ drop[r] = i => pc[r] = "freed"
  BY DEF NewOK
<1>3. dinode[i].type # "free" /\ dinode[i].nlink = 0
  BY <1>2 DEF Made
<1>4. Holds(p, i) => pc[p] = "freed"
  BY <1>2 DEF Holds
<1>5. dinode'[i] = dinode[i] /\ \A n \in Names : dir'[i][n] = dir[i][n]
  BY <1>1, <1>3, <1>4 DEF DiskStep
<1>6. i \notin {cur'[p], ip'[p], cwd'[p], file'[p]} /\ drop'[p] # i
  BY <1>1, <1>2, <1>3 DEF MovesOK
<1>7. \A r \in Procs \ {p} : cur'[r] = cur[r] /\ ip'[r] = ip[r] /\ cwd'[r] = cwd[r]
                             /\ file'[r] = file[r] /\ drop'[r] = drop[r] /\ pc'[r] = pc[r]
  BY DEF OthersLocal
<1>8. \A r \in Procs \ {q} : /\ i \notin {cur'[r], ip'[r], cwd'[r], file'[r]}
                             /\ drop'[r] = i => pc'[r] = "freed"
  BY <1>2, <1>6, <1>7
<1> HIDE DEF IndInv
<1> QED BY <1>0, <1>2, <1>5, <1>8 DEF NewOK

\* A step that leaves the disk alone.
LEMMA QuietDisk ==
  ASSUME NEW p, UNCHANGED disk
  PROVE  DiskStep(p) /\ (DiskOK => DiskOK')
BY DEF disk, DiskStep, DiskOK, Acyclic

\* What a step of p has to keep.
LEMMA Assemble ==
  ASSUME IndInv, NEW p \in Procs, OthersLocal(p), Typed', RefsStep(p), LockStep(p), MovesOK(p),
         DiskStep(p), PlaceOK(p)', LiveOK(p)', TruncOK(p)', NewOK(p)', CopyOK', DiskOK', CountOK'
  PROVE  IndInv'
<1>1. \A q \in Procs : PlaceOK(q)'
  BY OthersKept DEF IndInv
<1>2. \A q \in Procs : LiveOK(q)'
  BY KeepsLive
<1>3. \A q \in Procs : TruncOK(q)' /\ NewOK(q)'
  BY KeepsTrunc, KeepsNew
<1>4. RefsCounted' /\ LockOK'
  BY KeepsRefs, KeepsLocks DEF IndInv
<1> QED BY <1>1, <1>2, <1>3, <1>4 DEF IndInv

\* What p does to the copies of inodes whose disk block it leaves alone.
SameCopy(s) ==
  /\ icache[s].valid /\ dinode'[s] = dinode[s]
  /\ icache'[s].type = icache[s].type /\ icache'[s].nlink = icache[s].nlink

CopyStep(p) ==
  \A s \in Inums :
    /\ icache'[s].valid => icache'[s].ref > 0
    /\ icache'[s].busy # NoProc => icache'[s].valid
    /\ icache'[s].valid =>
         \/ CopyOf(s)'
         \/ SameCopy(s) /\ ~ (pc[p] = "freed" /\ drop[p] = s)
         \/ \E q \in Procs \ {p} : drop[q] = s /\ pc[q] = "freed"

LEMMA KeepsCopy ==
  ASSUME CopyOK, NEW p \in Procs, OthersLocal(p), CopyStep(p)
  PROVE  CopyOK'
<1> SUFFICES ASSUME NEW s \in Inums, icache'[s].valid
             PROVE  CopyOf(s)' \/ BeingFreed(s)'
  BY DEF CopyOK, CopyStep
<1>1. CASE CopyOf(s)'
  BY <1>1
<1>2. CASE SameCopy(s) /\ ~ (pc[p] = "freed" /\ drop[p] = s)
  <2>1. CopyOf(s) \/ BeingFreed(s)
    BY <1>2 DEF SameCopy, CopyOK
  <2>2. CASE CopyOf(s)
    BY <1>2, <2>2 DEF SameCopy, CopyOf
  <2>3. CASE BeingFreed(s)
    <3>1. PICK q \in Procs : drop[q] = s /\ pc[q] = "freed"
      BY <2>3 DEF BeingFreed
    <3>2. drop'[q] = s /\ pc'[q] = "freed"
      BY <1>2, <3>1 DEF OthersLocal
    <3> QED BY <3>2 DEF BeingFreed
  <2> QED BY <2>1, <2>2, <2>3
<1>3. CASE \E q \in Procs \ {p} : drop[q] = s /\ pc[q] = "freed"
  BY <1>3 DEF BeingFreed, OthersLocal
<1> QED BY <1>1, <1>2, <1>3 DEF CopyStep

LEMMA RootLinked ==
  ASSUME IndInv, NEW p \in Procs
  PROVE  Root \in Inums /\ dinode[Root].nlink > 0 /\ dinode[Root].type # "free"
<1>1. Root \in Inums
  BY InodesAssumption DEF Root, Inums
<1>2. OthersLocal(p) => Owed(Root) \in Nat
  BY <1>1, OwedStep
<1>3. NamesOf(Root) \in Nat /\ dinode[Root].nlink \in Nat
  BY <1>1, NamesNow DEF NamesParts, IndInv, Typed
<1>4. Owed(Root) \in Nat
  <2>1. Owed(Root) = Cardinality({q \in Procs \ {p} : Owes(q, Root)}) + B(Owes(p, Root))
        /\ Cardinality({q \in Procs \ {p} : Owes(q, Root)}) \in Nat
    BY <1>1, OwedNow DEF OwedParts
  <2>2. B(Owes(p, Root)) \in Nat
    BY DEF B
  <2> QED BY <2>1, <2>2
<1>5. NamesOf(Root) + Owed(Root) + 1 <= dinode[Root].nlink
  BY <1>1 DEF IndInv, CountOK
<1>6. dinode[Root].nlink > 0
  BY <1>3, <1>4, <1>5
<1> QED BY <1>1, <1>6 DEF IndInv, DiskOK

\* Steps that leave the disk alone.
LEMMA QuietStep ==
  ASSUME IndInv, NEW p \in Procs, OthersLocal(p), UNCHANGED disk, Typed',
         RefsStep(p), LockStep(p), MovesOK(p), CopyStep(p),
         PlaceOK(p)', LiveOK(p)', TruncOK(p)', NewOK(p)',
         \A s \in Inums : Owes(p, s)' => Owes(p, s)
  PROVE  IndInv'
<1>1. DiskStep(p) /\ DiskOK'
  BY QuietDisk DEF IndInv
<1>2. CopyOK'
  BY KeepsCopy DEF IndInv
<1>3. CountOK'
  BY QuietCount DEF IndInv
<1> QED BY <1>1, <1>2, <1>3, Assemble

-----------------------------------------------------------------------------
(* The operations on the cache.                                            *)

Caches == [Inums -> [ref : Nat, busy : Procs \cup {NoProc}, valid : BOOLEAN,
                     type : Types, nlink : Nat]]

\* What stays of the entry c[s] in d.
SameBut(c, d, s) == d[s].valid = c[s].valid /\ d[s].type = c[s].type /\ d[s].nlink = c[s].nlink

LEMMA IgetIs ==
  ASSUME Typed, CopyOK, NEW i \in Inums
  PROVE  /\ Iget(i) \in Caches
         /\ \A s \in Inums : /\ Iget(i)[s].ref = icache[s].ref + B(s = i)
                             /\ Iget(i)[s].busy = icache[s].busy
                             /\ SameBut(icache, Iget(i), s)
         /\ Iget(i) = [icache EXCEPT ![i].ref = icache[i].ref + 1]
<1>1. \A s \in Inums : icache[s].valid => icache[s].ref > 0
  BY DEF CopyOK
<1>2. icache \in Caches
  BY DEF Typed, Caches
<1>3. Got(icache[i]) = [icache[i] EXCEPT !.ref = icache[i].ref + 1]
  <2>1. icache[i] \in [ref : Nat, busy : Procs \cup {NoProc}, valid : BOOLEAN,
                       type : Types, nlink : Nat]
    BY <1>2 DEF Caches
  <2>2. icache[i].valid \in BOOLEAN /\ (icache[i].valid => icache[i].ref > 0)
    BY <1>1, <2>1
  <2>3. CASE icache[i].valid = TRUE
    <3>1. (icache[i].valid /\ icache[i].ref > 0) = icache[i].valid
      BY <2>2, <2>3
    <3> QED BY <2>1, <3>1 DEF Got
  <2>4. CASE icache[i].valid = FALSE
    <3>1. (icache[i].valid /\ icache[i].ref > 0) = icache[i].valid
      BY <2>4
    <3> QED BY <2>1, <3>1 DEF Got
  <2> QED BY <2>2, <2>3, <2>4
<1>4. \A s \in Inums \ {i} : Iget(i)[s] = icache[s]
  BY <1>2 DEF Iget, Caches
<1>5. Iget(i)[i] = Got(icache[i])
  BY <1>2 DEF Iget, Caches
<1>6. Iget(i) \in Caches
  BY <1>2, <1>3 DEF Iget, Caches
<1>7. icache[i].ref \in Nat
  BY <1>2 DEF Caches
<1>8. Iget(i) = [icache EXCEPT ![i].ref = icache[i].ref + 1]
  BY <1>3 DEF Iget
<1> QED BY <1>2, <1>3, <1>4, <1>5, <1>6, <1>7, <1>8 DEF B, SameBut, Caches

LEMMA UnlockedIs ==
  ASSUME NEW c \in Caches, NEW i \in Inums
  PROVE  /\ Unlocked(c, i) \in Caches
         /\ \A s \in Inums : /\ Unlocked(c, i)[s].ref = c[s].ref
                             /\ Unlocked(c, i)[s].busy = IF s = i THEN NoProc ELSE c[s].busy
                             /\ SameBut(c, Unlocked(c, i), s)
BY DEF Unlocked, SameBut, Caches

LEMMA CountedIs ==
  ASSUME NEW c \in Caches, NEW i \in Inums, NEW d \in Int, c[i].nlink + d \in Nat
  PROVE  /\ Counted(c, i, d) \in Caches
         /\ \A s \in Inums : /\ Counted(c, i, d)[s].ref = c[s].ref
                             /\ Counted(c, i, d)[s].busy = c[s].busy
                             /\ Counted(c, i, d)[s].valid = c[s].valid
                             /\ Counted(c, i, d)[s].type = c[s].type
                             /\ Counted(c, i, d)[s].nlink = IF s = i THEN c[s].nlink + d
                                                           ELSE c[s].nlink
BY DEF Counted, Caches

LEMMA DroppedIs ==
  ASSUME NEW c \in Caches, NEW i \in Inums, c[i].ref > 0
  PROVE  /\ Dropped(c, i) \in Caches
         /\ \A s \in Inums \ {i} : Dropped(c, i)[s] = c[s]
         /\ Dropped(c, i)[i].ref = c[i].ref - 1
         /\ c[i].ref = 1 => Dropped(c, i)[i] = NoEntry
         /\ c[i].ref # 1 => Dropped(c, i)[i].busy = c[i].busy /\ SameBut(c, Dropped(c, i), i)
<1>1. NoEntry.ref = 0 /\ NoEntry \in [ref : Nat, busy : Procs \cup {NoProc}, valid : BOOLEAN,
                                      type : Types, nlink : Nat]
  BY DEF NoEntry, Types
<1>2. CASE c[i].ref = 1
  <2>1. Dropped(c, i) = [c EXCEPT ![i] = NoEntry]
    BY <1>2 DEF Dropped
  <2> QED BY <1>1, <1>2, <2>1 DEF Caches
<1>3. CASE c[i].ref # 1
  <2>1. Dropped(c, i) = [c EXCEPT ![i] = [c[i] EXCEPT !.ref = c[i].ref - 1]]
    BY <1>3 DEF Dropped
  <2>2. c[i].ref - 1 \in Nat
    BY DEF Caches
  <2> QED BY <1>3, <2>1, <2>2 DEF Caches, SameBut
<1> QED BY <1>2, <1>3

\* A step that takes references and clears I_BUSY.
LEMMA SameCopies ==
  ASSUME IndInv, Typed', NEW p \in Procs, UNCHANGED disk, pc[p] # "freed",
         \A s \in Inums : /\ SameBut(icache, icache', s) /\ icache'[s].ref >= icache[s].ref
                          /\ icache'[s].busy \in {icache[s].busy, NoProc}
  PROVE  CopyStep(p)
<1> SUFFICES ASSUME NEW s \in Inums
             PROVE  /\ icache'[s].valid => icache'[s].ref > 0
                    /\ icache'[s].busy # NoProc => icache'[s].valid
                    /\ icache'[s].valid => SameCopy(s)
  BY DEF CopyStep
<1>1. icache'[s].valid <=> icache[s].valid
  BY DEF SameBut
<1>2. icache'[s].valid => SameCopy(s)
  BY <1>1 DEF SameBut, SameCopy, disk
<1>3. icache[s].ref \in Nat /\ icache'[s].ref \in Nat /\ icache'[s].ref >= icache[s].ref
  BY DEF IndInv, Typed
<1>4. /\ icache[s].valid => icache[s].ref > 0
      /\ icache[s].busy # NoProc => icache[s].valid
  BY DEF IndInv, CopyOK
<1> QED BY <1>1, <1>2, <1>3, <1>4

\* No directory is in itself.
LEMMA NotInItself ==
  ASSUME Acyclic, NEW s \in Inums, NEW n \in Names
  PROVE  dir[s][n] # s
<1>1. {s} \in (SUBSET Inums) \ {{}}
  OBVIOUS
<1>2. PICK t \in {s} : \A m \in Names : dir[t][m] \notin {s}
  BY <1>1, Zenon DEF Acyclic
<1> QED BY <1>2

-----------------------------------------------------------------------------
(* Begin, NewName: a walk begins.                                          *)

\* The step that sets the call of p.
CallStep(p) ==
  /\ call' \in [Procs -> Calls \cup {NoCall}] /\ call'[p] \in Calls
  /\ \A q \in Procs \ {p} : call'[q] = call[q]

LEMMA FromStep ==
  ASSUME IndInv, NEW p \in Procs, NEW t, t.abs \in BOOLEAN, t.names \in Seq(Names) \ {<< >>},
         From(p, t), UNCHANGED <<disk, ret, ip, drop, cwd, file>>,
         \/ pc[p] = "idle" /\ CallStep(p)
         \/ pc[p] = "newname" /\ UNCHANGED call
  PROVE  IndInv'
<1>1. OthersLocal(p)
  BY DEF OthersLocal, From, Goto, IndInv, Typed, CallStep
<1>2. PICK r \in Inums : /\ r = IF t.abs THEN Root ELSE cwd[p]
                         /\ r = cwd[p] \/ dinode[r].nlink > 0
                         /\ dinode[r].type # "free"
  BY RootLinked DEF IndInv, LiveOK, PlaceOK, Typed
<1>3. /\ cur' = [cur EXCEPT ![p] = r] /\ pc' = [pc EXCEPT ![p] = "walk"]
      /\ rest' = [rest EXCEPT ![p] = t.names]
  BY <1>2 DEF From, Goto
<1>4. Where(p) = pc[p] /\ cur[p] = 0 /\ drop[p] = 0 /\ (pc[p] = "idle" => ip[p] = 0)
  BY DEF Where, Dropping, IndInv, PlaceOK, CurPcs, NoIpPcs
<1>5. /\ icache' \in Caches
      /\ \A s \in Inums : /\ icache'[s].ref = icache[s].ref + B(s = r)
                          /\ icache'[s].busy = icache[s].busy
                          /\ SameBut(icache, icache', s)
  <2>1. icache' = Iget(r)
    BY <1>2, IgetIs DEF From, IndInv
  <2> QED BY <2>1, IgetIs DEF IndInv
<1>6. /\ cur'[p] = r /\ ip'[p] = ip[p] /\ drop'[p] = drop[p] /\ cwd'[p] = cwd[p]
      /\ file'[p] = file[p] /\ pc'[p] = "walk" /\ rest'[p] = t.names /\ Where(p)' = "walk"
  BY <1>3 DEF IndInv, Typed, Where, Dropping
<1>7. Typed'
  BY <1>3, <1>5 DEF IndInv, Typed, Caches, Pcs, disk, CallStep
<1>8. RefsStep(p)
  <2>1. \A s \in Inums : Own(p, s)' = Own(p, s) + B(s = r)
    BY <1>4, <1>6 DEF Own, B, Inums
  <2>2. \A s \in Inums : icache[s].ref \in Nat /\ B(s = r) \in Nat
    BY DEF IndInv, Typed, B
  <2>3. \A s \in Inums : icache'[s].ref = icache[s].ref + B(s = r)
    BY <1>5
  <2>4. ASSUME NEW s \in Inums
        PROVE  icache'[s].ref + Own(p, s) = icache[s].ref + Own(p, s)'
    <3>1. Own(p, s) \in Nat /\ icache[s].ref \in Nat /\ B(s = r) \in Nat
      BY <2>2, OwnNat
    <3>2. Own(p, s)' = Own(p, s) + B(s = r) /\ icache'[s].ref = icache[s].ref + B(s = r)
      BY <2>1, <2>3
    <3> QED BY <3>1, <3>2
  <2> QED BY <2>4 DEF RefsStep
<1>9. LockStep(p)
  BY <1>4, <1>5, <1>6 DEF LockStep, Holds, CurLocked, CurPcs, IpLocked, IndInv, LockOK
<1>10. MovesOK(p)
  BY <1>2, <1>4, <1>6 DEF MovesOK
<1>11. CopyStep(p)
  <2>1. \A s \in Inums : icache'[s].ref >= icache[s].ref
    <3>1. \A s \in Inums : icache[s].ref \in Nat /\ B(s = r) \in Nat
      BY DEF B, IndInv, Typed
    <3> QED BY <1>5, <3>1
  <2> QED BY <1>4, <1>5, <1>7, <2>1, SameCopies DEF disk
<1>12. PlaceOK(p)'
  <2>1. call'[p] \in Calls /\ (ip[p] # 0 => call'[p].sys = "link")
    BY <1>4 DEF IndInv, PlaceOK, Dropping, IpPcs, LinkPcs, CallStep
  <2> QED BY <1>2, <1>4, <1>6, <2>1 DEF PlaceOK, Dropping, IndInv, CurPcs, IpPcs, NoIpPcs, LinkPcs, Inums
<1>13. LiveOK(p)'
  BY <1>2, <1>4, <1>6 DEF IndInv, LiveOK, disk, DirPcs, LinkPcs, Dropping
<1>14. TruncOK(p)' /\ NewOK(p)'
  BY <1>6 DEF TruncOK, NewOK
<1>15. \A s \in Inums : Owes(p, s)' => Owes(p, s)
  BY <1>4, <1>6 DEF Owes, OwePcs, LinkPcs, Inums
<1> QED BY <1>1, <1>7, <1>8, <1>9, <1>10, <1>11, <1>12, <1>13, <1>14, <1>15, QuietStep DEF disk

LEMMA BeginStep ==
  ASSUME NoDotDot, IndInv, NEW p \in Procs, NEW c \in Calls, Begin(p, c)
  PROVE  IndInv'
<1>1. PICK t : t = c.path
  OBVIOUS
<1>2. t.abs \in BOOLEAN /\ t.names \in Seq(Names) \ {<< >>}
  BY <1>1, InodesAssumption DEF NoDotDot
<1>3. From(p, t) /\ UNCHANGED <<disk, ret, ip, drop, cwd, file>>
  BY <1>1 DEF Begin
<1>4. pc[p] = "idle" /\ CallStep(p)
  BY DEF Begin, IndInv, Typed, CallStep
<1> QED BY <1>2, <1>3, <1>4, FromStep

LEMMA NewNameStep ==
  ASSUME NoDotDot, IndInv, NEW p \in Procs, NewName(p)
  PROVE  IndInv'
<1>1. call[p] \in Calls
  BY DEF NewName, IndInv, PlaceOK, Where, Dropping
<1>2. call[p].new.abs \in BOOLEAN /\ call[p].new.names \in Seq(Names) \ {<< >>}
  BY <1>1, InodesAssumption DEF NoDotDot
<1> QED BY <1>2, FromStep DEF NewName

-----------------------------------------------------------------------------
(* The ways out: iunlockput.                                               *)

LEMMA GiveUpStep ==
  ASSUME IndInv, NEW p \in Procs, NEW l, GiveUp(p, l),
         UNCHANGED <<disk, call, rest, ip, cwd, file>>,
         pc[p] \in {"look", "dirlink", "target", "giveup"},
         l \in {"idle", "bad"}, l = "idle" <=> ip[p] = 0
  PROVE  IndInv'
<1>1. OthersLocal(p)
  BY DEF OthersLocal, GiveUp, Iput, Goto, IndInv, Typed
<1>2. Where(p) = pc[p] /\ drop[p] = 0
  BY DEF Where, Dropping, IndInv, PlaceOK
<1>3. PICK r \in Inums : r = cur[p] /\ r # 0
  BY <1>2 DEF IndInv, PlaceOK, CurPcs, Typed
<1>4. /\ icache' \in Caches
      /\ \A s \in Inums : /\ icache'[s].ref = icache[s].ref
                          /\ icache'[s].busy = IF s = r THEN NoProc ELSE icache[s].busy
                          /\ SameBut(icache, icache', s)
  <2>1. icache \in Caches /\ icache' = Unlocked(icache, r)
    BY <1>3 DEF GiveUp, IndInv, Typed, Caches
  <2> QED BY <2>1, UnlockedIs
<1>5. /\ cur' = [cur EXCEPT ![p] = 0] /\ pc' = [pc EXCEPT ![p] = "put"]
      /\ drop' = [drop EXCEPT ![p] = r] /\ ret' = [ret EXCEPT ![p] = l]
  BY <1>3 DEF GiveUp, Iput, Goto
<1>6. /\ cur'[p] = 0 /\ ip'[p] = ip[p] /\ drop'[p] = r /\ cwd'[p] = cwd[p]
      /\ file'[p] = file[p] /\ pc'[p] = "put" /\ ret'[p] = l /\ call'[p] = call[p]
      /\ rest'[p] = rest[p] /\ Where(p)' = l
  BY <1>5 DEF IndInv, Typed, Where, Dropping
<1>7. Typed'
  BY <1>4, <1>5 DEF IndInv, Typed, Caches, Pcs, disk
<1>8. RefsStep(p)
  <2>1. \A s \in Inums : Own(p, s)' = Own(p, s)
    BY <1>2, <1>3, <1>6 DEF Own, B, Inums
  <2> QED BY <1>4, <2>1 DEF RefsStep
<1>9. LockStep(p)
  BY <1>2, <1>3, <1>4, <1>6 DEF LockStep, Holds, CurLocked, CurPcs, IpLocked, Inums
<1>10. MovesOK(p)
  BY <1>3, <1>6 DEF MovesOK
<1>11. CopyStep(p)
  <2>1. \A s \in Inums : icache'[s].ref >= icache[s].ref
    BY <1>4 DEF IndInv, Typed
  <2> QED BY <1>4, <1>7, <2>1, SameCopies DEF disk
<1>12. PlaceOK(p)'
  BY <1>2, <1>3, <1>6 DEF PlaceOK, Dropping, IndInv, CurPcs, IpPcs, NoIpPcs, LinkPcs, Returns
<1>13. LiveOK(p)'
  BY <1>2, <1>3, <1>6 DEF IndInv, LiveOK, PlaceOK, disk, DirPcs, CurPcs, LinkPcs, NoIpPcs, Dropping
<1>14. TruncOK(p)' /\ NewOK(p)'
  BY <1>6 DEF TruncOK, NewOK
<1>15. \A s \in Inums : Owes(p, s)' => Owes(p, s)
  BY <1>2, <1>6 DEF Owes, OwePcs, LinkPcs, Inums, IndInv, PlaceOK, NoIpPcs
<1> QED BY <1>1, <1>7, <1>8, <1>9, <1>10, <1>11, <1>12, <1>13, <1>14, <1>15, QuietStep DEF disk

LEMMA LeaveStep ==
  ASSUME IndInv, NEW p \in Procs, NEW l, Leave(p, l),
         UNCHANGED <<disk, call, rest, cur, cwd, file>>,
         \/ pc[p] \in {"open", "chdir", "link", "existed", "made"} /\ l = "idle"
         \/ pc[p] = "unlink" /\ l = "giveup"
  PROVE  IndInv'
<1>1. OthersLocal(p)
  BY DEF OthersLocal, Leave, Iput, Goto, IndInv, Typed
<1>2. Where(p) = pc[p] /\ drop[p] = 0
  BY DEF Where, Dropping, IndInv, PlaceOK
<1>3. PICK r \in Inums : r = ip[p] /\ r # 0
  BY <1>2 DEF IndInv, PlaceOK, IpPcs, Typed
<1>4. /\ icache' \in Caches
      /\ \A s \in Inums : /\ icache'[s].ref = icache[s].ref
                          /\ icache'[s].busy = IF s = r THEN NoProc ELSE icache[s].busy
                          /\ SameBut(icache, icache', s)
  <2>1. icache \in Caches /\ icache' = Unlocked(icache, r)
    BY <1>3 DEF Leave, IndInv, Typed, Caches
  <2> QED BY <2>1, UnlockedIs
<1>5. /\ ip' = [ip EXCEPT ![p] = 0] /\ pc' = [pc EXCEPT ![p] = "put"]
      /\ drop' = [drop EXCEPT ![p] = r] /\ ret' = [ret EXCEPT ![p] = l]
  BY <1>3 DEF Leave, Iput, Goto
<1>6. /\ cur'[p] = cur[p] /\ ip'[p] = 0 /\ drop'[p] = r /\ cwd'[p] = cwd[p]
      /\ file'[p] = file[p] /\ pc'[p] = "put" /\ ret'[p] = l /\ call'[p] = call[p]
      /\ rest'[p] = rest[p] /\ Where(p)' = l
  BY <1>5 DEF IndInv, Typed, Where, Dropping
<1>7. Typed'
  BY <1>4, <1>5 DEF IndInv, Typed, Caches, Pcs, disk
<1>8. RefsStep(p)
  <2>1. \A s \in Inums : Own(p, s)' = Own(p, s)
    BY <1>2, <1>3, <1>6 DEF Own, B, Inums
  <2> QED BY <1>4, <2>1 DEF RefsStep
<1>a. cur[p] # r
  <2>1. CASE pc[p] = "unlink"
    <3>1. Head(rest[p]) \in Names /\ dir[cur[p]][Head(rest[p])] = r
      BY <1>3, <2>1 DEF IndInv, LiveOK
    <3> QED BY <3>1, NotInItself DEF IndInv, DiskOK
  <2>2. CASE pc[p] # "unlink"
    BY <1>2, <1>3, <2>2 DEF IndInv, PlaceOK, CurPcs
  <2> QED BY <2>1, <2>2
<1>9. LockStep(p)
  BY <1>2, <1>3, <1>4, <1>6, <1>a DEF LockStep, Holds, CurLocked, CurPcs, IpLocked, Inums, IndInv, LockOK
<1>10. MovesOK(p)
  BY <1>3, <1>6 DEF MovesOK
<1>11. CopyStep(p)
  <2>1. \A s \in Inums : icache'[s].ref >= icache[s].ref
    BY <1>4 DEF IndInv, Typed
  <2> QED BY <1>4, <1>7, <2>1, SameCopies DEF disk
<1>12. PlaceOK(p)'
  BY <1>2, <1>3, <1>6 DEF PlaceOK, Dropping, IndInv, CurPcs, IpPcs, NoIpPcs, LinkPcs, Returns
<1>13. LiveOK(p)'
  BY <1>2, <1>3, <1>6 DEF IndInv, LiveOK, disk, DirPcs, CurPcs, LinkPcs, Dropping
<1>14. TruncOK(p)' /\ NewOK(p)'
  BY <1>6 DEF TruncOK, NewOK
<1>15. \A s \in Inums : Owes(p, s)' => Owes(p, s)
  BY <1>6 DEF Owes, Inums
<1> QED BY <1>1, <1>7, <1>8, <1>9, <1>10, <1>11, <1>12, <1>13, <1>14, <1>15, QuietStep DEF disk

LEMMA LookFailsStep ==
  ASSUME IndInv, NEW p \in Procs, LookFails(p)
  PROVE  IndInv'
<1>1. pc[p] = "look" /\ UNCHANGED <<disk, call, rest, ip, cwd, file>>
  BY DEF LookFails
<1>2. CASE ip[p] = 0
  <2>1. GiveUp(p, "idle")
    BY <1>2 DEF LookFails, Failed
  <2> QED BY <1>1, <1>2, <2>1, GiveUpStep
<1>3. CASE ip[p] # 0
  <2>1. GiveUp(p, "bad")
    BY <1>3 DEF LookFails, Failed
  <2> QED BY <1>1, <1>3, <2>1, GiveUpStep
<1> QED BY <1>2, <1>3

LEMMA BadStep ==
  ASSUME IndInv, NEW p \in Procs, Bad(p)
  PROVE  IndInv'
<1>1. ip[p] = 0
  BY DEF Bad, IndInv, PlaceOK, Where, Dropping, NoIpPcs
<1>2. /\ pc[p] = "giveup" /\ GiveUp(p, "idle")
      /\ UNCHANGED <<disk, call, rest, ip, cwd, file>>
  BY DEF Bad
<1> QED BY <1>1, <1>2, GiveUpStep

LEMMA OpenFailsStep ==
  ASSUME IndInv, NEW p \in Procs, OpenFails(p)
  PROVE  IndInv'
BY LeaveStep DEF OpenFails

LEMMA LinkDirStep ==
  ASSUME IndInv, NEW p \in Procs, LinkDir(p)
  PROVE  IndInv'
BY LeaveStep DEF LinkDir

LEMMA NotEmptyStep ==
  ASSUME IndInv, NEW p \in Procs, NotEmpty(p)
  PROVE  IndInv'
BY LeaveStep DEF NotEmpty

LEMMA MkdirStep ==
  ASSUME IndInv, NEW p \in Procs, Mkdir(p)
  PROVE  IndInv'
BY LeaveStep DEF Mkdir

-----------------------------------------------------------------------------
(* Lookup.                                                                 *)

\* A step that may unlock inodes, and takes a new reference to got, if that is not 0.
Lets(p, got) ==
  /\ icache' \in Caches
  /\ \A s \in Inums :
       /\ icache'[s].ref = icache[s].ref + B(s = got)
       /\ Own(p, s)' = Own(p, s) + B(s = got)
       /\ icache'[s].busy = IF Holds(p, s) /\ ~ Holds(p, s)' THEN NoProc ELSE icache[s].busy
       /\ Holds(p, s)' => Holds(p, s)
       /\ SameBut(icache, icache', s)

LEMMA LetsGo ==
  ASSUME IndInv, Typed', NEW p \in Procs, NEW got, UNCHANGED disk, pc[p] # "freed",
         Lets(p, got)
  PROVE  RefsStep(p) /\ LockStep(p) /\ CopyStep(p)
<1>1. \A s \in Inums : icache[s].ref \in Nat /\ B(s = got) \in Nat
  BY DEF IndInv, Typed, B
<1>2. RefsStep(p)
  <2>1. \A s \in Inums : /\ icache'[s].ref = icache[s].ref + B(s = got)
                         /\ Own(p, s)' = Own(p, s) + B(s = got)
    BY DEF Lets
  <2> QED BY <1>1, <2>1, OwnNat DEF RefsStep
<1>3. LockStep(p)
  BY DEF Lets, LockStep, IndInv, LockOK
<1>4. CopyStep(p)
  <2>1. \A s \in Inums : icache'[s].ref >= icache[s].ref
    BY <1>1 DEF Lets
  <2> QED BY <2>1, SameCopies DEF Lets
<1> QED BY <1>2, <1>3, <1>4

\* What p has locked is in the cache as it is on disk.
LEMMA LockedCopy ==
  ASSUME IndInv, NEW p \in Procs, NEW s \in Inums, Holds(p, s), pc[p] # "freed"
  PROVE  /\ icache[s].valid /\ icache[s].busy = p
         /\ dinode[s].type = icache[s].type /\ dinode[s].nlink = icache[s].nlink
<1>1. icache[s].busy = p /\ p # NoProc
  BY InodesAssumption DEF IndInv, LockOK
<1>2. icache[s].valid
  BY <1>1 DEF IndInv, CopyOK
<1>3. ~ BeingFreed(s)
  <2> SUFFICES ASSUME NEW q \in Procs, drop[q] = s, pc[q] = "freed" PROVE FALSE
    BY DEF BeingFreed
  <2>1. Holds(q, s)
    BY DEF Holds
  <2> QED BY <2>1, HoldsAlone DEF IndInv
<1>4. CopyOf(s)
  BY <1>2, <1>3 DEF IndInv, CopyOK
<1> QED BY <1>1, <1>2, <1>4 DEF CopyOf

\* What has been looked up.
LEMMA EntryIs ==
  ASSUME IndInv, NEW p \in Procs, rest[p] # << >>, cur[p] \in Inums, Entry(p) # 0
  PROVE  /\ Head(rest[p]) \in Names /\ Tail(rest[p]) \in Seq(Names)
         /\ Entry(p) \in Inums /\ dinode[Entry(p)].nlink > 0
         /\ dinode[Entry(p)].type # "free" /\ Entry(p) # cur[p]
         /\ Len(rest[p]) # 1 => Tail(rest[p]) # << >>
<1>1. PICK r \in Seq(Names) : r = rest[p] /\ r # << >>
  BY DEF IndInv, Typed
<1>2. Head(r) \in Names /\ Tail(r) \in Seq(Names) /\ (Len(r) # 1 => Tail(r) # << >>)
  <2>1. Head(r) \in Names /\ Tail(r) \in Seq(Names) /\ Len(Tail(r)) = Len(r) - 1
    BY <1>1, HeadTailProperties
  <2>2. Len(r) \in Nat /\ Len(r) # 0
    BY <1>1, EmptySeq
  <2>3. Len(r) # 1 => Len(Tail(r)) # 0
    BY <2>1, <2>2
  <2>4. Len(<< >>) = 0
    OBVIOUS
  <2> QED BY <2>1, <2>3, <2>4
<1>3. Entry(p) \in Inums /\ dinode[Entry(p)].nlink > 0 /\ dinode[Entry(p)].type # "free"
  BY <1>1, <1>2, NamedHasLink DEF Entry, IndInv
<1>4. Entry(p) # cur[p]
  BY <1>1, <1>2, NotInItself DEF Entry, IndInv, DiskOK
<1> QED BY <1>1, <1>2, <1>3, <1>4

LEMMA LookParentStep ==
  ASSUME IndInv, NEW p \in Procs, LookParent(p)
  PROVE  IndInv'
<1>1. OthersLocal(p)
  BY DEF OthersLocal, LookParent, Goto, refs, IndInv, Typed
<1>2. Where(p) = "look" /\ pc[p] = "look" /\ drop[p] = 0
  BY DEF LookParent, Where, Dropping, IndInv, PlaceOK
<1>3. PICK r \in Inums : r = cur[p] /\ r # 0
  BY <1>2 DEF IndInv, PlaceOK, CurPcs, Typed
<1>4. /\ icache' \in Caches
      /\ \A s \in Inums : /\ icache'[s].ref = icache[s].ref
                          /\ icache'[s].busy = IF s = r THEN NoProc ELSE icache[s].busy
                          /\ SameBut(icache, icache', s)
  <2>1. icache \in Caches /\ icache' = Unlocked(icache, r)
    BY <1>3 DEF LookParent, IndInv, Typed, Caches
  <2> QED BY <2>1, UnlockedIs
<1>5. pc' = [pc EXCEPT ![p] = "parent"] /\ UNCHANGED <<disk, ret, call, rest, refs>>
  BY DEF LookParent, Goto
<1>6. /\ cur'[p] = cur[p] /\ ip'[p] = ip[p] /\ drop'[p] = 0 /\ cwd'[p] = cwd[p]
      /\ file'[p] = file[p] /\ pc'[p] = "parent" /\ ret'[p] = ret[p] /\ call'[p] = call[p]
      /\ rest'[p] = rest[p] /\ Where(p)' = "parent"
  BY <1>2, <1>5 DEF IndInv, Typed, Where, Dropping, refs
<1>7. Typed'
  BY <1>4, <1>5 DEF IndInv, Typed, Caches, Pcs, disk, refs
<1>8. Lets(p, 0)
  <2>1. \A s \in Inums : Own(p, s)' = Own(p, s) + B(s = 0) /\ B(s = 0) = 0
    BY <1>2, <1>6 DEF Own, B, Inums
  <2>2. \A s \in Inums : icache[s].ref = icache[s].ref + B(s = 0)
    BY <2>1 DEF IndInv, Typed
  <2> QED BY <1>2, <1>3, <1>4, <1>6, <2>1, <2>2
      DEF Lets, Holds, CurLocked, CurPcs, IpLocked, Inums
<1>10. MovesOK(p)
  BY <1>6 DEF MovesOK
<1>11. dinode[cur[p]].type = "dir"
  <2>1. Holds(p, r)
    BY <1>2, <1>3 DEF Holds, CurLocked, CurPcs
  <2> QED BY <1>2, <1>3, <2>1, LockedCopy DEF LookParent, IsDir
<1>12. PlaceOK(p)'
  BY <1>2, <1>3, <1>6 DEF PlaceOK, Dropping, IndInv, CurPcs, IpPcs, NoIpPcs, LinkPcs, Returns,
     LookParent, Parent
<1>13. LiveOK(p)'
  <2>1. UNCHANGED disk
    BY <1>5
  <2> QED BY <1>2, <1>3, <1>6, <1>11, <2>1 DEF IndInv, LiveOK, disk, DirPcs, LinkPcs, Dropping
<1>14. TruncOK(p)' /\ NewOK(p)'
  BY <1>6 DEF TruncOK, NewOK
<1>15. \A s \in Inums : Owes(p, s)' => Owes(p, s)
  BY <1>2, <1>6 DEF Owes, OwePcs, LinkPcs, Inums, IndInv, PlaceOK, NoIpPcs
<1> QED BY <1>1, <1>5, <1>7, <1>2, <1>8, LetsGo, <1>10, <1>12, <1>13, <1>14, <1>15, QuietStep DEF disk

\* The cache after iget of e and iunlock of r.
LEMMA GotUnlocked ==
  ASSUME IndInv, NEW e \in Inums, NEW r \in Inums
  PROVE  /\ Unlocked(Iget(e), r) \in Caches
         /\ \A s \in Inums :
              /\ Unlocked(Iget(e), r)[s].ref = icache[s].ref + B(s = e)
              /\ Unlocked(Iget(e), r)[s].busy = IF s = r THEN NoProc ELSE icache[s].busy
              /\ SameBut(icache, Unlocked(Iget(e), r), s)
<1>1. PICK c \in Caches : c = Iget(e)
  BY IgetIs DEF IndInv
<1>2. \A s \in Inums : /\ c[s].ref = icache[s].ref + B(s = e) /\ c[s].busy = icache[s].busy
                       /\ SameBut(icache, c, s)
  BY <1>1, IgetIs DEF IndInv
<1>3. /\ Unlocked(c, r) \in Caches
      /\ \A s \in Inums : /\ Unlocked(c, r)[s].ref = c[s].ref
                          /\ Unlocked(c, r)[s].busy = IF s = r THEN NoProc ELSE c[s].busy
                          /\ SameBut(c, Unlocked(c, r), s)
  BY UnlockedIs
<1>4. \A s \in Inums : SameBut(icache, Unlocked(c, r), s)
  BY <1>2, <1>3 DEF SameBut
<1> QED BY <1>1, <1>2, <1>3, <1>4

LEMMA LookNextStep ==
  ASSUME IndInv, NEW p \in Procs, LookNext(p)
  PROVE  IndInv'
<1>1. OthersLocal(p)
  BY DEF OthersLocal, LookNext, Iput, Goto, IndInv, Typed
<1>2. /\ Where(p) = "look" /\ pc[p] = "look" /\ drop[p] = 0 /\ rest[p] # << >>
      /\ call[p] \in Calls
  BY DEF LookNext, Where, Dropping, IndInv, PlaceOK, CurPcs
<1>3. PICK r \in Inums : r = cur[p] /\ r # 0
  BY <1>2 DEF IndInv, PlaceOK, CurPcs, Typed
<1>4. PICK e \in Inums : /\ e = Entry(p) /\ e # r /\ e # 0
                         /\ dinode[e].nlink > 0 /\ dinode[e].type # "free"
  BY <1>2, <1>3, EntryIs DEF LookNext
<1>5. PICK t \in Seq(Names) : t = Tail(rest[p]) /\ (~ Last(p) => t # << >>)
  BY <1>2, <1>3, EntryIs DEF LookNext, Last
<1>6. /\ icache' \in Caches
      /\ \A s \in Inums : /\ icache'[s].ref = icache[s].ref + B(s = e)
                          /\ icache'[s].busy = IF s = r THEN NoProc ELSE icache[s].busy
                          /\ SameBut(icache, icache', s)
  <2>1. icache' = Unlocked(Iget(e), r)
    BY <1>3, <1>4 DEF LookNext
  <2> QED BY <2>1, GotUnlocked
<1>7. /\ pc' = [pc EXCEPT ![p] = "put"] /\ drop' = [drop EXCEPT ![p] = r]
      /\ rest' = [rest EXCEPT ![p] = t] /\ UNCHANGED <<disk, call, cwd, file>>
  BY <1>3, <1>5 DEF LookNext, Iput, Goto
<1>8. \/ /\ Last(p) /\ ~ Parent(p) /\ ret' = [ret EXCEPT ![p] = "found"]
         /\ ip' = [ip EXCEPT ![p] = e] /\ cur' = [cur EXCEPT ![p] = 0]
      \/ /\ ~ Last(p) /\ ret' = [ret EXCEPT ![p] = "walk"]
         /\ cur' = [cur EXCEPT ![p] = e] /\ UNCHANGED ip
  BY <1>3, <1>4 DEF LookNext, Iput
<1>9. /\ drop'[p] = r /\ cwd'[p] = cwd[p] /\ file'[p] = file[p] /\ pc'[p] = "put"
      /\ call'[p] = call[p] /\ rest'[p] = t /\ Where(p)' = ret'[p]
      /\ \/ ~ Parent(p) /\ cur'[p] = 0 /\ ip'[p] = e /\ ret'[p] = "found"
         \/ cur'[p] = e /\ ip'[p] = ip[p] /\ ret'[p] = "walk" /\ t # << >>
  <2>1. /\ drop'[p] = r /\ cwd'[p] = cwd[p] /\ file'[p] = file[p] /\ pc'[p] = "put"
        /\ call'[p] = call[p] /\ rest'[p] = t
    BY <1>7 DEF IndInv, Typed
  <2>2. Where(p)' = ret'[p]
    BY <2>1 DEF Where, Dropping
  <2>3. /\ ret \in [Procs -> Pcs] /\ cur \in [Procs -> Inums \cup {0}]
        /\ ip \in [Procs -> Inums \cup {0}]
    BY DEF IndInv, Typed
  <2>4. CASE Last(p)
    BY <1>8, <2>1, <2>2, <2>3, <2>4
  <2>5. CASE ~ Last(p)
    BY <1>5, <1>8, <2>1, <2>2, <2>3, <2>5
  <2> QED BY <2>4, <2>5
<1>10. Typed'
  <2>1. cur' \in [Procs -> Inums \cup {0}] /\ ip' \in [Procs -> Inums \cup {0}]
    <3>1. cur \in [Procs -> Inums \cup {0}] /\ ip \in [Procs -> Inums \cup {0}]
      BY DEF IndInv, Typed
    <3>2. CASE Last(p)
      BY <1>8, <3>1, <3>2
    <3>3. CASE ~ Last(p)
      BY <1>8, <3>1, <3>3
    <3> QED BY <3>2, <3>3
  <2>2. ret' \in [Procs -> Pcs]
    BY <1>8 DEF IndInv, Typed, Pcs
  <2>3. rest' \in [Procs -> Seq(Names)]
    BY <1>7 DEF IndInv, Typed
  <2> QED BY <1>6, <1>7, <2>1, <2>2, <2>3 DEF IndInv, Typed, Caches, Pcs, disk
<1>11. ~ Parent(p) => ip[p] = 0 /\ call[p].sys \in {"open", "chdir", "link"}
  BY <1>2, InodesAssumption DEF Parent
<1>12. Lets(p, e)
  <2>1. \A s \in Inums : Own(p, s)' = Own(p, s) + B(s = e)
    BY <1>2, <1>3, <1>4, <1>9, <1>11 DEF Own, B, Inums
  <2> QED BY <1>2, <1>3, <1>4, <1>6, <1>9, <2>1
      DEF Lets, Holds, CurLocked, CurPcs, IpLocked, Inums
<1>13. MovesOK(p)
  BY <1>3, <1>4, <1>9 DEF MovesOK
<1>14. PlaceOK(p)'
  BY <1>2, <1>3, <1>4, <1>9, <1>11 DEF PlaceOK, Dropping, IndInv, CurPcs, IpPcs, NoIpPcs, LinkPcs, Returns
<1>15. LiveOK(p)'
  <2>1. UNCHANGED disk
    BY <1>7
  <2> QED BY <1>2, <1>3, <1>4, <1>9, <2>1 DEF IndInv, LiveOK, disk, DirPcs, CurPcs, LinkPcs, Dropping
<1>16. TruncOK(p)' /\ NewOK(p)'
  BY <1>9 DEF TruncOK, NewOK
<1>17. \A s \in Inums : Owes(p, s)' => Owes(p, s)
  BY <1>2, <1>9 DEF Owes, OwePcs, LinkPcs, Inums
<1> QED BY <1>1, <1>7, <1>10, <1>2, <1>12, LetsGo, <1>13, <1>14, <1>15, <1>16, <1>17, QuietStep DEF disk

-----------------------------------------------------------------------------
(* open, close, chdir and the end of link.                                 *)

LEMMA OpenStep ==
  ASSUME IndInv, NEW p \in Procs, Open(p)
  PROVE  IndInv'
<1>1. OthersLocal(p)
  BY DEF OthersLocal, Open, Resume, Goto, IndInv, Typed
<1>2. /\ Where(p) = "open" /\ pc[p] = "open" /\ drop[p] = 0 /\ cur[p] = 0 /\ file[p] = 0
      /\ cwd[p] # 0
  BY DEF Open, Where, Dropping, IndInv, PlaceOK, CurPcs
<1>3. PICK r \in Inums : r = ip[p] /\ r # 0
  BY <1>2 DEF IndInv, PlaceOK, IpPcs, Typed
<1>4. /\ icache' \in Caches
      /\ \A s \in Inums : /\ icache'[s].ref = icache[s].ref
                          /\ icache'[s].busy = IF s = r THEN NoProc ELSE icache[s].busy
                          /\ SameBut(icache, icache', s)
  <2>1. icache \in Caches /\ icache' = Unlocked(icache, r)
    BY <1>3 DEF Open, IndInv, Typed, Caches
  <2> QED BY <2>1, UnlockedIs
<1>5. /\ ip' = [ip EXCEPT ![p] = 0] /\ pc' = [pc EXCEPT ![p] = "idle"]
      /\ file' = [file EXCEPT ![p] = r] /\ ret' = [ret EXCEPT ![p] = "idle"]
      /\ call' = [call EXCEPT ![p] = NoCall] /\ rest' = [rest EXCEPT ![p] = << >>]
      /\ UNCHANGED <<disk, cur, drop, cwd>>
  BY <1>3 DEF Open, Resume, Goto
<1>6. /\ cur'[p] = 0 /\ ip'[p] = 0 /\ drop'[p] = 0 /\ cwd'[p] = cwd[p]
      /\ file'[p] = r /\ pc'[p] = "idle" /\ Where(p)' = "idle"
  BY <1>2, <1>5 DEF IndInv, Typed, Where, Dropping
<1>7. Typed'
  BY <1>4, <1>5 DEF IndInv, Typed, Caches, Pcs, disk
<1>8. Lets(p, 0)
  <2>1. \A s \in Inums : Own(p, s)' = Own(p, s) + B(s = 0) /\ B(s = 0) = 0
    BY <1>2, <1>3, <1>6 DEF Own, B, Inums
  <2>2. \A s \in Inums : icache[s].ref = icache[s].ref + B(s = 0)
    BY <2>1 DEF IndInv, Typed
  <2> QED BY <1>2, <1>3, <1>4, <1>6, <2>1, <2>2
      DEF Lets, Holds, CurLocked, CurPcs, IpLocked, Inums
<1>9. MovesOK(p)
  BY <1>3, <1>6 DEF MovesOK
<1>10. PlaceOK(p)'
  BY <1>2, <1>6 DEF PlaceOK, Dropping, CurPcs, IpPcs, NoIpPcs, LinkPcs
<1>11. LiveOK(p)'
  <2>1. UNCHANGED disk
    BY <1>5
  <2> QED BY <1>3, <1>6, <2>1 DEF IndInv, LiveOK, disk, DirPcs, CurPcs, LinkPcs, Dropping
<1>12. TruncOK(p)' /\ NewOK(p)'
  BY <1>6 DEF TruncOK, NewOK
<1>13. \A s \in Inums : Owes(p, s)' => Owes(p, s)
  BY <1>6 DEF Owes, Inums
<1> QED BY <1>1, <1>5, <1>7, <1>2, <1>8, LetsGo, <1>9, <1>10, <1>11, <1>12, <1>13, QuietStep DEF disk

LEMMA CloseStep ==
  ASSUME IndInv, NEW p \in Procs, Close(p)
  PROVE  IndInv'
<1>1. OthersLocal(p)
  BY DEF OthersLocal, Close, Iput, Goto, IndInv, Typed
<1>2. /\ Where(p) = "idle" /\ pc[p] = "idle" /\ drop[p] = 0 /\ cur[p] = 0 /\ ip[p] = 0
      /\ cwd[p] # 0
  BY DEF Close, Where, Dropping, IndInv, PlaceOK, CurPcs, NoIpPcs
<1>3. PICK r \in Inums : r = file[p] /\ r # 0
  BY DEF Close, IndInv, Typed
<1>4. /\ file' = [file EXCEPT ![p] = 0] /\ pc' = [pc EXCEPT ![p] = "put"]
      /\ drop' = [drop EXCEPT ![p] = r] /\ ret' = [ret EXCEPT ![p] = "idle"]
      /\ UNCHANGED <<disk, icache, call, rest, cur, ip, cwd>>
  BY <1>3 DEF Close, Iput, Goto
<1>5. /\ cur'[p] = 0 /\ ip'[p] = 0 /\ drop'[p] = r /\ cwd'[p] = cwd[p]
      /\ file'[p] = 0 /\ pc'[p] = "put" /\ ret'[p] = "idle" /\ Where(p)' = "idle"
  BY <1>2, <1>4 DEF IndInv, Typed, Where, Dropping
<1>6. Typed'
  BY <1>4 DEF IndInv, Typed, Pcs, disk
<1>7. Lets(p, 0)
  <2>1. \A s \in Inums : Own(p, s)' = Own(p, s) + B(s = 0) /\ B(s = 0) = 0
    BY <1>2, <1>3, <1>5 DEF Own, B, Inums
  <2>2. \A s \in Inums : icache[s].ref = icache[s].ref + B(s = 0)
    BY <2>1 DEF IndInv, Typed
  <2>3. icache' \in Caches
    BY <1>6 DEF Typed, Caches
  <2> QED BY <1>2, <1>4, <1>5, <2>1, <2>2, <2>3
      DEF Lets, Holds, CurLocked, CurPcs, IpLocked, Inums, SameBut
<1>8. MovesOK(p)
  BY <1>3, <1>5 DEF MovesOK
<1>9. PlaceOK(p)'
  BY <1>2, <1>3, <1>5 DEF PlaceOK, Dropping, CurPcs, IpPcs, NoIpPcs, LinkPcs, Returns
<1>10. LiveOK(p)'
  <2>1. UNCHANGED disk
    BY <1>4
  <2> QED BY <1>3, <1>5, <2>1 DEF IndInv, LiveOK, disk, DirPcs, CurPcs, LinkPcs, Dropping
<1>11. TruncOK(p)' /\ NewOK(p)'
  BY <1>5 DEF TruncOK, NewOK
<1>12. \A s \in Inums : Owes(p, s)' => Owes(p, s)
  BY <1>5 DEF Owes, Inums
<1> QED BY <1>1, <1>4, <1>6, <1>2, <1>7, LetsGo, <1>8, <1>9, <1>10, <1>11, <1>12, QuietStep DEF disk

LEMMA LinkDoneStep ==
  ASSUME IndInv, NEW p \in Procs, LinkDone(p)
  PROVE  IndInv'
<1>1. OthersLocal(p)
  BY DEF OthersLocal, LinkDone, Iput, Goto, IndInv, Typed
<1>2. /\ Where(p) = "linked" /\ pc[p] = "linked" /\ drop[p] = 0 /\ cur[p] = 0 /\ cwd[p] # 0
  BY DEF LinkDone, Where, Dropping, IndInv, PlaceOK, CurPcs
<1>3. PICK r \in Inums : r = ip[p] /\ r # 0
  BY <1>2 DEF IndInv, Typed, PlaceOK, IpPcs
<1>4. /\ ip' = [ip EXCEPT ![p] = 0] /\ pc' = [pc EXCEPT ![p] = "put"]
      /\ drop' = [drop EXCEPT ![p] = r] /\ ret' = [ret EXCEPT ![p] = "idle"]
      /\ UNCHANGED <<disk, icache, call, rest, cur, file, cwd>>
  BY <1>3 DEF LinkDone, Iput, Goto
<1>5. /\ cur'[p] = 0 /\ ip'[p] = 0 /\ drop'[p] = r /\ cwd'[p] = cwd[p]
      /\ file'[p] = file[p] /\ pc'[p] = "put" /\ ret'[p] = "idle" /\ Where(p)' = "idle"
  BY <1>2, <1>4 DEF IndInv, Typed, Where, Dropping
<1>6. Typed'
  BY <1>4 DEF IndInv, Typed, Pcs, disk
<1>7. Lets(p, 0)
  <2>1. \A s \in Inums : Own(p, s)' = Own(p, s) + B(s = 0) /\ B(s = 0) = 0
    BY <1>2, <1>3, <1>5 DEF Own, B, Inums
  <2>2. \A s \in Inums : icache[s].ref = icache[s].ref + B(s = 0)
    BY <2>1 DEF IndInv, Typed
  <2>3. icache' \in Caches
    BY <1>6 DEF Typed, Caches
  <2> QED BY <1>2, <1>4, <1>5, <2>1, <2>2, <2>3
      DEF Lets, Holds, CurLocked, CurPcs, IpLocked, Inums, SameBut
<1>8. MovesOK(p)
  BY <1>3, <1>5 DEF MovesOK
<1>9. PlaceOK(p)'
  BY <1>2, <1>3, <1>5 DEF PlaceOK, Dropping, CurPcs, IpPcs, NoIpPcs, LinkPcs, Returns
<1>10. LiveOK(p)'
  <2>1. UNCHANGED disk
    BY <1>4
  <2> QED BY <1>3, <1>5, <2>1 DEF IndInv, LiveOK, disk, DirPcs, CurPcs, LinkPcs, Dropping
<1>11. TruncOK(p)' /\ NewOK(p)'
  BY <1>5 DEF TruncOK, NewOK
<1>12. \A s \in Inums : Owes(p, s)' => Owes(p, s)
  BY <1>5 DEF Owes, Inums
<1> QED BY <1>1, <1>4, <1>6, <1>2, <1>7, LetsGo, <1>8, <1>9, <1>10, <1>11, <1>12, QuietStep DEF disk

LEMMA ChdirStep ==
  ASSUME IndInv, NEW p \in Procs, Chdir(p)
  PROVE  IndInv'
<1>0. CASE ~ IsDir(ip[p])
  <2>1. Leave(p, "idle") /\ UNCHANGED <<disk, call, rest, cur, cwd, file>> /\ pc[p] = "chdir"
    BY <1>0 DEF Chdir
  <2> QED BY <2>1, LeaveStep
<1>a. CASE IsDir(ip[p])
  <2>1. OthersLocal(p)
    BY <1>a DEF OthersLocal, Chdir, Iput, Goto, IndInv, Typed
  <2>2. Where(p) = "chdir" /\ pc[p] = "chdir" /\ drop[p] = 0 /\ cur[p] = 0 /\ cwd[p] # 0
    BY DEF Chdir, Where, Dropping, IndInv, PlaceOK, CurPcs
  <2>3. PICK r \in Inums : r = ip[p] /\ r # 0
    BY <2>2 DEF IndInv, PlaceOK, IpPcs, Typed
  <2>d. PICK d \in Inums : d = cwd[p] /\ d # 0
    BY <2>2 DEF IndInv, Typed
  <2>4. /\ icache' \in Caches
        /\ \A s \in Inums : /\ icache'[s].ref = icache[s].ref
                            /\ icache'[s].busy = IF s = r THEN NoProc ELSE icache[s].busy
                            /\ SameBut(icache, icache', s)
    <3>1. icache \in Caches /\ icache' = Unlocked(icache, r)
      BY <1>a, <2>3 DEF Chdir, IndInv, Typed, Caches
    <3> QED BY <3>1, UnlockedIs
  <2>5. /\ ip' = [ip EXCEPT ![p] = 0] /\ pc' = [pc EXCEPT ![p] = "put"]
        /\ cwd' = [cwd EXCEPT ![p] = r] /\ ret' = [ret EXCEPT ![p] = "idle"]
        /\ drop' = [drop EXCEPT ![p] = d] /\ UNCHANGED <<disk, call, rest, cur, file>>
    BY <1>a, <2>3, <2>d DEF Chdir, Iput, Goto
  <2>6. /\ cur'[p] = 0 /\ ip'[p] = 0 /\ drop'[p] = d /\ cwd'[p] = r
        /\ file'[p] = file[p] /\ pc'[p] = "put" /\ ret'[p] = "idle" /\ Where(p)' = "idle"
    BY <2>2, <2>5 DEF IndInv, Typed, Where, Dropping
  <2>7. Typed'
    BY <2>4, <2>5 DEF IndInv, Typed, Caches, Pcs, disk
  <2>8. Lets(p, 0)
    <3>1. \A s \in Inums : Own(p, s)' = Own(p, s) + B(s = 0) /\ B(s = 0) = 0
      BY <2>2, <2>3, <2>d, <2>6 DEF Own, B, Inums
    <3>2. \A s \in Inums : icache[s].ref = icache[s].ref + B(s = 0)
      BY <3>1 DEF IndInv, Typed
    <3> QED BY <2>2, <2>3, <2>4, <2>6, <3>1, <3>2
        DEF Lets, Holds, CurLocked, CurPcs, IpLocked, Inums
  <2>9. MovesOK(p)
    BY <2>3, <2>d, <2>6 DEF MovesOK
  <2>10. PlaceOK(p)'
    BY <2>2, <2>3, <2>d, <2>6 DEF PlaceOK, Dropping, CurPcs, IpPcs, NoIpPcs, LinkPcs, Returns
  <2>11. dinode[r].type = "dir"
    <3>1. Holds(p, r)
      BY <2>2, <2>3 DEF Holds, IpLocked
    <3> QED BY <1>a, <2>2, <2>3, <3>1, LockedCopy DEF IsDir
  <2>12. LiveOK(p)'
    <3>1. UNCHANGED disk
      BY <2>5
    <3> QED BY <2>3, <2>d, <2>6, <2>11, <3>1 DEF IndInv, LiveOK, disk, DirPcs, CurPcs, LinkPcs, Dropping
  <2>13. TruncOK(p)' /\ NewOK(p)'
    BY <2>6 DEF TruncOK, NewOK
  <2>14. \A s \in Inums : Owes(p, s)' => Owes(p, s)
    BY <2>6 DEF Owes, Inums
  <2> QED BY <2>1, <2>5, <2>7, <2>2, <2>8, LetsGo, <2>9, <2>10, <2>12, <2>13, <2>14, QuietStep DEF disk
<1> QED BY <1>0, <1>a

-----------------------------------------------------------------------------
(* iput                                                                    *)

\* Nobody has locked the only reference that is left, in iput.
LEMMA LastIsFree ==
  ASSUME IndInv, NEW p \in Procs, NEW s \in Inums, drop[p] = s, icache[s].ref = 1,
         pc[p] = "put"
  PROVE  icache[s].busy = NoProc /\ ~ BeingFreed(s) /\ ~ Holds(p, s)
<1>1. /\ s \notin {cur[p], ip[p], cwd[p], file[p]}
      /\ \A q \in Procs \ {p} : ~ Points(q, s)
  BY RefAlone DEF IndInv
<1>2. \A q \in Procs : ~ Holds(q, s)
  BY <1>1 DEF Holds, Points
<1>3. icache[s].busy \in Procs \cup {NoProc}
  BY DEF IndInv, Typed
<1>4. ~ BeingFreed(s)
  BY <1>1 DEF BeingFreed, Points
<1> QED BY <1>2, <1>3, <1>4 DEF IndInv, LockOK

LEMMA LastPutStep ==
  ASSUME IndInv, NEW p \in Procs, Put(p), LastPut(drop[p])
  PROVE  IndInv'
<1>1. OthersLocal(p)
  BY DEF OthersLocal, Put, Goto, IndInv, Typed
<1>2. pc[p] = "put" /\ ret[p] \in Returns /\ Where(p) = ret[p]
  BY DEF Put, IndInv, PlaceOK, Where, Dropping
<1>3. PICK s \in Inums : s = drop[p] /\ s # 0
  BY <1>2 DEF IndInv, PlaceOK, Typed, Dropping
<1>4. /\ icache' = [icache EXCEPT ![s].busy = p] /\ pc' = [pc EXCEPT ![p] = "itrunc"]
      /\ UNCHANGED <<disk, ret, call, rest, cur, ip, drop, cwd, file>>
  BY <1>3 DEF Put, Goto
<1>5. icache[s].ref = 1 /\ icache[s].valid /\ icache[s].nlink = 0
  BY <1>3 DEF LastPut
<1>6. icache[s].busy = NoProc /\ ~ BeingFreed(s) /\ ~ Holds(p, s)
  BY <1>2, <1>3, <1>5, LastIsFree
<1>7. dinode[s].nlink = 0 /\ dinode[s].type = icache[s].type
  <2>1. CopyOf(s)
    BY <1>5, <1>6 DEF IndInv, CopyOK
  <2> QED BY <1>5, <2>1 DEF CopyOf
<1>8. /\ icache' \in Caches
      /\ \A t \in Inums : /\ icache'[t].ref = icache[t].ref
                          /\ icache'[t].busy = IF t = s THEN p ELSE icache[t].busy
                          /\ SameBut(icache, icache', t)
  <2>1. icache \in Caches
    BY DEF IndInv, Typed, Caches
  <2>2. icache' \in Caches
    BY <1>4, <2>1 DEF Caches
  <2>3. icache[s] \in [ref : Nat, busy : Procs \cup {NoProc}, valid : BOOLEAN,
                        type : Types, nlink : Nat]
    BY <2>1 DEF Caches
  <2>4. /\ icache'[s] = [icache[s] EXCEPT !.busy = p]
        /\ \A t \in Inums \ {s} : icache'[t] = icache[t]
    BY <1>4, <2>1 DEF Caches
  <2>5. /\ icache'[s].ref = icache[s].ref /\ icache'[s].busy = p
        /\ SameBut(icache, icache', s)
    BY <2>3, <2>4 DEF SameBut
  <2> QED BY <2>2, <2>4, <2>5 DEF SameBut
<1>9. /\ cur'[p] = cur[p] /\ ip'[p] = ip[p] /\ drop'[p] = s /\ cwd'[p] = cwd[p]
      /\ file'[p] = file[p] /\ pc'[p] = "itrunc" /\ ret'[p] = ret[p] /\ call'[p] = call[p]
      /\ rest'[p] = rest[p] /\ Where(p)' = ret[p]
  BY <1>3, <1>4 DEF IndInv, Typed, Where, Dropping
<1>10. Typed'
  BY <1>4, <1>8 DEF IndInv, Typed, Caches, Pcs, disk
<1>11. RefsStep(p)
  BY <1>3, <1>8, <1>9 DEF RefsStep, Own
<1>12. LockStep(p)
  <2>1. \A t \in Inums : Holds(p, t)' <=> (t = s \/ Holds(p, t))
    BY <1>2, <1>3, <1>9 DEF Holds
  <2> QED BY <1>6, <1>8, <2>1 DEF LockStep, IndInv, LockOK
<1>13. MovesOK(p)
  BY <1>2, <1>3, <1>9 DEF MovesOK
<1>14. CopyStep(p)
  <2> SUFFICES ASSUME NEW t \in Inums
               PROVE  /\ icache'[t].valid => icache'[t].ref > 0
                      /\ icache'[t].busy # NoProc => icache'[t].valid
                      /\ icache'[t].valid => SameCopy(t)
    BY <1>2 DEF CopyStep
  <2>1. icache'[t].valid <=> icache[t].valid
    BY <1>8 DEF SameBut
  <2>2. icache'[t].valid => SameCopy(t)
    BY <1>4, <1>8, <2>1 DEF SameBut, SameCopy, disk
  <2> QED BY <1>5, <1>8, <2>1, <2>2 DEF IndInv, CopyOK
<1>15. PlaceOK(p)'
  BY <1>2, <1>3, <1>9 DEF PlaceOK, Dropping, IndInv, CurPcs, IpPcs, NoIpPcs, LinkPcs, Returns, Parent
<1>16. LiveOK(p)'
  <2>1. UNCHANGED disk
    BY <1>4
  <2> QED BY <1>2, <1>3, <1>9, <2>1 DEF IndInv, LiveOK, disk, DirPcs, CurPcs, LinkPcs
<1>17. TruncOK(p)' /\ NewOK(p)'
  <2>1. icache'[s].ref = 1 /\ dinode'[s].nlink = 0
    BY <1>4, <1>5, <1>7, <1>8 DEF disk
  <2> QED BY <1>9, <2>1 DEF TruncOK, NewOK
<1>18. \A t \in Inums : Owes(p, t)' => Owes(p, t)
  BY <1>2, <1>9 DEF Owes
<1> QED BY <1>1, <1>4, <1>10, <1>11, <1>12, <1>13, <1>14, <1>15, <1>16, <1>17, <1>18, QuietStep DEF disk

\* iput is over.
LEMMA ResumeStep ==
  ASSUME IndInv, NEW p \in Procs, NEW s \in Inums, drop[p] = s, pc[p] \in {"put", "freed"},
         drop' = [drop EXCEPT ![p] = 0], Resume(p, ret[p]),
         UNCHANGED <<disk, cur, ip, cwd, file>>, icache' \in Caches,
         \A t \in Inums \ {s} : icache'[t] = icache[t],
         icache'[s].ref = icache[s].ref - 1,
         icache'[s].busy = IF pc[p] = "freed" THEN NoProc ELSE icache[s].busy,
         icache'[s].valid => pc[p] = "put" /\ SameBut(icache, icache', s) /\ icache'[s].ref > 0,
         icache'[s].busy # NoProc => icache'[s].valid
  PROVE  IndInv'
<1>1. OthersLocal(p)
  BY DEF OthersLocal, Resume, Goto, IndInv, Typed
<1>2. /\ ret[p] \in Returns /\ Where(p) = ret[p] /\ s # 0 /\ s \in Inums
      /\ pc[p] = "freed" => s \notin {cur[p], ip[p], cwd[p], file[p]}
  BY DEF IndInv, PlaceOK, Where, Dropping, Inums
<1>3. /\ cur'[p] = cur[p] /\ ip'[p] = ip[p] /\ drop'[p] = 0 /\ cwd'[p] = cwd[p]
      /\ file'[p] = file[p] /\ pc'[p] = ret[p] /\ Where(p)' = ret[p]
  BY <1>2 DEF IndInv, Typed, Where, Dropping, Returns, Resume, Goto
<1>4. ret[p] # "idle" => call'[p] = call[p] /\ rest'[p] = rest[p]
  BY DEF IndInv, Typed, Resume
<1>5. Typed'
  <2>1. /\ pc' \in [Procs -> Pcs] /\ ret' \in [Procs -> Pcs]
        /\ drop' \in [Procs -> Inums \cup {0}]
    BY <1>2 DEF IndInv, Typed, Resume, Goto, Returns, Pcs
  <2>2. call' \in [Procs -> Calls \cup {NoCall}]
    BY DEF IndInv, Typed, Resume
  <2>3. rest' \in [Procs -> Seq(Names)]
    BY DEF IndInv, Typed, Resume
  <2> QED BY <2>1, <2>2, <2>3 DEF IndInv, Typed, Caches, disk
<1>6. RefsStep(p)
  <2>1. \A t \in Inums : Own(p, t) = Own(p, t)' + B(t = s) /\ B(t = s) \in 0..1
    BY <1>2, <1>3 DEF Own, B, Inums
  <2>2. \A t \in Inums : icache'[t].ref = icache[t].ref - B(t = s)
    <3>1. \A t \in Inums : icache[t].ref \in Nat
      BY DEF IndInv, Typed
    <3> QED BY <3>1 DEF B
  <2>3. \A t \in Inums : icache[t].ref \in Nat
    BY DEF IndInv, Typed
  <2> QED BY <2>1, <2>2, <2>3, OwnNatNext DEF RefsStep
<1>7. LockStep(p)
  <2>1. \A t \in Inums : Holds(p, t)' <=> (Holds(p, t) /\ ~ (t = s /\ pc[p] = "freed"))
    BY <1>2, <1>3 DEF Holds, Inums
  <2>2. pc[p] = "freed" => Holds(p, s)
    BY DEF Holds
  <2> QED BY <2>1, <2>2 DEF LockStep, IndInv, LockOK
<1>8. MovesOK(p)
  BY <1>3 DEF MovesOK
<1>9. CopyStep(p)
  <2> SUFFICES ASSUME NEW t \in Inums
               PROVE  /\ icache'[t].valid => icache'[t].ref > 0
                      /\ icache'[t].busy # NoProc => icache'[t].valid
                      /\ icache'[t].valid => SameCopy(t) /\ ~ (pc[p] = "freed" /\ drop[p] = t)
    BY DEF CopyStep
  <2>1. CASE t = s
    BY <2>1 DEF SameCopy, SameBut, disk
  <2>2. CASE t # s
    <3>1. icache'[t] = icache[t] /\ dinode' = dinode
      BY <2>2 DEF disk
    <3> QED BY <2>2, <3>1 DEF SameCopy, IndInv, CopyOK
  <2> QED BY <2>1, <2>2
<1>10. PlaceOK(p)'
  BY <1>2, <1>3, <1>4 DEF PlaceOK, Dropping, IndInv, CurPcs, IpPcs, NoIpPcs, LinkPcs, Returns, Parent
<1>11. LiveOK(p)'
  <2>1. UNCHANGED disk
    OBVIOUS
  <2> QED BY <1>2, <1>3, <2>1 DEF IndInv, LiveOK, disk, DirPcs, CurPcs, LinkPcs, Returns, Dropping
<1>12. TruncOK(p)' /\ NewOK(p)'
  BY <1>2, <1>3 DEF TruncOK, NewOK, Returns
<1>13. \A t \in Inums : Owes(p, t)' => Owes(p, t)
  BY <1>2, <1>3 DEF Owes
<1> QED BY <1>1, <1>5, <1>6, <1>7, <1>8, <1>9, <1>10, <1>11, <1>12, <1>13, QuietStep

LEMMA PutStep ==
  ASSUME IndInv, NEW p \in Procs, Put(p)
  PROVE  IndInv'
<1>1. CASE LastPut(drop[p])
  BY <1>1, LastPutStep
<1>2. CASE ~ LastPut(drop[p])
  <2>1. PICK s \in Inums : s = drop[p] /\ s # 0
    BY DEF Put, IndInv, PlaceOK, Typed, Dropping
  <2>2. /\ icache' = Dropped(icache, s) /\ Resume(p, ret[p]) /\ pc[p] = "put"
        /\ drop' = [drop EXCEPT ![p] = 0] /\ UNCHANGED <<disk, cur, ip, cwd, file>>
    BY <1>2, <2>1 DEF Put
  <2>3. icache \in Caches /\ icache[s].ref \in Nat /\ icache[s].ref > 0
    <3>1. Points(p, s)
      BY <2>1 DEF Points
    <3> QED BY <3>1, RefsAtLeast DEF IndInv, Typed, Caches
  <2>4. /\ icache' \in Caches /\ icache'[s].ref = icache[s].ref - 1
        /\ \A t \in Inums \ {s} : icache'[t] = icache[t]
        /\ icache[s].ref = 1 => icache'[s] = NoEntry
        /\ icache[s].ref # 1 => icache'[s].busy = icache[s].busy /\ SameBut(icache, icache', s)
    BY <2>2, <2>3, DroppedIs
  <2>5. /\ icache'[s].busy = icache[s].busy
        /\ icache'[s].valid => SameBut(icache, icache', s) /\ icache'[s].ref > 0
        /\ icache'[s].busy # NoProc => icache'[s].valid
    <3>1. CASE icache[s].ref = 1
      BY <2>1, <2>2, <2>4, <3>1, LastIsFree DEF NoEntry
    <3>2. CASE icache[s].ref # 1
      BY <2>3, <2>4, <3>2 DEF IndInv, CopyOK, SameBut
    <3> QED BY <3>1, <3>2
  <2> QED BY <2>1, <2>2, <2>4, <2>5, ResumeStep
<1> QED BY <1>1, <1>2

LEMMA FreedStep ==
  ASSUME IndInv, NEW p \in Procs, Freed(p)
  PROVE  IndInv'
<1>1. PICK s \in Inums : s = drop[p] /\ s # 0
  BY DEF Freed, IndInv, PlaceOK, Typed, Dropping
<1> DEFINE c == [icache EXCEPT ![s].busy = NoProc, ![s].valid = FALSE]
<1>2. /\ icache' = Dropped(c, s) /\ Resume(p, ret[p]) /\ pc[p] = "freed"
      /\ drop' = [drop EXCEPT ![p] = 0] /\ UNCHANGED <<disk, cur, ip, cwd, file>>
  BY <1>1 DEF Freed
<1>3. /\ c \in Caches /\ c[s].ref = icache[s].ref /\ c[s].busy = NoProc /\ ~ c[s].valid
      /\ \A t \in Inums \ {s} : c[t] = icache[t]
  <2>1. icache \in Caches
    BY DEF IndInv, Typed, Caches
  <2>2. c \in Caches
    BY <2>1 DEF Caches
  <2>3. icache[s] \in [ref : Nat, busy : Procs \cup {NoProc}, valid : BOOLEAN,
                        type : Types, nlink : Nat]
    BY <2>1 DEF Caches
  <2>4. /\ c[s] = [icache[s] EXCEPT !.busy = NoProc, !.valid = FALSE]
        /\ \A t \in Inums \ {s} : c[t] = icache[t]
    BY <2>1 DEF Caches
  <2> HIDE DEF c
  <2>5. c[s].ref = icache[s].ref /\ c[s].busy = NoProc /\ ~ c[s].valid
    BY <2>3, <2>4
  <2> QED BY <2>2, <2>4, <2>5
<1> HIDE DEF c
<1>4. c[s].ref > 0
  <2>1. Points(p, s)
    BY <1>1 DEF Points
  <2> QED BY <1>3, <2>1, RefsAtLeast DEF IndInv
<1>5. /\ icache' \in Caches /\ icache'[s].ref = icache[s].ref - 1
      /\ \A t \in Inums \ {s} : icache'[t] = icache[t]
      /\ icache'[s].busy = NoProc /\ ~ icache'[s].valid
  BY <1>2, <1>3, <1>4, DroppedIs DEF NoEntry, SameBut
<1> QED BY <1>1, <1>2, <1>5, ResumeStep

-----------------------------------------------------------------------------
(* ilock                                                                   *)

LEMMA LockPlaces ==
  ASSUME NEW p
  PROVE  /\ DOMAIN WithCur(p) = {"walk", "parent"}
         /\ DOMAIN WithIp(p) = {"found", "bad", "victim", "exists", "new"}
         /\ WithCur(p)["walk"] = "look"
         /\ WithCur(p)["parent"] = CASE call[p].sys = "link" -> "dirlink"
                                     [] call[p].sys = "unlink" -> "target"
                                     [] OTHER -> "create"
         /\ WithIp(p)["found"] = call[p].sys /\ WithIp(p)["bad"] = "undo"
         /\ WithIp(p)["victim"] = "unlink" /\ WithIp(p)["exists"] = "existed"
         /\ WithIp(p)["new"] = "fill"
BY DEF WithCur, WithIp

LEMMA IlockIs ==
  ASSUME IndInv, NEW p \in Procs, NEW r \in Inums, Ilock(p, r), UNCHANGED disk, Points(p, r),
         pc[p] # "freed"
  PROVE  /\ icache' \in Caches /\ icache[r].busy = NoProc /\ CopyStep(p)
         /\ \A s \in Inums : /\ icache'[s].ref = icache[s].ref
                             /\ icache'[s].busy = IF s = r THEN p ELSE icache[s].busy
<1>1. /\ icache \in Caches /\ dinode[r] \in [type : Types, nlink : Nat]
      /\ icache[r].busy = NoProc
  BY DEF IndInv, Typed, Caches, Ilock
<1>2. icache[r].ref > 0
  BY RefsAtLeast DEF IndInv
<1>3. CASE icache[r].valid
  <2>1. icache' = [icache EXCEPT ![r].busy = p]
    BY <1>3 DEF Ilock
  <2>2. /\ icache' \in Caches
        /\ \A s \in Inums : /\ icache'[s].ref = icache[s].ref
                            /\ icache'[s].busy = IF s = r THEN p ELSE icache[s].busy
                            /\ SameBut(icache, icache', s)
    BY <1>1, <2>1 DEF Caches, SameBut
  <2>3. CopyStep(p)
    <3> SUFFICES ASSUME NEW s \in Inums
                 PROVE  /\ icache'[s].valid => icache'[s].ref > 0
                        /\ icache'[s].busy # NoProc => icache'[s].valid
                        /\ icache'[s].valid => SameCopy(s)
      BY DEF CopyStep
    <3>1. icache'[s].valid <=> icache[s].valid
      BY <2>2 DEF SameBut
    <3>2. icache'[s].valid => SameCopy(s)
      BY <2>2, <3>1 DEF SameBut, SameCopy, disk
    <3> QED BY <1>3, <2>2, <3>1, <3>2 DEF IndInv, CopyOK
  <2> QED BY <1>1, <2>2, <2>3
<1>4. CASE ~ icache[r].valid
  <2>1. icache' = [icache EXCEPT ![r].busy = p, ![r].valid = TRUE,
                                 ![r].type = dinode[r].type, ![r].nlink = dinode[r].nlink]
    BY <1>4 DEF Ilock
  <2>2. /\ icache' \in Caches
        /\ icache'[r].ref = icache[r].ref /\ icache'[r].busy = p /\ icache'[r].valid
        /\ icache'[r].type = dinode[r].type /\ icache'[r].nlink = dinode[r].nlink
        /\ \A s \in Inums \ {r} : icache'[s] = icache[s]
    <3> DEFINE e == [icache[r] EXCEPT !.busy = p, !.valid = TRUE,
                                     !.type = dinode[r].type, !.nlink = dinode[r].nlink]
    <3>1. icache' \in Caches
      <4>1. e \in [ref : Nat, busy : Procs \cup {NoProc}, valid : BOOLEAN,
                        type : Types, nlink : Nat]
        BY <1>1 DEF Caches
      <4>2. icache' = [icache EXCEPT ![r] = e]
        BY <2>1
      <4> HIDE DEF e
      <4> QED BY <1>1, <4>1, <4>2 DEF Caches
    <3>2. icache[r] \in [ref : Nat, busy : Procs \cup {NoProc}, valid : BOOLEAN,
                        type : Types, nlink : Nat]
      BY <1>1 DEF Caches
    <3>3. /\ icache'[r] = [icache[r] EXCEPT !.busy = p, !.valid = TRUE,
                                           !.type = dinode[r].type, !.nlink = dinode[r].nlink]
          /\ \A s \in Inums \ {r} : icache'[s] = icache[s]
      BY <1>1, <2>1 DEF Caches
    <3>4. /\ icache'[r].ref = icache[r].ref /\ icache'[r].busy = p /\ icache'[r].valid
          /\ icache'[r].type = dinode[r].type /\ icache'[r].nlink = dinode[r].nlink
      BY <3>2, <3>3
    <3> QED BY <3>1, <3>3, <3>4
  <2>3. CopyOf(r)'
    <3>1. dinode'[r] = [type |-> dinode[r].type, nlink |-> dinode[r].nlink]
      BY <1>1 DEF disk
    <3> QED BY <2>2, <3>1 DEF CopyOf
  <2>4. CopyStep(p)
    <3> SUFFICES ASSUME NEW s \in Inums
                 PROVE  /\ icache'[s].valid => icache'[s].ref > 0
                        /\ icache'[s].busy # NoProc => icache'[s].valid
                        /\ icache'[s].valid => CopyOf(s)' \/ SameCopy(s)
      BY DEF CopyStep
    <3>1. CASE s = r
      BY <1>2, <2>2, <2>3, <3>1
    <3>2. CASE s # r
      <4>1. icache'[s] = icache[s] /\ dinode' = dinode
        BY <2>2, <3>2 DEF disk
      <4> QED BY <4>1 DEF SameCopy, IndInv, CopyOK
    <3> QED BY <3>1, <3>2
  <2> QED BY <1>1, <2>2, <2>4
<1> QED BY <1>3, <1>4

LEMMA LockCurStep ==
  ASSUME IndInv, NEW p \in Procs, LockCur(p)
  PROVE  IndInv'
<1>1. OthersLocal(p)
  BY DEF OthersLocal, LockCur, Goto, refs, IndInv, Typed
<1>2. /\ pc[p] \in {"walk", "parent"} /\ Where(p) = pc[p] /\ drop[p] = 0
      /\ call[p] \in Calls /\ cwd[p] # 0 /\ rest[p] # << >>
  BY LockPlaces DEF LockCur, Where, Dropping, IndInv, PlaceOK, CurPcs
<1>3. PICK r \in Inums : r = cur[p] /\ r # 0
  BY <1>2 DEF IndInv, PlaceOK, CurPcs, Typed
<1>4. /\ icache' \in Caches /\ icache[r].busy = NoProc /\ CopyStep(p)
      /\ \A s \in Inums : /\ icache'[s].ref = icache[s].ref
                          /\ icache'[s].busy = IF s = r THEN p ELSE icache[s].busy
  <2>1. Ilock(p, r) /\ UNCHANGED disk /\ Points(p, r) /\ pc[p] # "freed"
    BY <1>2, <1>3 DEF LockCur, Points
  <2> QED BY <2>1, IlockIs
<1>5. PICK l \in {"look", "dirlink", "target", "create"} :
        /\ pc' = [pc EXCEPT ![p] = l]
        /\ l = "look" <=> pc[p] = "walk"
        /\ l = "dirlink" => call[p].sys = "link"
        /\ l = "target" => call[p].sys = "unlink"
        /\ l = "create" => call[p].sys \notin {"link", "unlink"}
  <2>1. pc' = [pc EXCEPT ![p] = WithCur(p)[pc[p]]]
    BY DEF LockCur, Goto
  <2>2. CASE pc[p] = "walk"
    BY <2>1, <2>2, LockPlaces
  <2>3. CASE pc[p] = "parent"
    <3>1. CASE call[p].sys = "link"
      BY <2>1, <2>3, <3>1, LockPlaces
    <3>2. CASE call[p].sys = "unlink"
      BY <2>1, <2>3, <3>2, LockPlaces
    <3>3. CASE call[p].sys \notin {"link", "unlink"}
      BY <2>1, <2>3, <3>3, LockPlaces
    <3> QED BY <3>1, <3>2, <3>3
  <2> QED BY <1>2, <2>2, <2>3
<1>6. UNCHANGED <<disk, ret, call, rest, cur, ip, drop, cwd, file>>
  BY DEF LockCur, refs
<1>7. /\ cur'[p] = r /\ ip'[p] = ip[p] /\ drop'[p] = 0 /\ cwd'[p] = cwd[p]
      /\ file'[p] = file[p] /\ pc'[p] = l /\ call'[p] = call[p]
      /\ rest'[p] = rest[p] /\ Where(p)' = l
  BY <1>2, <1>3, <1>5, <1>6 DEF IndInv, Typed, Where, Dropping
<1>8. Typed'
  BY <1>4, <1>5, <1>6 DEF IndInv, Typed, Caches, Pcs, disk
<1>9. RefsStep(p)
  BY <1>2, <1>3, <1>4, <1>7 DEF RefsStep, Own
<1>10. LockStep(p)
  <2>1. \A t \in Inums : ~ Holds(p, t) /\ (Holds(p, t)' <=> t = r)
    BY <1>2, <1>3, <1>7 DEF Holds, CurLocked, CurPcs, IpLocked, Inums
  <2> QED BY <1>4, <2>1 DEF LockStep
<1>11. MovesOK(p)
  BY <1>3, <1>7 DEF MovesOK
<1>12. /\ Parent(p) => pc[p] = "walk" \/ ip[p] # 0 \/ Creates(call[p]) \/ call[p].sys = "unlink"
       /\ l # "look" => Parent(p) /\ (ip[p] # 0 <=> l = "dirlink")
       /\ l = "create" => Creates(call[p])
  BY <1>2, <1>5 DEF IndInv, PlaceOK, Parent, Creates, LinkPcs
<1>13. PlaceOK(p)'
  BY <1>2, <1>3, <1>5, <1>7, <1>12 DEF PlaceOK, Dropping, IndInv, CurPcs, IpPcs, NoIpPcs, LinkPcs, Returns
<1>14. LiveOK(p)'
  <2>1. UNCHANGED disk
    BY <1>6
  <2> QED BY <1>2, <1>3, <1>5, <1>7, <2>1 DEF IndInv, LiveOK, disk, DirPcs, CurPcs, LinkPcs
<1>15. TruncOK(p)' /\ NewOK(p)'
  BY <1>5, <1>7 DEF TruncOK, NewOK
<1>16. \A t \in Inums : Owes(p, t)' => Owes(p, t)
  BY <1>2, <1>5, <1>7 DEF Owes, OwePcs, LinkPcs
<1> QED BY <1>1, <1>4, <1>6, <1>8, <1>9, <1>10, <1>11, <1>13, <1>14, <1>15, <1>16, QuietStep DEF disk

LEMMA LockIpStep ==
  ASSUME IndInv, NEW p \in Procs, LockIp(p)
  PROVE  IndInv'
<1>1. OthersLocal(p)
  BY DEF OthersLocal, LockIp, Goto, refs, IndInv, Typed
<1>2. /\ pc[p] \in {"found", "bad", "victim", "exists", "new"} /\ Where(p) = pc[p]
      /\ drop[p] = 0 /\ call[p] \in Calls /\ cwd[p] # 0
      /\ pc[p] = "found" => call[p].sys \in {"open", "chdir", "link"}
  BY LockPlaces DEF LockIp, Where, Dropping, IndInv, PlaceOK
<1>3. PICK r \in Inums : r = ip[p] /\ r # 0
  BY <1>2 DEF IndInv, PlaceOK, IpPcs, Typed
<1>4. /\ icache' \in Caches /\ icache[r].busy = NoProc /\ CopyStep(p)
      /\ \A s \in Inums : /\ icache'[s].ref = icache[s].ref
                          /\ icache'[s].busy = IF s = r THEN p ELSE icache[s].busy
  <2>1. Ilock(p, r) /\ UNCHANGED disk /\ Points(p, r) /\ pc[p] # "freed"
    BY <1>2, <1>3 DEF LockIp, Points
  <2> QED BY <2>1, IlockIs
<1>5. PICK l \in {"open", "chdir", "link", "undo", "unlink", "existed", "fill"} :
        /\ pc' = [pc EXCEPT ![p] = l]
        /\ l \in {"open", "chdir", "link"} => pc[p] = "found"
        /\ pc[p] = "found" => l = call[p].sys
        /\ l = "undo" <=> pc[p] = "bad"
        /\ l = "unlink" <=> pc[p] = "victim"
        /\ l = "existed" <=> pc[p] = "exists"
        /\ l = "fill" <=> pc[p] = "new"
  <2>1. PICK l : l = WithIp(p)[pc[p]]
    OBVIOUS
  <2>2. pc' = [pc EXCEPT ![p] = l]
    BY <2>1 DEF LockIp, Goto
  <2>3. /\ pc[p] = "found" => l = call[p].sys
        /\ pc[p] = "bad" => l = "undo"
        /\ pc[p] = "victim" => l = "unlink"
        /\ pc[p] = "exists" => l = "existed"
        /\ pc[p] = "new" => l = "fill"
    BY <2>1, LockPlaces
  <2>4. CASE pc[p] = "found"
    BY <1>2, <2>2, <2>3, <2>4
  <2>5. CASE pc[p] # "found"
    BY <1>2, <2>2, <2>3, <2>5
  <2> QED BY <2>4, <2>5
<1>6. UNCHANGED <<disk, ret, call, rest, cur, ip, drop, cwd, file>>
  BY DEF LockIp, refs
<1>7. /\ cur'[p] = cur[p] /\ ip'[p] = r /\ drop'[p] = 0 /\ cwd'[p] = cwd[p]
      /\ file'[p] = file[p] /\ pc'[p] = l /\ call'[p] = call[p]
      /\ rest'[p] = rest[p] /\ Where(p)' = l
  BY <1>2, <1>3, <1>5, <1>6 DEF IndInv, Typed, Where, Dropping
<1>8. Typed'
  BY <1>4, <1>5, <1>6 DEF IndInv, Typed, Caches, Pcs, disk
<1>9. RefsStep(p)
  BY <1>2, <1>3, <1>4, <1>7 DEF RefsStep, Own
<1>10. LockStep(p)
  <2>1. \A t \in Inums : Holds(p, t)' <=> (Holds(p, t) \/ t = r)
    BY <1>2, <1>3, <1>5, <1>7 DEF Holds, CurLocked, CurPcs, IpLocked, Inums, IndInv, PlaceOK
  <2> QED BY <1>4, <2>1, InodesAssumption DEF LockStep, IndInv, LockOK
<1>11. MovesOK(p)
  BY <1>3, <1>7 DEF MovesOK
<1>13. PlaceOK(p)'
  BY <1>2, <1>3, <1>5, <1>7 DEF PlaceOK, Dropping, IndInv, CurPcs, IpPcs, NoIpPcs, LinkPcs, Returns
<1>14. LiveOK(p)'
  <2>1. UNCHANGED disk
    BY <1>6
  <2> QED BY <1>2, <1>3, <1>5, <1>7, <2>1 DEF IndInv, LiveOK, disk, DirPcs, CurPcs, LinkPcs
<1>15. TruncOK(p)' /\ NewOK(p)'
  <2>1. Made(p)' = Made(p)
    BY <1>7 DEF Made
  <2>2. NewOK(p) /\ UNCHANGED <<dinode, dir>>
    BY <1>6 DEF IndInv, disk
  <2>3. \A q \in Procs \ {p} : cur'[q] = cur[q] /\ ip'[q] = ip[q] /\ cwd'[q] = cwd[q]
                               /\ file'[q] = file[q] /\ drop'[q] = drop[q] /\ pc'[q] = pc[q]
    BY <1>1 DEF OthersLocal
  <2> QED BY <1>3, <1>5, <1>7, <2>1, <2>2, <2>3 DEF TruncOK, NewOK
<1>16. \A t \in Inums : Owes(p, t)' => Owes(p, t)
  BY <1>2, <1>3, <1>5, <1>7 DEF Owes, OwePcs, LinkPcs
<1> QED BY <1>1, <1>4, <1>6, <1>8, <1>9, <1>10, <1>11, <1>13, <1>14, <1>15, <1>16, QuietStep DEF disk

-----------------------------------------------------------------------------
(* The inode a name leads to, for unlink and create.                       *)

LEMMA TargetStep ==
  ASSUME IndInv, NEW p \in Procs, Target(p)
  PROVE  IndInv'
<1>2. /\ Where(p) = "target" /\ pc[p] = "target" /\ drop[p] = 0 /\ rest[p] # << >>
      /\ ip[p] = 0 /\ call[p] \in Calls /\ cwd[p] # 0
  BY DEF Target, Where, Dropping, IndInv, PlaceOK, CurPcs, NoIpPcs
<1>3. PICK r \in Inums : r = cur[p] /\ r # 0
  BY <1>2 DEF IndInv, PlaceOK, CurPcs, Typed
<1>0. CASE ~ (Head(rest[p]) \in Names /\ Entry(p) # 0)
  <2>1. GiveUp(p, "idle") /\ UNCHANGED <<disk, call, rest, ip, cwd, file>>
    BY <1>0 DEF Target
  <2> QED BY <1>2, <2>1, GiveUpStep
<1>a. CASE Head(rest[p]) \in Names /\ Entry(p) # 0
  <2>1. OthersLocal(p)
    BY <1>a DEF OthersLocal, Target, Goto, IndInv, Typed
  <2>4. PICK e \in Inums : /\ e = Entry(p) /\ e # r /\ e # 0
                           /\ dinode[e].nlink > 0 /\ dinode[e].type # "free"
    BY <1>2, <1>3, <1>a, EntryIs
  <2>5. /\ icache' \in Caches
        /\ \A s \in Inums : /\ icache'[s].ref = icache[s].ref + B(s = e)
                            /\ icache'[s].busy = icache[s].busy
                            /\ SameBut(icache, icache', s)
    <3>1. icache' = Iget(e)
      BY <1>a, <2>4 DEF Target
    <3> QED BY <3>1, IgetIs DEF IndInv
  <2>6. /\ pc' = [pc EXCEPT ![p] = "victim"] /\ ip' = [ip EXCEPT ![p] = e]
        /\ UNCHANGED <<disk, ret, call, rest, cur, drop, cwd, file>>
    BY <1>a, <2>4 DEF Target, Goto
  <2>7. /\ cur'[p] = r /\ ip'[p] = e /\ drop'[p] = 0 /\ cwd'[p] = cwd[p]
        /\ file'[p] = file[p] /\ pc'[p] = "victim" /\ call'[p] = call[p]
        /\ rest'[p] = rest[p] /\ Where(p)' = "victim"
    BY <1>2, <1>3, <2>6 DEF IndInv, Typed, Where, Dropping
  <2>8. Typed'
    BY <2>5, <2>6 DEF IndInv, Typed, Caches, Pcs, disk
  <2>9. Lets(p, e)
    <3>1. \A s \in Inums : Own(p, s)' = Own(p, s) + B(s = e)
      BY <1>2, <1>3, <2>4, <2>7 DEF Own, B, Inums
    <3> QED BY <1>2, <1>3, <2>5, <2>7, <3>1
        DEF Lets, Holds, CurLocked, CurPcs, IpLocked, Inums
  <2>10. MovesOK(p)
    BY <1>3, <2>4, <2>7 DEF MovesOK
  <2>11. PlaceOK(p)'
    BY <1>2, <1>3, <2>4, <2>7 DEF PlaceOK, Dropping, CurPcs, IpPcs, NoIpPcs, LinkPcs
  <2>12. LiveOK(p)'
    <3>1. UNCHANGED <<dinode, dir>>
      BY <2>6 DEF disk
    <3>2. dir[cur[p]][Head(rest[p])] = e
      BY <2>4 DEF Entry
    <3>3. dinode[r].type = "dir"
      BY <1>2, <1>3 DEF IndInv, LiveOK, DirPcs, CurPcs
    <3> QED BY <1>a, <1>2, <1>3, <2>4, <2>7, <3>1, <3>2, <3>3
        DEF IndInv, LiveOK, LinkPcs, Dropping
  <2>13. TruncOK(p)' /\ NewOK(p)'
    BY <2>7 DEF TruncOK, NewOK
  <2>14. \A s \in Inums : Owes(p, s)' => Owes(p, s)
    BY <2>7 DEF Owes, OwePcs, LinkPcs
  <2> QED BY <2>1, <2>6, <2>8, <1>2, <2>9, LetsGo, <2>10, <2>11, <2>12, <2>13, <2>14, QuietStep DEF disk
<1> QED BY <1>0, <1>a

LEMMA ExistingStep ==
  ASSUME IndInv, NEW p \in Procs, Existing(p)
  PROVE  IndInv'
<1>1. OthersLocal(p)
  BY DEF OthersLocal, Existing, Iput, Goto, IndInv, Typed
<1>2. /\ Where(p) = "create" /\ pc[p] = "create" /\ drop[p] = 0 /\ rest[p] # << >>
      /\ ip[p] = 0 /\ call[p] \in Calls /\ cwd[p] # 0 /\ Creates(call[p])
  BY DEF Existing, Where, Dropping, IndInv, PlaceOK, CurPcs, NoIpPcs
<1>3. PICK r \in Inums : r = cur[p] /\ r # 0
  BY <1>2 DEF IndInv, PlaceOK, CurPcs, Typed
<1>4. PICK e \in Inums : /\ e = Entry(p) /\ e # r /\ e # 0
                         /\ dinode[e].nlink > 0 /\ dinode[e].type # "free"
  BY <1>2, <1>3, EntryIs DEF Existing
<1>5. /\ icache' \in Caches
      /\ \A s \in Inums : /\ icache'[s].ref = icache[s].ref + B(s = e)
                          /\ icache'[s].busy = IF s = r THEN NoProc ELSE icache[s].busy
                          /\ SameBut(icache, icache', s)
  <2>1. icache' = Unlocked(Iget(e), r)
    BY <1>3, <1>4 DEF Existing
  <2> QED BY <2>1, GotUnlocked
<1>6. /\ pc' = [pc EXCEPT ![p] = "put"] /\ drop' = [drop EXCEPT ![p] = r]
      /\ ret' = [ret EXCEPT ![p] = "exists"] /\ cur' = [cur EXCEPT ![p] = 0]
      /\ ip' = [ip EXCEPT ![p] = e] /\ UNCHANGED <<disk, call, rest, cwd, file>>
  BY <1>3, <1>4 DEF Existing, Iput, Goto
<1>7. /\ cur'[p] = 0 /\ ip'[p] = e /\ drop'[p] = r /\ cwd'[p] = cwd[p]
      /\ file'[p] = file[p] /\ pc'[p] = "put" /\ ret'[p] = "exists" /\ call'[p] = call[p]
      /\ Where(p)' = "exists"
  BY <1>6 DEF IndInv, Typed, Where, Dropping
<1>8. Typed'
  BY <1>5, <1>6 DEF IndInv, Typed, Caches, Pcs, disk
<1>9. Lets(p, e)
  <2>1. \A s \in Inums : Own(p, s)' = Own(p, s) + B(s = e)
    BY <1>2, <1>3, <1>4, <1>7 DEF Own, B, Inums
  <2> QED BY <1>2, <1>3, <1>5, <1>7, <2>1
      DEF Lets, Holds, CurLocked, CurPcs, IpLocked, Inums
<1>10. MovesOK(p)
  BY <1>3, <1>4, <1>7 DEF MovesOK
<1>11. PlaceOK(p)'
  BY <1>2, <1>3, <1>4, <1>7 DEF PlaceOK, Dropping, CurPcs, IpPcs, NoIpPcs, LinkPcs, Returns, Creates
<1>12. LiveOK(p)'
  <2>1. UNCHANGED disk
    BY <1>6
  <2> QED BY <1>2, <1>3, <1>4, <1>7, <2>1 DEF IndInv, LiveOK, disk, DirPcs, CurPcs, LinkPcs, Dropping
<1>13. TruncOK(p)' /\ NewOK(p)'
  BY <1>7 DEF TruncOK, NewOK
<1>14. \A s \in Inums : Owes(p, s)' => Owes(p, s)
  BY <1>7 DEF Owes, OwePcs, LinkPcs
<1> QED BY <1>1, <1>6, <1>8, <1>2, <1>9, LetsGo, <1>10, <1>11, <1>12, <1>13, <1>14, QuietStep DEF disk

LEMMA ExistedStep ==
  ASSUME IndInv, NEW p \in Procs, Existed(p)
  PROVE  IndInv'
<1>0. CASE ~ (call[p].sys = "creat" /\ icache[ip[p]].type = "file")
  <2>1. Leave(p, "idle") /\ UNCHANGED <<disk, call, rest, cur, cwd, file>> /\ pc[p] = "existed"
    BY <1>0 DEF Existed
  <2> QED BY <2>1, LeaveStep
<1>a. CASE call[p].sys = "creat" /\ icache[ip[p]].type = "file"
  <2>1. OthersLocal(p)
    BY <1>a DEF OthersLocal, Existed, Goto, IndInv, Typed
  <2>2. /\ Where(p) = "existed" /\ pc[p] = "existed" /\ drop[p] = 0 /\ cur[p] = 0
        /\ ip[p] # 0 /\ call[p] \in Calls /\ cwd[p] # 0
    BY DEF Existed, Where, Dropping, IndInv, PlaceOK, CurPcs, IpPcs
  <2>3. /\ pc' = [pc EXCEPT ![p] = "open"]
        /\ UNCHANGED <<disk, icache, ret, call, rest, cur, ip, drop, cwd, file>>
    BY <1>a DEF Existed, Goto
  <2>4. /\ cur'[p] = 0 /\ ip'[p] = ip[p] /\ drop'[p] = 0 /\ cwd'[p] = cwd[p]
        /\ file'[p] = file[p] /\ pc'[p] = "open" /\ call'[p] = call[p] /\ Where(p)' = "open"
    BY <2>2, <2>3 DEF IndInv, Typed, Where, Dropping
  <2>5. Typed'
    BY <2>3 DEF IndInv, Typed, Pcs, disk
  <2>6. Lets(p, 0)
    <3>1. \A s \in Inums : Own(p, s)' = Own(p, s) + B(s = 0) /\ B(s = 0) = 0
      BY <2>2, <2>4 DEF Own, B, Inums
    <3>2. \A s \in Inums : icache[s].ref = icache[s].ref + B(s = 0)
      BY <3>1 DEF IndInv, Typed
    <3>3. icache' \in Caches
      BY <2>5 DEF Typed, Caches
    <3> QED BY <2>2, <2>3, <2>4, <3>1, <3>2, <3>3
        DEF Lets, Holds, CurLocked, CurPcs, IpLocked, SameBut
  <2>7. MovesOK(p)
    BY <2>4 DEF MovesOK
  <2>8. PlaceOK(p)'
    BY <2>2, <2>4 DEF PlaceOK, Dropping, CurPcs, IpPcs, NoIpPcs, LinkPcs
  <2>9. LiveOK(p)'
    <3>1. UNCHANGED disk
      BY <2>3
    <3> QED BY <2>2, <2>4, <3>1 DEF IndInv, LiveOK, disk, DirPcs, CurPcs, LinkPcs, Dropping
  <2>10. TruncOK(p)' /\ NewOK(p)'
    BY <2>4 DEF TruncOK, NewOK
  <2>11. \A s \in Inums : Owes(p, s)' => Owes(p, s)
    BY <2>4 DEF Owes, OwePcs, LinkPcs
  <2> QED BY <2>1, <2>3, <2>5, <2>2, <2>6, LetsGo, <2>7, <2>8, <2>9, <2>10, <2>11, QuietStep DEF disk
<1> QED BY <1>0, <1>a

-----------------------------------------------------------------------------
(* Steps that change the disk.                                             *)

LEMMA DiskChange ==
  ASSUME IndInv, NEW p \in Procs, OthersLocal(p), Typed',
         RefsStep(p), LockStep(p), MovesOK(p), CopyStep(p), DiskStep(p),
         PlaceOK(p)', LiveOK(p)', TruncOK(p)', NewOK(p)', DiskOK', CountOK'
  PROVE  IndInv'
<1>1. CopyOK'
  BY KeepsCopy DEF IndInv
<1> QED BY <1>1, Assemble

\* Names go; or there are new ones for an inode that has none itself.
LEMMA AcyclicLess ==
  ASSUME Acyclic, \A s \in Inums, n \in Names : dir'[s][n] \in {dir[s][n], 0}
  PROVE  Acyclic'
<1> SUFFICES ASSUME NEW S \in (SUBSET Inums) \ {{}}
             PROVE  \E s \in S : \A n \in Names : dir'[s][n] \notin S
  BY DEF Acyclic, Inums
<1>1. PICK s \in S : \A n \in Names : dir[s][n] \notin S
  BY DEF Acyclic
<1>2. 0 \notin S
  BY DEF Inums
<1> QED BY <1>1, <1>2

LEMMA AcyclicMore ==
  ASSUME Acyclic, NEW i \in Inums, \A n \in Names : dir'[i][n] = 0,
         \A s \in Inums, n \in Names : dir'[s][n] \in {dir[s][n], 0, i}
  PROVE  Acyclic'
<1> SUFFICES ASSUME NEW S \in (SUBSET Inums) \ {{}}
             PROVE  \E s \in S : \A n \in Names : dir'[s][n] \notin S
  BY DEF Acyclic, Inums
<1>1. PICK s \in S : \A n \in Names : dir[s][n] \notin S
  BY DEF Acyclic
<1>2. 0 \notin S
  BY DEF Inums
<1> QED BY <1>1, <1>2

\* No more names than before.
LEMMA NamesLess ==
  ASSUME NEW i \in Inums, Entries(i)' \subseteq Entries(i), Subdirs(i)' \subseteq Subdirs(i)
  PROVE  NamesOf(i)' <= NamesOf(i) /\ NamesOf(i) \in Nat /\ NamesOf(i)' \in Nat
<1>1. /\ IsFiniteSet(Entries(i)) /\ IsFiniteSet(Subdirs(i))
      /\ NamesOf(i) = Cardinality(Entries(i)) + Cardinality(Subdirs(i))
  BY NamesNow DEF NamesParts
<1>2. NamesOf(i)' = Cardinality(Entries(i)') + Cardinality(Subdirs(i)')
  BY NamesNext DEF NamesParts
<1>3. /\ Cardinality(Entries(i)') \in Nat /\ Cardinality(Entries(i)) \in Nat
      /\ Cardinality(Entries(i)') <= Cardinality(Entries(i))
  BY <1>1, CardMost
<1>4. /\ Cardinality(Subdirs(i)') \in Nat /\ Cardinality(Subdirs(i)) \in Nat
      /\ Cardinality(Subdirs(i)') <= Cardinality(Subdirs(i))
  BY <1>1, CardMost
<1> QED BY <1>1, <1>2, <1>3, <1>4

\* One name more at most.
LEMMA NamesMore ==
  ASSUME NEW i \in Inums, NEW e, NEW n,
         \/ Entries(i)' \subseteq Entries(i) \cup {e} /\ Subdirs(i)' \subseteq Subdirs(i)
         \/ Entries(i)' \subseteq Entries(i) /\ Subdirs(i)' \subseteq Subdirs(i) \cup {n}
  PROVE  NamesOf(i)' <= NamesOf(i) + 1 /\ NamesOf(i) \in Nat /\ NamesOf(i)' \in Nat
<1>1. /\ IsFiniteSet(Entries(i)) /\ IsFiniteSet(Subdirs(i))
      /\ NamesOf(i) = Cardinality(Entries(i)) + Cardinality(Subdirs(i))
  BY NamesNow DEF NamesParts
<1>2. NamesOf(i)' = Cardinality(Entries(i)') + Cardinality(Subdirs(i)')
  BY NamesNext DEF NamesParts
<1>3. CASE Entries(i)' \subseteq Entries(i) \cup {e} /\ Subdirs(i)' \subseteq Subdirs(i)
  <2>1. /\ Cardinality(Entries(i)') \in Nat /\ Cardinality(Entries(i)) \in Nat
        /\ Cardinality(Entries(i)') <= Cardinality(Entries(i)) + 1
    BY <1>1, <1>3, CardMore
  <2>2. /\ Cardinality(Subdirs(i)') \in Nat /\ Cardinality(Subdirs(i)) \in Nat
        /\ Cardinality(Subdirs(i)') <= Cardinality(Subdirs(i))
    BY <1>1, <1>3, CardMost
  <2> QED BY <1>1, <1>2, <2>1, <2>2
<1>4. CASE Entries(i)' \subseteq Entries(i) /\ Subdirs(i)' \subseteq Subdirs(i) \cup {n}
  <2>1. /\ Cardinality(Entries(i)') \in Nat /\ Cardinality(Entries(i)) \in Nat
        /\ Cardinality(Entries(i)') <= Cardinality(Entries(i))
    BY <1>1, <1>4, CardMost
  <2>2. /\ Cardinality(Subdirs(i)') \in Nat /\ Cardinality(Subdirs(i)) \in Nat
        /\ Cardinality(Subdirs(i)') <= Cardinality(Subdirs(i)) + 1
    BY <1>1, <1>4, CardMore
  <2> QED BY <1>1, <1>2, <2>1, <2>2
<1> QED BY <1>3, <1>4

\* One name less.
LEMMA NamesFewer ==
  ASSUME NEW i \in Inums, NEW e, NEW n,
         \/ /\ e \in Entries(i) /\ Entries(i)' \subseteq Entries(i) \ {e}
            /\ Subdirs(i)' \subseteq Subdirs(i)
         \/ /\ Entries(i)' \subseteq Entries(i)
            /\ n \in Subdirs(i) /\ Subdirs(i)' \subseteq Subdirs(i) \ {n}
  PROVE  NamesOf(i)' + 1 <= NamesOf(i) /\ NamesOf(i) \in Nat /\ NamesOf(i)' \in Nat
<1>1. /\ IsFiniteSet(Entries(i)) /\ IsFiniteSet(Subdirs(i))
      /\ NamesOf(i) = Cardinality(Entries(i)) + Cardinality(Subdirs(i))
  BY NamesNow DEF NamesParts
<1>2. NamesOf(i)' = Cardinality(Entries(i)') + Cardinality(Subdirs(i)')
  BY NamesNext DEF NamesParts
<1>3. CASE /\ e \in Entries(i) /\ Entries(i)' \subseteq Entries(i) \ {e}
           /\ Subdirs(i)' \subseteq Subdirs(i)
  <2>1. /\ Cardinality(Entries(i)') \in Nat /\ Cardinality(Entries(i)) \in Nat
        /\ Cardinality(Entries(i)') + 1 <= Cardinality(Entries(i))
    BY <1>1, <1>3, CardLess
  <2>2. /\ Cardinality(Subdirs(i)') \in Nat /\ Cardinality(Subdirs(i)) \in Nat
        /\ Cardinality(Subdirs(i)') <= Cardinality(Subdirs(i))
    BY <1>1, <1>3, CardMost
  <2> QED BY <1>1, <1>2, <2>1, <2>2
<1>4. CASE /\ Entries(i)' \subseteq Entries(i)
           /\ n \in Subdirs(i) /\ Subdirs(i)' \subseteq Subdirs(i) \ {n}
  <2>1. /\ Cardinality(Entries(i)') \in Nat /\ Cardinality(Entries(i)) \in Nat
        /\ Cardinality(Entries(i)') <= Cardinality(Entries(i))
    BY <1>1, <1>4, CardMost
  <2>2. /\ Cardinality(Subdirs(i)') \in Nat /\ Cardinality(Subdirs(i)) \in Nat
        /\ Cardinality(Subdirs(i)') + 1 <= Cardinality(Subdirs(i))
    BY <1>1, <1>4, CardLess
  <2> QED BY <1>1, <1>2, <2>1, <2>2
<1> QED BY <1>3, <1>4

LEMMA ItruncStep ==
  ASSUME IndInv, NEW p \in Procs, Itrunc(p)
  PROVE  IndInv'
<1>1. OthersLocal(p)
  BY DEF OthersLocal, Itrunc, Goto, refs, IndInv, Typed
<1>2. pc[p] = "itrunc" /\ ret[p] \in Returns /\ Where(p) = ret[p]
  BY DEF Itrunc, IndInv, PlaceOK, Where, Dropping
<1>3. PICK s \in Inums : s = drop[p] /\ s # 0
  BY <1>2 DEF IndInv, PlaceOK, Typed, Dropping
<1>4. icache[s].ref = 1 /\ dinode[s].nlink = 0
  BY <1>2, <1>3 DEF IndInv, TruncOK
<1>5. /\ s \notin {cur[p], ip[p], cwd[p], file[p]}
      /\ \A q \in Procs \ {p} : ~ Points(q, s)
  BY <1>3, <1>4, RefAlone DEF IndInv
<1>6. Holds(p, s)
  BY <1>2, <1>3 DEF Holds
<1>7. /\ icache[s].valid /\ icache[s].nlink = 0 /\ icache[s].busy = p
      /\ dinode[s].type # "free"
  BY <1>2, <1>3, <1>4, <1>6, LockedCopy DEF IndInv, LiveOK
<1>8. /\ icache' = [icache EXCEPT ![s].type = "free"] /\ pc' = [pc EXCEPT ![p] = "freed"]
      /\ dinode' = [dinode EXCEPT ![s] = [type |-> "free", nlink |-> 0]]
      /\ dir' = [dir EXCEPT ![s] = NoEntries]
      /\ UNCHANGED <<ret, call, rest, cur, ip, drop, cwd, file>>
  BY <1>3 DEF Itrunc, Goto, refs
<1>9. /\ icache' \in Caches
      /\ \A t \in Inums : icache'[t].ref = icache[t].ref /\ icache'[t].busy = icache[t].busy
      /\ \A t \in Inums \ {s} : icache'[t] = icache[t]
      /\ icache'[s].type = "free" /\ icache'[s].nlink = 0 /\ icache'[s].valid
  BY <1>7, <1>8 DEF IndInv, Typed, Caches, Types
<1>10. /\ dinode'[s] = [type |-> "free", nlink |-> 0]
       /\ \A t \in Inums \ {s} : dinode'[t] = dinode[t] /\ dir'[t] = dir[t]
       /\ \A n \in AllNames : dir'[s][n] = 0
  BY <1>8 DEF IndInv, Typed, NoEntries
<1>11. /\ cur'[p] = cur[p] /\ ip'[p] = ip[p] /\ drop'[p] = s /\ cwd'[p] = cwd[p]
       /\ file'[p] = file[p] /\ pc'[p] = "freed" /\ ret'[p] = ret[p] /\ call'[p] = call[p]
       /\ rest'[p] = rest[p] /\ Where(p)' = ret[p]
  BY <1>3, <1>8 DEF IndInv, Typed, Where, Dropping
<1>12. Typed'
  <2>1. dinode' \in [Inums -> [type : Types, nlink : Nat]]
    BY <1>8 DEF IndInv, Typed, Types
  <2>2. dir' \in [Inums -> [AllNames -> Inums \cup {0}]]
    BY <1>8 DEF IndInv, Typed, NoEntries
  <2> QED BY <1>8, <1>9, <2>1, <2>2 DEF IndInv, Typed, Caches, Pcs
<1>13. RefsStep(p)
  BY <1>3, <1>9, <1>11 DEF RefsStep, Own
<1>14. LockStep(p)
  <2>1. \A t \in Inums : Holds(p, t)' <=> Holds(p, t)
    BY <1>2, <1>3, <1>11 DEF Holds
  <2> QED BY <1>9, <2>1 DEF LockStep, IndInv, LockOK
<1>15. MovesOK(p)
  BY <1>2, <1>3, <1>11 DEF MovesOK
<1>16. CopyStep(p)
  <2> SUFFICES ASSUME NEW t \in Inums
               PROVE  /\ icache'[t].valid => icache'[t].ref > 0
                      /\ icache'[t].busy # NoProc => icache'[t].valid
                      /\ icache'[t].valid => CopyOf(t)' \/ SameCopy(t)
    BY <1>2 DEF CopyStep
  <2>1. CASE t = s
    BY <1>4, <1>9, <1>10, <2>1 DEF CopyOf
  <2>2. CASE t # s
    BY <1>9, <1>10, <2>2 DEF SameCopy, IndInv, CopyOK
  <2> QED BY <2>1, <2>2
<1>17. DiskStep(p)
  BY <1>2, <1>3, <1>6, <1>10 DEF DiskStep
<1>18. PlaceOK(p)'
  BY <1>2, <1>3, <1>5, <1>11 DEF PlaceOK, Dropping, IndInv, CurPcs, IpPcs, NoIpPcs, LinkPcs, Returns, Parent
<1>19. LiveOK(p)'
  <2>1. \A t \in {cur[p], ip[p], cwd[p], file[p]} \ {0} : t \in Inums /\ dinode'[t] = dinode[t]
    BY <1>5, <1>10 DEF IndInv, Typed
  <2>2. cwd[p] # 0 /\ (Where(p) \in DirPcs => cur[p] # 0)
    BY DEF IndInv, PlaceOK, DirPcs
  <2> QED BY <1>2, <1>11, <2>1, <2>2 DEF IndInv, LiveOK
<1>20. TruncOK(p)' /\ NewOK(p)'
  BY <1>11 DEF TruncOK, NewOK
<1>21. \A t \in Inums, n \in Names : n \in AllNames /\ dir'[t][n] \in {dir[t][n], 0}
  BY <1>10 DEF AllNames
<1>22. DiskOK'
  <2>1. Acyclic'
    BY <1>21, AcyclicLess DEF IndInv, DiskOK
  <2>2. \A t \in Inums : dinode'[t].type = "free" => dinode'[t].nlink = 0
    BY <1>10 DEF IndInv, DiskOK
  <2>3. \A t \in Inums, n \in Names : dinode'[t].type # "dir" => dir'[t][n] = 0
    BY <1>10, <1>21 DEF IndInv, DiskOK
  <2>4. \A t \in Inums, n \in Names : dir'[t][n] # Root
    BY <1>21 DEF IndInv, DiskOK, Root
  <2>5. dinode'[Root].type = "dir"
    BY <1>4, <1>10, RootLinked DEF IndInv, DiskOK
  <2> QED BY <2>1, <2>2, <2>3, <2>4, <2>5 DEF DiskOK, Root
<1>23. CountOK'
  <2> SUFFICES ASSUME NEW t \in Inums
               PROVE  NamesOf(t)' + B(Owes(p, t)') + dinode[t].nlink
                        <= NamesOf(t) + B(Owes(p, t)) + dinode'[t].nlink
    BY <1>1, <1>12, KeepsCount DEF IndInv
  <2>1. Entries(t)' \subseteq Entries(t)
    BY <1>21 DEF Entries, Inums
  <2>2. Subdirs(t)' \subseteq Subdirs(t)
    <3> SUFFICES ASSUME NEW n \in Names, dir'[t][n] # 0, dinode'[dir'[t][n]].type = "dir"
                 PROVE  dir[t][n] # 0 /\ dinode[dir[t][n]].type = "dir"
      BY DEF Subdirs
    <3>1. dir'[t][n] = dir[t][n] /\ dir[t][n] \in Inums
      BY <1>21 DEF IndInv, Typed
    <3> QED BY <1>10, <3>1
  <2>3. NamesOf(t)' <= NamesOf(t) /\ NamesOf(t) \in Nat /\ NamesOf(t)' \in Nat
    BY <2>1, <2>2, NamesLess
  <2>4. Owes(p, t)' <=> Owes(p, t)
    BY <1>2, <1>11 DEF Owes
  <2>5. dinode'[t].nlink = dinode[t].nlink /\ dinode[t].nlink \in Nat
    <3>1. dinode[t] \in [type : Types, nlink : Nat]
      BY DEF IndInv, Typed
    <3>2. CASE t = s
      BY <1>4, <1>10, <3>1, <3>2
    <3>3. CASE t # s
      BY <1>10, <3>1, <3>3
    <3> QED BY <3>2, <3>3
  <2>6. B(Owes(p, t)') = B(Owes(p, t)) /\ B(Owes(p, t)) \in Nat
    BY <2>4 DEF B
  <2> QED BY <2>3, <2>5, <2>6
<1> QED BY <1>1, <1>12, <1>13, <1>14, <1>15, <1>16, <1>17, <1>18, <1>19, <1>20, <1>22, <1>23, DiskChange

-----------------------------------------------------------------------------
(* The link count of an inode that p has locked.                           *)

LEMMA NlinkStep ==
  ASSUME IndInv, NEW p \in Procs, NEW r \in Inums, Holds(p, r), pc[p] # "freed",
         dinode' \in [Inums -> [type : Types, nlink : Nat]],
         \A s \in Inums \ {r} : dinode'[s] = dinode[s],
         dinode'[r].type = dinode[r].type, dinode[r].type # "free",
         UNCHANGED dir
  PROVE  /\ DiskStep(p) /\ DiskOK'
         /\ \A s \in Inums : dinode'[s].type = dinode[s].type
         /\ \A s \in Inums : NamesOf(s)' = NamesOf(s) /\ NamesOf(s) \in Nat
<1>1. \A s \in Inums : dinode'[s].type = dinode[s].type
  OBVIOUS
<1>2. DiskStep(p)
  BY <1>1 DEF DiskStep
<1>3. DiskOK'
  <2>1. Acyclic'
    BY DEF IndInv, DiskOK, Acyclic
  <2>2. Root \in Inums
    BY RootLinked
  <2> QED BY <1>1, <2>1, <2>2 DEF IndInv, DiskOK, Root
<1>4. \A s \in Inums : Entries(s)' = Entries(s) /\ Subdirs(s)' = Subdirs(s)
  <2> SUFFICES ASSUME NEW s \in Inums PROVE Subdirs(s)' = Subdirs(s)
    BY DEF Entries
  <2>1. \A n \in Names : dir[s][n] # 0 => dinode'[dir[s][n]].type = dinode[dir[s][n]].type
    BY <1>1, NamedHasLink DEF IndInv
  <2> QED BY <2>1 DEF Subdirs
<1>5. ASSUME NEW s \in Inums PROVE NamesOf(s)' = NamesOf(s) /\ NamesOf(s) \in Nat
  <2>1. /\ NamesOf(s) = Cardinality(Entries(s)) + Cardinality(Subdirs(s))
        /\ Cardinality(Entries(s)) \in Nat /\ Cardinality(Subdirs(s)) \in Nat
    BY NamesNow DEF NamesParts
  <2>2. NamesOf(s)' = Cardinality(Entries(s)') + Cardinality(Subdirs(s)')
    BY NamesNext DEF NamesParts
  <2> QED BY <1>4, <2>1, <2>2
<1> QED BY <1>1, <1>2, <1>3, <1>5

\* Counted, iupdate and iunlock of a locked inode.
LEMMA CountedUnlocked ==
  ASSUME IndInv, NEW p \in Procs, NEW r \in Inums, Holds(p, r), pc[p] # "freed",
         NEW d \in Int, dinode[r].nlink + d \in Nat,
         icache' = Unlocked(Counted(icache, r, d), r),
         Iupdate(icache', r) \/ Iupdate(Counted(icache, r, d), r)
  PROVE  /\ icache' \in Caches
         /\ \A s \in Inums : /\ icache'[s].ref = icache[s].ref
                             /\ icache'[s].busy = IF s = r THEN NoProc ELSE icache[s].busy
         /\ dinode' \in [Inums -> [type : Types, nlink : Nat]]
         /\ \A s \in Inums \ {r} : dinode'[s] = dinode[s]
         /\ dinode'[r].type = dinode[r].type /\ dinode'[r].nlink = dinode[r].nlink + d
         /\ CopyStep(p)
<1>1. /\ icache[r].valid /\ icache[r].busy = p
      /\ dinode[r].type = icache[r].type /\ dinode[r].nlink = icache[r].nlink
  BY LockedCopy
<1>2. icache \in Caches /\ icache[r].nlink + d \in Nat
  BY <1>1 DEF IndInv, Typed, Caches
<1>3. PICK c \in Caches : c = Counted(icache, r, d)
  BY <1>2, CountedIs
<1>4. \A s \in Inums : /\ c[s].ref = icache[s].ref /\ c[s].busy = icache[s].busy
                       /\ c[s].valid = icache[s].valid /\ c[s].type = icache[s].type
                       /\ c[s].nlink = IF s = r THEN icache[s].nlink + d ELSE icache[s].nlink
  BY <1>2, <1>3, CountedIs
<1>5. /\ icache' = Unlocked(c, r) /\ icache' \in Caches
      /\ \A s \in Inums : /\ icache'[s].ref = c[s].ref
                          /\ icache'[s].busy = IF s = r THEN NoProc ELSE c[s].busy
                          /\ SameBut(c, icache', s)
  BY <1>3, UnlockedIs
<1>6. dinode' = [dinode EXCEPT ![r] = [type |-> icache'[r].type, nlink |-> icache'[r].nlink]]
  BY <1>3, <1>5 DEF Iupdate, SameBut
<1>7. icache'[r].type = dinode[r].type /\ icache'[r].nlink = dinode[r].nlink + d
  BY <1>1, <1>4, <1>5 DEF SameBut
<1>8. /\ dinode' \in [Inums -> [type : Types, nlink : Nat]]
      /\ \A s \in Inums \ {r} : dinode'[s] = dinode[s]
      /\ dinode'[r] = [type |-> icache'[r].type, nlink |-> icache'[r].nlink]
  BY <1>5, <1>6 DEF IndInv, Typed, Caches
<1>9. CopyStep(p)
  <2> SUFFICES ASSUME NEW s \in Inums
               PROVE  /\ icache'[s].valid => icache'[s].ref > 0
                      /\ icache'[s].busy # NoProc => icache'[s].valid
                      /\ icache'[s].valid => CopyOf(s)' \/ SameCopy(s)
    BY DEF CopyStep
  <2>1. icache'[s].valid <=> icache[s].valid
    BY <1>4, <1>5 DEF SameBut
  <2>2. CASE s = r
    BY <1>1, <1>4, <1>5, <1>8, <2>1, <2>2 DEF CopyOf, IndInv, CopyOK
  <2>3. CASE s # r
    <3>1. icache'[s].type = icache[s].type /\ icache'[s].nlink = icache[s].nlink
      BY <1>4, <1>5, <2>3 DEF SameBut
    <3> QED BY <1>4, <1>5, <1>8, <2>1, <2>3, <3>1 DEF SameCopy, IndInv, CopyOK
  <2> QED BY <2>2, <2>3
<1> QED BY <1>4, <1>5, <1>7, <1>8, <1>9

LEMMA LinkOldStep ==
  ASSUME IndInv, NEW p \in Procs, LinkOld(p)
  PROVE  IndInv'
<1>1. OthersLocal(p)
  BY DEF OthersLocal, LinkOld, Goto, refs, IndInv, Typed
<1>2. /\ Where(p) = "link" /\ pc[p] = "link" /\ drop[p] = 0 /\ cur[p] = 0 /\ cwd[p] # 0
      /\ call[p] \in Calls /\ call[p].sys = "link"
  BY DEF LinkOld, Where, Dropping, IndInv, PlaceOK, CurPcs
<1>3. PICK r \in Inums : r = ip[p] /\ r # 0
  BY <1>2 DEF IndInv, PlaceOK, IpPcs, Typed
<1>4. Holds(p, r)
  BY <1>2, <1>3 DEF Holds, IpLocked
<1>5. dinode[r].type = "file" /\ dinode[r].nlink + 1 \in Nat /\ dinode[r].nlink \in Nat
  <2>1. dinode[r].type \in Types /\ dinode[r].type # "free" /\ dinode[r].nlink \in Nat
    BY <1>3 DEF IndInv, Typed, LiveOK
  <2>2. dinode[r].type # "dir"
    BY <1>2, <1>3, <1>4, LockedCopy DEF LinkOld, IsDir
  <2> QED BY <2>1, <2>2 DEF Types
<1>6. /\ icache' \in Caches /\ CopyStep(p)
      /\ \A s \in Inums : /\ icache'[s].ref = icache[s].ref
                          /\ icache'[s].busy = IF s = r THEN NoProc ELSE icache[s].busy
      /\ dinode' \in [Inums -> [type : Types, nlink : Nat]]
      /\ \A s \in Inums \ {r} : dinode'[s] = dinode[s]
      /\ dinode'[r].type = dinode[r].type /\ dinode'[r].nlink = dinode[r].nlink + 1
  <2>1. icache' = Unlocked(Counted(icache, r, 1), r) /\ Iupdate(icache', r)
    BY <1>3 DEF LinkOld
  <2> QED BY <1>2, <1>4, <1>5, <2>1, CountedUnlocked
<1>7. /\ pc' = [pc EXCEPT ![p] = "newname"]
      /\ UNCHANGED <<dir, ret, call, rest, cur, ip, drop, cwd, file>>
  BY DEF LinkOld, Goto, refs
<1>8. /\ DiskStep(p) /\ DiskOK'
      /\ \A s \in Inums : dinode'[s].type = dinode[s].type
      /\ \A s \in Inums : NamesOf(s)' = NamesOf(s) /\ NamesOf(s) \in Nat
  BY <1>2, <1>4, <1>5, <1>6, <1>7, NlinkStep
<1>9. /\ cur'[p] = 0 /\ ip'[p] = r /\ drop'[p] = 0 /\ cwd'[p] = cwd[p]
      /\ file'[p] = file[p] /\ pc'[p] = "newname" /\ call'[p] = call[p]
      /\ rest'[p] = rest[p] /\ Where(p)' = "newname"
  BY <1>2, <1>3, <1>7 DEF IndInv, Typed, Where, Dropping
<1>10. Typed'
  BY <1>6, <1>7 DEF IndInv, Typed, Caches, Pcs
<1>11. RefsStep(p)
  BY <1>2, <1>3, <1>6, <1>9 DEF RefsStep, Own
<1>12. LockStep(p)
  <2>1. \A s \in Inums : ~ Holds(p, s)' /\ (Holds(p, s) <=> s = r)
    BY <1>2, <1>3, <1>9 DEF Holds, CurLocked, CurPcs, IpLocked, Inums
  <2> QED BY <1>6, <2>1 DEF LockStep
<1>13. MovesOK(p)
  BY <1>3, <1>9 DEF MovesOK
<1>14. PlaceOK(p)'
  BY <1>2, <1>3, <1>9 DEF PlaceOK, Dropping, CurPcs, IpPcs, NoIpPcs, LinkPcs
<1>15. LiveOK(p)'
  <2>1. \A s \in {ip[p], cwd[p], file[p]} \ {0} : dinode'[s].type = dinode[s].type
    BY <1>8 DEF IndInv, Typed
  <2> QED BY <1>2, <1>3, <1>5, <1>9, <2>1 DEF IndInv, LiveOK, DirPcs, CurPcs, Dropping
<1>16. TruncOK(p)' /\ NewOK(p)'
  BY <1>9 DEF TruncOK, NewOK
<1>17. CountOK'
  <2> SUFFICES ASSUME NEW t \in Inums
               PROVE  NamesOf(t)' + B(Owes(p, t)') + dinode[t].nlink
                        <= NamesOf(t) + B(Owes(p, t)) + dinode'[t].nlink
    BY <1>1, <1>10, KeepsCount DEF IndInv
  <2>1. NamesOf(t)' = NamesOf(t) /\ NamesOf(t) \in Nat /\ dinode[t].nlink \in Nat
    BY <1>8 DEF IndInv, Typed
  <2>2. ~ Owes(p, t) /\ (Owes(p, t)' <=> t = r)
    BY <1>2, <1>3, <1>9 DEF Owes, OwePcs, LinkPcs
  <2>3. dinode'[t].nlink = dinode[t].nlink + B(t = r)
    <3>1. CASE t = r
      BY <1>6, <3>1 DEF B
    <3>2. CASE t # r
      BY <1>6, <2>1, <3>2 DEF B
    <3> QED BY <3>1, <3>2
  <2>4. B(Owes(p, t)') = B(t = r) /\ B(Owes(p, t)) = 0 /\ B(t = r) \in Nat
    BY <2>2 DEF B
  <2> QED BY <2>1, <2>3, <2>4
<1> QED BY <1>1, <1>6, <1>8, <1>10, <1>11, <1>12, <1>13, <1>14, <1>15, <1>16, <1>17, DiskChange

LEMMA DropLinkStep ==
  ASSUME IndInv, NEW p \in Procs, DropLink(p)
  PROVE  IndInv'
<1>1. OthersLocal(p)
  BY DEF OthersLocal, DropLink, Iput, Goto, IndInv, Typed
<1>2. /\ Where(p) = pc[p] /\ pc[p] \in {"undo", "unlinked"} /\ drop[p] = 0 /\ cur[p] = 0
      /\ cwd[p] # 0
  BY DEF DropLink, Where, Dropping, IndInv, PlaceOK, CurPcs
<1>3. PICK r \in Inums : r = ip[p] /\ r # 0
  BY <1>2 DEF IndInv, PlaceOK, IpPcs, Typed
<1>4. Holds(p, r) /\ Owes(p, r)
  BY <1>2, <1>3 DEF Holds, IpLocked, Owes, OwePcs, LinkPcs
<1>5. dinode[r].type # "free" /\ dinode[r].nlink + (-1) \in Nat /\ dinode[r].nlink \in Nat
  <2>1. dinode[r].type # "free" /\ dinode[r].nlink \in Nat
    BY <1>3 DEF IndInv, Typed, LiveOK
  <2>2. NamesOf(r) + Owed(r) + (IF r = Root THEN 1 ELSE 0) <= dinode[r].nlink
    BY DEF IndInv, CountOK
  <2>3. NamesOf(r) \in Nat
    BY NamesNow DEF NamesParts
  <2>4. Owed(r) \in Nat /\ Owed(r) >= 1
    BY <1>1, <1>4, OwedStep DEF B
  <2> QED BY <2>1, <2>2, <2>3, <2>4
<1>6. /\ icache' \in Caches /\ CopyStep(p)
      /\ \A s \in Inums : /\ icache'[s].ref = icache[s].ref
                          /\ icache'[s].busy = IF s = r THEN NoProc ELSE icache[s].busy
      /\ dinode' \in [Inums -> [type : Types, nlink : Nat]]
      /\ \A s \in Inums \ {r} : dinode'[s] = dinode[s]
      /\ dinode'[r].type = dinode[r].type /\ dinode'[r].nlink = dinode[r].nlink + (-1)
  <2>1. icache' = Unlocked(Counted(icache, r, -1), r) /\ Iupdate(icache', r)
    BY <1>3 DEF DropLink
  <2>2. -1 \in Int
    OBVIOUS
  <2> QED BY <1>2, <1>4, <1>5, <2>1, <2>2, CountedUnlocked
<1>7. /\ pc' = [pc EXCEPT ![p] = "put"] /\ ip' = [ip EXCEPT ![p] = 0]
      /\ drop' = [drop EXCEPT ![p] = r] /\ ret' = [ret EXCEPT ![p] = "idle"]
      /\ UNCHANGED <<dir, call, rest, cur, cwd, file>>
  BY <1>3 DEF DropLink, Iput, Goto
<1>8. /\ DiskStep(p) /\ DiskOK'
      /\ \A s \in Inums : dinode'[s].type = dinode[s].type
      /\ \A s \in Inums : NamesOf(s)' = NamesOf(s) /\ NamesOf(s) \in Nat
  BY <1>2, <1>4, <1>5, <1>6, <1>7, NlinkStep
<1>9. /\ cur'[p] = 0 /\ ip'[p] = 0 /\ drop'[p] = r /\ cwd'[p] = cwd[p]
      /\ file'[p] = file[p] /\ pc'[p] = "put" /\ ret'[p] = "idle" /\ Where(p)' = "idle"
  BY <1>2, <1>7 DEF IndInv, Typed, Where, Dropping
<1>10. Typed'
  BY <1>6, <1>7 DEF IndInv, Typed, Caches, Pcs
<1>11. RefsStep(p)
  <2>1. \A s \in Inums : Own(p, s)' = Own(p, s)
    BY <1>2, <1>3, <1>9 DEF Own, B, Inums
  <2> QED BY <1>6, <2>1 DEF RefsStep
<1>12. LockStep(p)
  <2>1. \A s \in Inums : ~ Holds(p, s)' /\ (Holds(p, s) <=> s = r)
    BY <1>2, <1>3, <1>9 DEF Holds, CurLocked, CurPcs, IpLocked, Inums
  <2> QED BY <1>6, <2>1 DEF LockStep
<1>13. MovesOK(p)
  BY <1>3, <1>9 DEF MovesOK
<1>14. PlaceOK(p)'
  BY <1>2, <1>3, <1>9 DEF PlaceOK, Dropping, CurPcs, IpPcs, NoIpPcs, LinkPcs, Returns
<1>15. LiveOK(p)'
  <2>1. \A s \in {ip[p], cwd[p], file[p]} \ {0} : dinode'[s].type = dinode[s].type
    BY <1>8 DEF IndInv, Typed
  <2> QED BY <1>2, <1>3, <1>5, <1>6, <1>9, <2>1 DEF IndInv, LiveOK, DirPcs, CurPcs, LinkPcs, Dropping
<1>16. TruncOK(p)' /\ NewOK(p)'
  BY <1>9 DEF TruncOK, NewOK
<1>17. CountOK'
  <2> SUFFICES ASSUME NEW t \in Inums
               PROVE  NamesOf(t)' + B(Owes(p, t)') + dinode[t].nlink
                        <= NamesOf(t) + B(Owes(p, t)) + dinode'[t].nlink
    BY <1>1, <1>10, KeepsCount DEF IndInv
  <2>1. NamesOf(t)' = NamesOf(t) /\ NamesOf(t) \in Nat /\ dinode[t].nlink \in Nat
    BY <1>8 DEF IndInv, Typed
  <2>2. ~ Owes(p, t)' /\ (Owes(p, t) <=> t = r)
    BY <1>2, <1>3, <1>9 DEF Owes, OwePcs, LinkPcs, Inums
  <2>3. dinode'[t].nlink = dinode[t].nlink - B(t = r)
    <3>1. CASE t = r
      BY <1>5, <1>6, <3>1 DEF B
    <3>2. CASE t # r
      BY <1>6, <2>1, <3>2 DEF B
    <3> QED BY <3>1, <3>2
  <2>4. B(Owes(p, t)) = B(t = r) /\ B(Owes(p, t)') = 0 /\ B(t = r) \in Nat
    BY <2>2 DEF B
  <2> QED BY <2>1, <2>3, <2>4
<1> QED BY <1>1, <1>6, <1>8, <1>10, <1>11, <1>12, <1>13, <1>14, <1>15, <1>16, <1>17, DiskChange

-----------------------------------------------------------------------------
(* Names that come and go.                                                 *)

LEMMA DirlinkStep ==
  ASSUME IndInv, NEW p \in Procs, Dirlink(p)
  PROVE  IndInv'
<1>2. /\ Where(p) = "dirlink" /\ pc[p] = "dirlink" /\ drop[p] = 0 /\ cwd[p] # 0
      /\ rest[p] # << >> /\ call[p] \in Calls /\ call[p].sys = "link" /\ ip[p] # 0
  BY DEF Dirlink, Where, Dropping, IndInv, PlaceOK, CurPcs, IpPcs, LinkPcs
<1>3. PICK d \in Inums : d = cur[p] /\ d # 0
  BY <1>2 DEF IndInv, PlaceOK, CurPcs, Typed
<1>0. CASE Entry(p) # 0
  <2>1. GiveUp(p, "bad") /\ UNCHANGED <<disk, call, rest, ip, cwd, file>>
    BY <1>0 DEF Dirlink, disk
  <2> QED BY <1>2, <2>1, GiveUpStep
<1>a. CASE Entry(p) = 0
  <2>1. OthersLocal(p)
    BY <1>a DEF OthersLocal, Dirlink, GiveUp, Iput, Goto, IndInv, Typed
  <2>2. PICK r \in Inums : r = ip[p] /\ r # 0
    BY <1>2 DEF IndInv, Typed
  <2>3. PICK n \in Names : n = Head(rest[p])
    <3>1. PICK t \in Seq(Names) : t = rest[p] /\ t # << >>
      BY <1>2 DEF IndInv, Typed
    <3> QED BY <3>1, HeadTailProperties
  <2>4. /\ dinode[r].type = "file" /\ dinode[d].type = "dir" /\ d # r
        /\ dir[d][n] = 0 /\ r # Root
        /\ \A m \in Names : dir[r][m] = 0
    <3>1. dinode[r].type = "file" /\ dinode[d].type = "dir"
      BY <1>2, <1>3, <2>2 DEF IndInv, LiveOK, LinkPcs, DirPcs, CurPcs
    <3>2. dir[d][n] = 0
      BY <1>3, <1>a, <2>3 DEF Entry
    <3> QED BY <3>1, <3>2 DEF IndInv, DiskOK
  <2>5. /\ icache' \in Caches
        /\ \A s \in Inums : /\ icache'[s].ref = icache[s].ref
                            /\ icache'[s].busy = IF s = d THEN NoProc ELSE icache[s].busy
                            /\ SameBut(icache, icache', s)
    <3>1. icache \in Caches /\ icache' = Unlocked(icache, d)
      BY <1>3, <1>a DEF Dirlink, GiveUp, IndInv, Typed, Caches
    <3> QED BY <3>1, UnlockedIs
  <2>6. /\ pc' = [pc EXCEPT ![p] = "put"] /\ cur' = [cur EXCEPT ![p] = 0]
        /\ drop' = [drop EXCEPT ![p] = d] /\ ret' = [ret EXCEPT ![p] = "linked"]
        /\ dir' = [dir EXCEPT ![d][n] = r]
        /\ UNCHANGED <<dinode, call, rest, ip, cwd, file>>
    BY <1>3, <1>a, <2>2, <2>3 DEF Dirlink, GiveUp, Linked, Iput, Goto
  <2>7. /\ cur'[p] = 0 /\ ip'[p] = r /\ drop'[p] = d /\ cwd'[p] = cwd[p]
        /\ file'[p] = file[p] /\ pc'[p] = "put" /\ ret'[p] = "linked" /\ call'[p] = call[p]
        /\ Where(p)' = "linked"
    BY <2>2, <2>6 DEF IndInv, Typed, Where, Dropping
  <2>8. n \in AllNames /\ \A m \in Names : m \in AllNames
    BY DEF AllNames
  <2>9. /\ dir' \in [Inums -> [AllNames -> Inums \cup {0}]]
        /\ dir'[d][n] = r
        /\ \A s \in Inums, m \in Names : s # d \/ m # n => dir'[s][m] = dir[s][m]
    BY <2>6, <2>8 DEF IndInv, Typed
  <2>10. Typed'
    BY <2>5, <2>6, <2>9 DEF IndInv, Typed, Caches, Pcs
  <2>11. RefsStep(p)
    <3>1. \A s \in Inums : Own(p, s)' = Own(p, s)
      BY <1>2, <1>3, <2>2, <2>7 DEF Own, B, Inums
    <3> QED BY <2>5, <3>1 DEF RefsStep
  <2>12. \A s \in Inums : ~ Holds(p, s)' /\ (Holds(p, s) <=> s = d)
    BY <1>2, <1>3, <2>7 DEF Holds, CurLocked, CurPcs, IpLocked, Inums
  <2>13. LockStep(p)
    BY <2>5, <2>12 DEF LockStep
  <2>14. MovesOK(p)
    BY <1>3, <2>2, <2>7 DEF MovesOK
  <2>15. CopyStep(p)
    <3> SUFFICES ASSUME NEW s \in Inums
                 PROVE  /\ icache'[s].valid => icache'[s].ref > 0
                        /\ icache'[s].busy # NoProc => icache'[s].valid
                        /\ icache'[s].valid => SameCopy(s)
      BY <1>2 DEF CopyStep
    <3>1. icache'[s].valid <=> icache[s].valid
      BY <2>5 DEF SameBut
    <3>2. icache'[s].valid => SameCopy(s)
      BY <2>5, <2>6, <3>1 DEF SameBut, SameCopy
    <3> QED BY <2>5, <3>1, <3>2 DEF IndInv, CopyOK
  <2>16. DiskStep(p)
    BY <1>2, <2>6, <2>9, <2>12 DEF DiskStep
  <2>17. PlaceOK(p)'
    BY <1>2, <1>3, <2>2, <2>7 DEF PlaceOK, Dropping, CurPcs, IpPcs, NoIpPcs, LinkPcs, Returns
  <2>18. LiveOK(p)'
    <3>1. UNCHANGED dinode
      BY <2>6
    <3> QED BY <1>2, <1>3, <2>2, <2>4, <2>7, <3>1
        DEF IndInv, LiveOK, DirPcs, CurPcs, LinkPcs, Dropping
  <2>19. TruncOK(p)' /\ NewOK(p)'
    BY <2>7 DEF TruncOK, NewOK
  <2>20. DiskOK'
    <3>1. Acyclic'
      <4>1. \A m \in Names : dir'[r][m] = 0
        BY <2>4, <2>9
      <4>2. \A s \in Inums, m \in Names : dir'[s][m] \in {dir[s][m], 0, r}
        BY <2>9
      <4> QED BY <4>1, <4>2, AcyclicMore DEF IndInv, DiskOK
    <3>2. UNCHANGED dinode
      BY <2>6
    <3>3. \A s \in Inums, m \in Names : dinode'[s].type # "dir" => dir'[s][m] = 0
      BY <2>4, <2>9, <3>2 DEF IndInv, DiskOK
    <3>4. \A s \in Inums, m \in Names : dir'[s][m] # Root
      BY <2>4, <2>9 DEF IndInv, DiskOK, Root
    <3> QED BY <3>1, <3>2, <3>3, <3>4 DEF IndInv, DiskOK, Root
  <2>21. CountOK'
    <3> SUFFICES ASSUME NEW t \in Inums
                 PROVE  NamesOf(t)' + B(Owes(p, t)') + dinode[t].nlink
                          <= NamesOf(t) + B(Owes(p, t)) + dinode'[t].nlink
      BY <2>1, <2>10, KeepsCount DEF IndInv
    <3>1. ~ Owes(p, t)' /\ (Owes(p, t) <=> t = r)
      BY <1>2, <2>2, <2>7 DEF Owes, OwePcs, LinkPcs
    <3>2. dinode'[t].nlink = dinode[t].nlink /\ dinode[t].nlink \in Nat
      BY <2>6 DEF IndInv, Typed
    <3>3. Subdirs(t)' \subseteq Subdirs(t)
      <4> SUFFICES ASSUME NEW m \in Names, dir'[t][m] # 0, dinode'[dir'[t][m]].type = "dir"
                   PROVE  dir[t][m] # 0 /\ dinode[dir[t][m]].type = "dir"
        BY DEF Subdirs
      <4> QED BY <2>4, <2>6, <2>9
    <3>4. Entries(t)' \subseteq IF t = r THEN Entries(t) \cup {<<d, n>>} ELSE Entries(t)
      <4> SUFFICES ASSUME NEW s \in Inums, NEW m \in Names, dir'[s][m] = t
                   PROVE  dir[s][m] = t \/ (t = r /\ <<s, m>> = <<d, n>>)
        BY DEF Entries
      <4> QED BY <2>9
    <3>5. CASE t = r
      <4>1. NamesOf(t)' <= NamesOf(t) + 1 /\ NamesOf(t) \in Nat /\ NamesOf(t)' \in Nat
        BY <3>3, <3>4, <3>5, NamesMore
      <4> QED BY <3>1, <3>2, <3>5, <4>1 DEF B
    <3>6. CASE t # r
      <4>1. NamesOf(t)' <= NamesOf(t) /\ NamesOf(t) \in Nat /\ NamesOf(t)' \in Nat
        BY <3>3, <3>4, <3>6, NamesLess
      <4> QED BY <3>1, <3>2, <3>6, <4>1 DEF B
    <3> QED BY <3>5, <3>6
  <2> QED BY <2>1, <2>10, <2>11, <2>13, <2>14, <2>15, <2>16, <2>17, <2>18, <2>19, <2>20, <2>21, DiskChange
<1> QED BY <1>0, <1>a

LEMMA UnlinkStep ==
  ASSUME IndInv, NEW p \in Procs, Unlink(p)
  PROVE  IndInv'
<1>1. OthersLocal(p)
  BY DEF OthersLocal, Unlink, Iput, Goto, IndInv, Typed
<1>2. /\ Where(p) = "unlink" /\ pc[p] = "unlink" /\ drop[p] = 0 /\ cwd[p] # 0
      /\ rest[p] # << >> /\ call[p] \in Calls /\ ip[p] # 0
  BY DEF Unlink, Where, Dropping, IndInv, PlaceOK, CurPcs, IpPcs
<1>3. PICK d \in Inums : d = cur[p] /\ d # 0
  BY <1>2 DEF IndInv, PlaceOK, CurPcs, Typed
<1>4. PICK v \in Inums : v = ip[p] /\ v # 0
  BY <1>2 DEF IndInv, Typed
<1>5. PICK n \in Names : n = Head(rest[p]) /\ dir[d][n] = v
  BY <1>2, <1>3, <1>4 DEF IndInv, LiveOK
<1>6. /\ d # v /\ dinode[d].type = "dir" /\ dinode[v].type # "free" /\ dinode[d].nlink \in Nat
      /\ dinode[v].type = "dir" => dinode[d].nlink > 0
  <2>1. d # v
    BY <1>5, NotInItself DEF IndInv, DiskOK
  <2>2. dinode[d].type = "dir" /\ dinode[v].type # "free"
    BY <1>2, <1>3, <1>4 DEF IndInv, LiveOK, DirPcs, CurPcs
  <2>3. dinode[d].nlink \in Nat
    BY DEF IndInv, Typed
  <2> QED BY <1>4, <1>5, <2>1, <2>2, <2>3, NamedHasLink DEF IndInv
<1>7. Holds(p, d) /\ Holds(p, v)
  BY <1>2, <1>3, <1>4 DEF Holds, CurLocked, CurPcs, IpLocked
<1>8. IsDir(v) <=> dinode[v].type = "dir"
  BY <1>2, <1>7, LockedCopy DEF IsDir
<1>9. PICK k \in {0, 1} : /\ k = 1 <=> dinode[v].type = "dir"
                          /\ (IF IsDir(ip[p]) THEN -1 ELSE 0) = 0 - k
  <2>1. CASE IsDir(v)
    <3>1. (IF IsDir(ip[p]) THEN -1 ELSE 0) = 0 - 1
      BY <1>4, <2>1
    <3>2. dinode[v].type = "dir"
      BY <1>8, <2>1
    <3> QED BY <3>1, <3>2
  <2>2. CASE ~ IsDir(v)
    <3>1. (IF IsDir(ip[p]) THEN -1 ELSE 0) = 0 - 0
      BY <1>4, <2>2
    <3>2. 0 = 1 <=> dinode[v].type = "dir"
      BY <1>8, <2>2
    <3> WITNESS 0 \in {0, 1}
    <3> QED BY <3>1, <3>2
  <2> QED BY <2>1, <2>2
<1>10. /\ icache' \in Caches /\ CopyStep(p)
       /\ \A s \in Inums : /\ icache'[s].ref = icache[s].ref
                           /\ icache'[s].busy = IF s = d THEN NoProc ELSE icache[s].busy
       /\ dinode' \in [Inums -> [type : Types, nlink : Nat]]
       /\ \A s \in Inums \ {d} : dinode'[s] = dinode[s]
       /\ dinode'[d].type = dinode[d].type /\ dinode'[d].nlink = dinode[d].nlink + (0 - k)
  <2>1. icache' = Unlocked(Counted(icache, d, 0 - k), d) /\ Iupdate(Counted(icache, d, 0 - k), d)
    BY <1>3, <1>9 DEF Unlink
  <2>2. 0 - k \in Int /\ dinode[d].nlink + (0 - k) \in Nat
    BY <1>6, <1>9
  <2> QED BY <1>2, <1>7, <2>1, <2>2, CountedUnlocked
<1>11. /\ pc' = [pc EXCEPT ![p] = "put"] /\ cur' = [cur EXCEPT ![p] = 0]
       /\ drop' = [drop EXCEPT ![p] = d] /\ ret' = [ret EXCEPT ![p] = "unlinked"]
       /\ dir' = [dir EXCEPT ![d][n] = 0]
       /\ UNCHANGED <<call, rest, ip, cwd, file>>
  BY <1>3, <1>5 DEF Unlink, Linked, Iput, Goto
<1>12. /\ cur'[p] = 0 /\ ip'[p] = v /\ drop'[p] = d /\ cwd'[p] = cwd[p]
       /\ file'[p] = file[p] /\ pc'[p] = "put" /\ ret'[p] = "unlinked" /\ call'[p] = call[p]
       /\ Where(p)' = "unlinked"
  BY <1>4, <1>11 DEF IndInv, Typed, Where, Dropping
<1>13. n \in AllNames /\ \A m \in Names : m \in AllNames
  BY DEF AllNames
<1>14. /\ dir' \in [Inums -> [AllNames -> Inums \cup {0}]]
       /\ dir'[d][n] = 0
       /\ \A s \in Inums, m \in Names : s # d \/ m # n => dir'[s][m] = dir[s][m]
  BY <1>11, <1>13 DEF IndInv, Typed
<1>15. Typed'
  BY <1>10, <1>11, <1>14 DEF IndInv, Typed, Caches, Pcs
<1>16. RefsStep(p)
  <2>1. \A s \in Inums : Own(p, s)' = Own(p, s)
    BY <1>2, <1>3, <1>4, <1>12 DEF Own, B, Inums
  <2> QED BY <1>10, <2>1 DEF RefsStep
<1>17. \A s \in Inums : (Holds(p, s)' <=> s = v) /\ (Holds(p, s) <=> (s = d \/ s = v))
  BY <1>2, <1>3, <1>4, <1>12 DEF Holds, CurLocked, CurPcs, IpLocked, Inums
<1>18. LockStep(p)
  BY <1>6, <1>10, <1>17 DEF LockStep, IndInv, LockOK
<1>19. MovesOK(p)
  BY <1>3, <1>4, <1>12 DEF MovesOK
<1>20. \A s \in Inums : dinode'[s].type = dinode[s].type
  BY <1>10
<1>21. DiskStep(p)
  BY <1>2, <1>7, <1>10, <1>14, <1>20 DEF DiskStep
<1>22. PlaceOK(p)'
  BY <1>2, <1>3, <1>4, <1>12 DEF PlaceOK, Dropping, CurPcs, IpPcs, NoIpPcs, LinkPcs, Returns
<1>23. LiveOK(p)'
  <2>1. \A s \in {cwd[p], file[p]} \ {0} : dinode'[s].type = dinode[s].type
    BY <1>20 DEF IndInv, Typed
  <2> QED BY <1>2, <1>3, <1>4, <1>6, <1>12, <1>20, <2>1
      DEF IndInv, LiveOK, DirPcs, CurPcs, LinkPcs, Dropping
<1>24. TruncOK(p)' /\ NewOK(p)'
  BY <1>12 DEF TruncOK, NewOK
<1>25. DiskOK'
  <2>1. Acyclic'
    BY <1>14, AcyclicLess DEF IndInv, DiskOK
  <2>2. \A s \in Inums, m \in Names : dinode'[s].type # "dir" => dir'[s][m] = 0
    BY <1>14, <1>20 DEF IndInv, DiskOK
  <2>3. \A s \in Inums, m \in Names : dir'[s][m] # Root
    BY <1>14 DEF IndInv, DiskOK, Root
  <2>4. \A s \in Inums : dinode'[s].type = "free" => dinode'[s].nlink = 0
    BY <1>6, <1>10 DEF IndInv, DiskOK
  <2>5. dinode'[Root].type = "dir"
    BY <1>20, RootLinked DEF IndInv, DiskOK
  <2> QED BY <2>1, <2>2, <2>3, <2>4, <2>5 DEF DiskOK, Root
<1>26. CountOK'
  <2> SUFFICES ASSUME NEW t \in Inums
               PROVE  NamesOf(t)' + B(Owes(p, t)') + dinode[t].nlink
                        <= NamesOf(t) + B(Owes(p, t)) + dinode'[t].nlink
    BY <1>1, <1>15, KeepsCount DEF IndInv
  <2>1. ~ Owes(p, t) /\ (Owes(p, t)' <=> t = v)
    BY <1>2, <1>4, <1>12 DEF Owes, OwePcs, LinkPcs
  <2>2. dinode[t].nlink \in Nat
    BY DEF IndInv, Typed
  <2>3. Entries(t)' \subseteq IF t = v THEN Entries(t) \ {<<d, n>>} ELSE Entries(t)
    <3> SUFFICES ASSUME NEW s \in Inums, NEW m \in Names, dir'[s][m] = t
                 PROVE  dir[s][m] = t /\ <<s, m>> # <<d, n>>
      BY DEF Entries
    <3>1. t # 0
      BY DEF Inums
    <3> QED BY <1>14, <3>1
  <2>4. t = v => <<d, n>> \in Entries(t)
    BY <1>5 DEF Entries
  <2>5. ASSUME NEW m \in Subdirs(t)'
        PROVE  m \in Subdirs(t) /\ ~ (t = d /\ m = n)
    <3>1. m \in Names /\ dir'[t][m] # 0 /\ dinode'[dir'[t][m]].type = "dir"
      BY DEF Subdirs
    <3>2. dir'[t][m] = dir[t][m] /\ ~ (t = d /\ m = n)
      BY <1>14, <3>1
    <3>3. dir[t][m] \in Inums
      BY <1>13, <3>1, <3>2 DEF IndInv, Typed
    <3> QED BY <1>20, <3>1, <3>2, <3>3 DEF Subdirs
  <2>6. dinode[v].type = "dir" => n \in Subdirs(d)
    BY <1>4, <1>5 DEF Subdirs
  <2>7. CASE t = v
    <3>1. NamesOf(t)' + 1 <= NamesOf(t) /\ NamesOf(t) \in Nat /\ NamesOf(t)' \in Nat
      BY <2>3, <2>4, <2>5, <2>7, NamesFewer
    <3>2. dinode'[t].nlink = dinode[t].nlink
      BY <1>6, <1>10, <2>7
    <3> QED BY <2>1, <2>2, <2>7, <3>1, <3>2 DEF B
  <2>8. CASE t = d
    <3>1. CASE k = 1
      <4>1. Subdirs(t)' \subseteq Subdirs(t) \ {n} /\ n \in Subdirs(t)
        BY <1>9, <2>5, <2>6, <2>8, <3>1
      <4>2. NamesOf(t)' + 1 <= NamesOf(t) /\ NamesOf(t) \in Nat /\ NamesOf(t)' \in Nat
        BY <1>6, <2>3, <2>8, <4>1, NamesFewer
      <4>3. dinode'[t].nlink = dinode[t].nlink - 1
        BY <1>10, <2>2, <2>8, <3>1
      <4> QED BY <1>6, <2>1, <2>2, <2>8, <4>2, <4>3 DEF B
    <3>2. CASE k = 0
      <4>1. NamesOf(t)' <= NamesOf(t) /\ NamesOf(t) \in Nat /\ NamesOf(t)' \in Nat
        BY <1>6, <2>3, <2>5, <2>8, NamesLess
      <4>2. dinode'[t].nlink = dinode[t].nlink
        BY <1>10, <2>2, <2>8, <3>2
      <4> QED BY <1>6, <2>1, <2>2, <2>8, <4>1, <4>2 DEF B
    <3> QED BY <3>1, <3>2
  <2>9. CASE t # v /\ t # d
    <3>1. NamesOf(t)' <= NamesOf(t) /\ NamesOf(t) \in Nat /\ NamesOf(t)' \in Nat
      BY <2>3, <2>5, <2>9, NamesLess
    <3>2. dinode'[t].nlink = dinode[t].nlink
      BY <1>10, <2>9
    <3> QED BY <2>1, <2>2, <2>9, <3>1, <3>2 DEF B
  <2> QED BY <2>7, <2>8, <2>9
<1> QED BY <1>1, <1>10, <1>15, <1>16, <1>18, <1>19, <1>21, <1>22, <1>23, <1>24, <1>25, <1>26, DiskChange

-----------------------------------------------------------------------------
(* create                                                                  *)

\* Only the processes that have freed an inode point to it while it is free.
LEMMA FreePointers ==
  ASSUME IndInv, NEW i \in Inums, dinode[i].type = "free", NEW q \in Procs
  PROVE  /\ i \notin {cur[q], ip[q], cwd[q], file[q]}
         /\ drop[q] = i => pc[q] = "freed"
BY DEF IndInv, LiveOK, Inums

LEMMA IallocStep ==
  ASSUME IndInv, NEW p \in Procs, Ialloc(p)
  PROVE  IndInv'
<1>1. OthersLocal(p)
  BY DEF OthersLocal, Ialloc, Goto, IndInv, Typed
<1>2. /\ Where(p) = "create" /\ pc[p] = "create" /\ drop[p] = 0 /\ rest[p] # << >>
      /\ ip[p] = 0 /\ call[p] \in Calls /\ cwd[p] # 0 /\ Creates(call[p])
  BY DEF Ialloc, Where, Dropping, IndInv, PlaceOK, CurPcs, NoIpPcs
<1>3. PICK d \in Inums : d = cur[p] /\ d # 0
  BY <1>2 DEF IndInv, PlaceOK, CurPcs, Typed
<1>4. PICK i \in Inums : /\ dinode[i].type = "free" /\ icache' = Iget(i)
                         /\ dinode' = [dinode EXCEPT ![i] = [type |-> Made(p), nlink |-> 0]]
                         /\ ip' = [ip EXCEPT ![p] = i]
  BY DEF Ialloc
<1>5. /\ pc' = [pc EXCEPT ![p] = "new"]
      /\ UNCHANGED <<dir, ret, call, rest, cur, drop, cwd, file>>
  BY DEF Ialloc, Goto
<1>6. /\ icache' \in Caches
      /\ \A s \in Inums : /\ icache'[s].ref = icache[s].ref + B(s = i)
                          /\ icache'[s].busy = icache[s].busy
                          /\ SameBut(icache, icache', s)
  BY <1>4, IgetIs DEF IndInv
<1>7. /\ Made(p) \in {"dir", "file"} /\ Made(p)' = Made(p)
      /\ dinode' \in [Inums -> [type : Types, nlink : Nat]]
      /\ dinode'[i] = [type |-> Made(p), nlink |-> 0]
      /\ \A s \in Inums \ {i} : dinode'[s] = dinode[s]
  BY <1>4, <1>5 DEF IndInv, Typed, Made, Types
<1>8. /\ \A q \in Procs : i \notin {cur[q], ip[q], cwd[q], file[q]}
      /\ \A q \in Procs : drop[q] = i => pc[q] = "freed"
      /\ dinode[i].nlink = 0 /\ i # Root /\ i # 0 /\ i # d
      /\ \A n \in Names : dir[i][n] = 0
  <2>1. /\ \A q \in Procs : i \notin {cur[q], ip[q], cwd[q], file[q]}
        /\ \A q \in Procs : drop[q] = i => pc[q] = "freed"
    BY <1>4, FreePointers
  <2>2. dinode[i].nlink = 0 /\ \A n \in Names : dir[i][n] = 0
    BY <1>4 DEF IndInv, DiskOK
  <2>3. i # Root
    BY <1>4, RootLinked
  <2> QED BY <1>3, <2>1, <2>2, <2>3 DEF Inums
<1>9. /\ cur'[p] = d /\ ip'[p] = i /\ drop'[p] = 0 /\ cwd'[p] = cwd[p]
      /\ file'[p] = file[p] /\ pc'[p] = "new" /\ call'[p] = call[p]
      /\ rest'[p] = rest[p] /\ Where(p)' = "new"
  BY <1>2, <1>3, <1>4, <1>5 DEF IndInv, Typed, Where, Dropping
<1>10. Typed'
  <2>1. ip' \in [Procs -> Inums \cup {0}] /\ pc' \in [Procs -> Pcs]
    BY <1>4, <1>5 DEF IndInv, Typed, Pcs
  <2> QED BY <1>5, <1>6, <1>7, <2>1 DEF IndInv, Typed, Caches
<1>11. RefsStep(p)
  <2>1. \A s \in Inums : Own(p, s)' = Own(p, s) + B(s = i)
    BY <1>2, <1>3, <1>8, <1>9 DEF Own, B, Inums
  <2>2. \A s \in Inums : icache[s].ref \in Nat /\ B(s = i) \in Nat
    BY DEF IndInv, Typed, B
  <2> QED BY <1>6, <2>1, <2>2, OwnNat DEF RefsStep
<1>12. LockStep(p)
  <2>1. \A s \in Inums : Holds(p, s)' <=> Holds(p, s)
    BY <1>2, <1>3, <1>9 DEF Holds, CurLocked, CurPcs, IpLocked, Inums
  <2> QED BY <1>6, <2>1 DEF LockStep, IndInv, LockOK
<1>13. MovesOK(p)
  BY <1>2, <1>3, <1>4, <1>9 DEF MovesOK
<1>14. CopyStep(p)
  <2> SUFFICES ASSUME NEW s \in Inums
               PROVE  /\ icache'[s].valid => icache'[s].ref > 0
                      /\ icache'[s].busy # NoProc => icache'[s].valid
                      /\ icache'[s].valid =>
                           \/ SameCopy(s)
                           \/ \E q \in Procs \ {p} : drop[q] = s /\ pc[q] = "freed"
    BY <1>2 DEF CopyStep
  <2>1. icache'[s].valid <=> icache[s].valid
    BY <1>6 DEF SameBut
  <2>2. icache[s].ref \in Nat /\ icache'[s].ref >= icache[s].ref
    <3>1. icache[s].ref \in Nat /\ B(s = i) \in Nat
      BY DEF IndInv, Typed, B
    <3>2. icache'[s].ref = icache[s].ref + B(s = i)
      BY <1>6
    <3> QED BY <3>1, <3>2
  <2>3. icache[s].valid => icache[s].ref > 0
    BY DEF IndInv, CopyOK
  <2>4. CASE s # i
    <3>1. icache'[s].valid => SameCopy(s)
      BY <1>6, <1>7, <2>1, <2>4 DEF SameBut, SameCopy
    <3>2. icache[s].busy # NoProc => icache[s].valid
      BY DEF IndInv, CopyOK
    <3>3. icache'[s].busy = icache[s].busy /\ icache'[s].ref \in Nat
      BY <1>6 DEF Caches
    <3> QED BY <2>1, <2>2, <2>3, <3>1, <3>2, <3>3
  <2>5. CASE s = i
    <3>1. ASSUME icache[s].valid PROVE \E q \in Procs \ {p} : drop[q] = s /\ pc[q] = "freed"
      <4>1. PICK q \in Procs : Points(q, s)
        BY <2>3, <3>1, RefSomebody DEF IndInv
      <4> QED BY <1>2, <1>8, <2>5, <4>1 DEF Points
    <3>2. icache[s].busy # NoProc => icache[s].valid
      BY DEF IndInv, CopyOK
    <3>3. icache'[s].busy = icache[s].busy /\ icache'[s].ref \in Nat
      BY <1>6 DEF Caches
    <3> QED BY <2>1, <2>2, <2>3, <3>1, <3>2, <3>3
  <2> QED BY <2>4, <2>5
<1>15. DiskStep(p)
  BY <1>2, <1>4, <1>5, <1>7 DEF DiskStep
<1>16. PlaceOK(p)'
  BY <1>2, <1>3, <1>8, <1>9 DEF PlaceOK, Dropping, CurPcs, IpPcs, NoIpPcs, LinkPcs, Creates
<1>17. LiveOK(p)'
  <2>1. \A s \in {cur[p], cwd[p], file[p]} \ {0} : dinode'[s].type = dinode[s].type
    BY <1>7, <1>8 DEF IndInv, Typed
  <2>2. dinode[d].type = "dir" /\ dinode'[i].type # "free"
    BY <1>2, <1>3, <1>7 DEF IndInv, LiveOK, DirPcs, CurPcs
  <2> QED BY <1>2, <1>3, <1>8, <1>9, <2>1, <2>2 DEF IndInv, LiveOK, LinkPcs, Dropping
<1>18. TruncOK(p)'
  BY <1>9 DEF TruncOK
<1>19. NewOK(p)'
  <2>1. i \notin {cur'[p], cwd'[p], file'[p]}
    BY <1>3, <1>8, <1>9
  <2>2. \A n \in Names : dir'[i][n] = 0
    BY <1>5, <1>8
  <2>3. \A q \in Procs \ {p} : /\ i \notin {cur'[q], ip'[q], cwd'[q], file'[q]}
                               /\ drop'[q] = i => pc'[q] = "freed"
    BY <1>1, <1>8 DEF OthersLocal
  <2> QED BY <1>7, <1>9, <2>1, <2>2, <2>3 DEF NewOK
<1>20. DiskOK'
  <2>1. Acyclic'
    BY <1>5 DEF IndInv, DiskOK, Acyclic
  <2>2. \A s \in Inums : dinode'[s].type = "free" => dinode'[s].nlink = 0
    BY <1>7 DEF IndInv, DiskOK
  <2>3. \A s \in Inums, n \in Names : dinode'[s].type # "dir" => dir'[s][n] = 0
    BY <1>5, <1>7, <1>8 DEF IndInv, DiskOK
  <2>4. dinode'[Root].type = "dir"
    BY <1>7, <1>8, RootLinked DEF IndInv, DiskOK
  <2> QED BY <1>5, <2>1, <2>2, <2>3, <2>4 DEF IndInv, DiskOK, Root
<1>21. CountOK'
  <2> SUFFICES ASSUME NEW t \in Inums
               PROVE  NamesOf(t)' + B(Owes(p, t)') + dinode[t].nlink
                        <= NamesOf(t) + B(Owes(p, t)) + dinode'[t].nlink
    BY <1>1, <1>10, KeepsCount DEF IndInv
  <2>1. ~ Owes(p, t) /\ ~ Owes(p, t)'
    BY <1>2, <1>9 DEF Owes, OwePcs, LinkPcs
  <2>2. dinode'[t].nlink = dinode[t].nlink /\ dinode[t].nlink \in Nat
    <3>1. dinode[t].nlink \in Nat
      BY DEF IndInv, Typed
    <3> QED BY <1>7, <1>8, <3>1
  <2>3. Entries(t)' \subseteq Entries(t)
    BY <1>5 DEF Entries
  <2>4. Subdirs(t)' \subseteq Subdirs(t)
    <3> SUFFICES ASSUME NEW n \in Names, dir[t][n] # 0, dinode'[dir[t][n]].type = "dir"
                 PROVE  dinode[dir[t][n]].type = "dir"
      BY <1>5 DEF Subdirs
    <3>1. dir[t][n] \in Inums /\ dir[t][n] # i
      BY <1>4, NamedHasLink DEF IndInv
    <3> QED BY <1>7, <3>1
  <2>5. NamesOf(t)' <= NamesOf(t) /\ NamesOf(t) \in Nat /\ NamesOf(t)' \in Nat
    BY <2>3, <2>4, NamesLess
  <2> QED BY <2>1, <2>2, <2>5 DEF B
<1> QED BY <1>1, <1>10, <1>11, <1>12, <1>13, <1>14, <1>15, <1>16, <1>17, <1>18, <1>19, <1>20, <1>21, DiskChange

LEMMA FillStep ==
  ASSUME IndInv, NEW p \in Procs, Fill(p)
  PROVE  IndInv'
<1>1. OthersLocal(p)
  BY DEF OthersLocal, Fill, Iput, Goto, IndInv, Typed
<1>2. /\ Where(p) = "fill" /\ pc[p] = "fill" /\ drop[p] = 0 /\ cwd[p] # 0
      /\ rest[p] # << >> /\ call[p] \in Calls /\ ip[p] # 0
  BY DEF Fill, Where, Dropping, IndInv, PlaceOK, CurPcs, IpPcs
<1>3. PICK d \in Inums : d = cur[p] /\ d # 0
  BY <1>2 DEF IndInv, PlaceOK, CurPcs, Typed
<1>4. PICK i \in Inums : i = ip[p] /\ i # 0
  BY <1>2 DEF IndInv, Typed
<1>5. PICK n \in Names : n = Head(rest[p])
  <2>1. PICK t \in Seq(Names) : t = rest[p] /\ t # << >>
    BY <1>2 DEF IndInv, Typed
  <2> QED BY <2>1, HeadTailProperties
<1>6. /\ dinode[i] = [type |-> Made(p), nlink |-> 0] /\ i # d
      /\ \A m \in Names : dir[i][m] = 0
      /\ Made(p) \in {"dir", "file"} /\ Made(p)' = Made(p)
  BY <1>2, <1>3, <1>4 DEF IndInv, NewOK, Made, Fill
<1>7. /\ dinode[d].type = "dir" /\ dinode[d].nlink \in Nat /\ i # Root
      /\ dinode[i].type # "free" /\ dinode[i].nlink = 0
  <2>1. dinode[d].type = "dir"
    BY <1>2, <1>3 DEF IndInv, LiveOK, DirPcs, CurPcs
  <2>2. dinode[d].nlink \in Nat
    BY DEF IndInv, Typed
  <2>3. i # Root
    BY <1>6, RootLinked
  <2> QED BY <1>6, <2>1, <2>2, <2>3
<1>8. Holds(p, d) /\ Holds(p, i)
  BY <1>2, <1>3, <1>4 DEF Holds, CurLocked, CurPcs, IpLocked
<1>9. /\ icache[d].valid /\ icache[d].busy = p /\ icache[d].nlink = dinode[d].nlink
      /\ icache[d].type = dinode[d].type
      /\ icache[i].valid /\ icache[i].busy = p /\ icache[i].type = dinode[i].type
  BY <1>2, <1>8, LockedCopy
<1>10. PICK k \in {0, 1} : k = (IF Made(p) = "dir" THEN 1 ELSE 0)
  OBVIOUS
<1> DEFINE b == [icache EXCEPT ![i].nlink = 1]
<1> DEFINE c == Counted(b, d, k)
<1>11. /\ icache' = Unlocked(c, d)
       /\ dinode' = [dinode EXCEPT ![i].nlink = 1, ![d].nlink = c[d].nlink]
       /\ dir' = [dir EXCEPT ![i][".."] = IF Made(p) = "dir" THEN d ELSE 0, ![d][n] = i]
  BY <1>3, <1>4, <1>5, <1>10 DEF Fill
<1>12. /\ pc' = [pc EXCEPT ![p] = "put"] /\ cur' = [cur EXCEPT ![p] = 0]
       /\ drop' = [drop EXCEPT ![p] = d]
       /\ ret' = [ret EXCEPT ![p] = IF Made(p) = "dir" THEN "made" ELSE "open"]
       /\ UNCHANGED <<call, rest, ip, cwd, file>>
  BY <1>3 DEF Fill, Iput, Goto
<1>13. /\ b \in Caches /\ b[i].nlink = 1
       /\ \A s \in Inums : /\ b[s].ref = icache[s].ref /\ b[s].busy = icache[s].busy
                           /\ b[s].valid = icache[s].valid /\ b[s].type = icache[s].type
                           /\ s # i => b[s].nlink = icache[s].nlink
  <2>1. icache \in Caches
    BY DEF IndInv, Typed, Caches
  <2>2. \A s \in Inums \ {i} : b[s] = icache[s]
    BY <2>1 DEF Caches
  <2>3. b[i] = [icache[i] EXCEPT !.nlink = 1]
    BY <2>1 DEF Caches
  <2>4. /\ b[i].ref = icache[i].ref /\ b[i].busy = icache[i].busy
        /\ b[i].valid = icache[i].valid /\ b[i].type = icache[i].type /\ b[i].nlink = 1
    <3>1. icache[i] \in [ref : Nat, busy : Procs \cup {NoProc}, valid : BOOLEAN,
                        type : Types, nlink : Nat]
      BY <2>1 DEF Caches
    <3> HIDE DEF b
    <3> QED BY <2>3, <3>1
  <2>5. b \in Caches
    BY <2>1 DEF Caches
  <2> HIDE DEF b
  <2> QED BY <2>2, <2>4, <2>5
<1> HIDE DEF b
<1>14. /\ c \in Caches
       /\ \A s \in Inums : /\ c[s].ref = b[s].ref /\ c[s].busy = b[s].busy
                           /\ c[s].valid = b[s].valid /\ c[s].type = b[s].type
                           /\ c[s].nlink = IF s = d THEN b[s].nlink + k ELSE b[s].nlink
  <2>1. k \in Int /\ b[d].nlink + k \in Nat
    BY <1>6, <1>7, <1>9, <1>13
  <2> QED BY <1>13, <2>1, CountedIs
<1> HIDE DEF c
<1>15. /\ icache' \in Caches
       /\ \A s \in Inums : /\ icache'[s].ref = icache[s].ref
                           /\ icache'[s].busy = IF s = d THEN NoProc ELSE icache[s].busy
                           /\ icache'[s].valid = icache[s].valid
                           /\ icache'[s].type = icache[s].type
                           /\ s # d /\ s # i => icache'[s].nlink = icache[s].nlink
       /\ icache'[d].nlink = dinode[d].nlink + k /\ icache'[i].nlink = 1
       /\ c[d].nlink = dinode[d].nlink + k
  <2>1. /\ icache' \in Caches
        /\ \A s \in Inums : /\ icache'[s].ref = c[s].ref
                            /\ icache'[s].busy = IF s = d THEN NoProc ELSE c[s].busy
                            /\ icache'[s].valid = c[s].valid
                            /\ icache'[s].type = c[s].type
                            /\ icache'[s].nlink = c[s].nlink
    BY <1>11, <1>14, UnlockedIs DEF SameBut
  <2>2. c[d].nlink = dinode[d].nlink + k
    BY <1>6, <1>9, <1>13, <1>14
  <2>3. c[i].nlink = 1
    BY <1>6, <1>13, <1>14
  <2>4. \A s \in Inums : s # d /\ s # i => c[s].nlink = icache[s].nlink
    BY <1>13, <1>14
  <2> QED BY <1>13, <1>14, <2>1, <2>2, <2>3, <2>4
<1>16. /\ dinode' \in [Inums -> [type : Types, nlink : Nat]]
       /\ \A s \in Inums \ {d, i} : dinode'[s] = dinode[s]
       /\ \A s \in Inums : dinode'[s].type = dinode[s].type
       /\ dinode'[d].nlink = dinode[d].nlink + k /\ dinode'[i].nlink = 1
  <2>1. c[d].nlink \in Nat
    BY <1>14 DEF Caches
  <2>2. c[d].nlink = dinode[d].nlink + k
    BY <1>15
  <2>3. /\ dinode \in [Inums -> [type : Types, nlink : Nat]]
        /\ dinode[d] \in [type : Types, nlink : Nat] /\ dinode[i] \in [type : Types, nlink : Nat]
    BY DEF IndInv, Typed
  <2>4. dinode' \in [Inums -> [type : Types, nlink : Nat]]
    BY <1>11, <2>1, <2>3
  <2>5. /\ \A s \in Inums \ {d, i} : dinode'[s] = dinode[s]
        /\ dinode'[i] = [dinode[i] EXCEPT !.nlink = 1]
        /\ dinode'[d] = [dinode[d] EXCEPT !.nlink = c[d].nlink]
    BY <1>6, <1>11, <2>3
  <2>6. /\ dinode'[i].type = dinode[i].type /\ dinode'[i].nlink = 1
        /\ dinode'[d].type = dinode[d].type /\ dinode'[d].nlink = c[d].nlink
    BY <2>3, <2>5
  <2> QED BY <2>2, <2>4, <2>5, <2>6
<1>17. n \in AllNames /\ ".." \in AllNames /\ \A m \in Names : m \in AllNames /\ m # ".."
  BY InodesAssumption DEF AllNames
<1>18. /\ dir' \in [Inums -> [AllNames -> Inums \cup {0}]]
       /\ dir'[d][n] = i
       /\ \A s \in Inums, m \in Names : s # d \/ m # n => dir'[s][m] = dir[s][m]
  BY <1>6, <1>11, <1>17 DEF IndInv, Typed
<1>19. /\ cur'[p] = 0 /\ ip'[p] = i /\ drop'[p] = d /\ cwd'[p] = cwd[p]
       /\ file'[p] = file[p] /\ pc'[p] = "put" /\ ret'[p] \in {"made", "open"}
       /\ call'[p] = call[p] /\ Where(p)' = ret'[p]
  BY <1>4, <1>12 DEF IndInv, Typed, Where, Dropping
<1>20. Typed'
  <2>1. ret' \in [Procs -> Pcs] /\ pc' \in [Procs -> Pcs]
    BY <1>12 DEF IndInv, Typed, Pcs
  <2> QED BY <1>12, <1>15, <1>16, <1>18, <2>1 DEF IndInv, Typed, Caches
<1>21. RefsStep(p)
  <2>1. \A s \in Inums : Own(p, s)' = Own(p, s)
    BY <1>2, <1>3, <1>4, <1>19 DEF Own, B, Inums
  <2> QED BY <1>15, <2>1 DEF RefsStep
<1>22. \A s \in Inums : (Holds(p, s)' <=> s = i) /\ (Holds(p, s) <=> (s = d \/ s = i))
  BY <1>2, <1>3, <1>4, <1>19 DEF Holds, CurLocked, CurPcs, IpLocked, Inums
<1>23. LockStep(p)
  BY <1>6, <1>9, <1>15, <1>22 DEF LockStep
<1>24. MovesOK(p)
  BY <1>3, <1>4, <1>19 DEF MovesOK
<1>25. CopyStep(p)
  <2> SUFFICES ASSUME NEW s \in Inums
               PROVE  /\ icache'[s].valid => icache'[s].ref > 0
                      /\ icache'[s].busy # NoProc => icache'[s].valid
                      /\ icache'[s].valid => CopyOf(s)' \/ SameCopy(s)
    BY <1>2 DEF CopyStep
  <2>1. /\ icache'[s].valid => icache'[s].ref > 0
        /\ icache'[s].busy # NoProc => icache'[s].valid
    BY <1>15 DEF IndInv, CopyOK
  <2>2. CASE s \in {d, i}
    <3>1. dinode'[s] = [type |-> dinode'[s].type, nlink |-> dinode'[s].nlink]
      BY <1>16
    <3>2. dinode'[s].type = icache'[s].type /\ dinode'[s].nlink = icache'[s].nlink
      BY <1>9, <1>15, <1>16, <2>2
    <3>3. dinode'[s] = [type |-> icache'[s].type, nlink |-> icache'[s].nlink]
      BY <3>1, <3>2
    <3> QED BY <2>1, <3>3 DEF CopyOf
  <2>3. CASE s \notin {d, i}
    <3>1. icache'[s].valid => SameCopy(s)
      BY <1>15, <1>16, <2>3 DEF SameCopy
    <3> QED BY <2>1, <3>1
  <2> QED BY <2>2, <2>3
<1>26. DiskStep(p)
  BY <1>2, <1>8, <1>16, <1>18 DEF DiskStep
<1>27. PlaceOK(p)'
  BY <1>2, <1>3, <1>4, <1>19 DEF PlaceOK, Dropping, CurPcs, IpPcs, NoIpPcs, LinkPcs, Returns
<1>28. LiveOK(p)'
  <2>1. \A s \in {cwd[p], file[p]} \ {0} : dinode'[s].type = dinode[s].type
    BY <1>16 DEF IndInv, Typed
  <2> QED BY <1>2, <1>3, <1>4, <1>7, <1>16, <1>19, <2>1
      DEF IndInv, LiveOK, DirPcs, CurPcs, LinkPcs, Dropping
<1>29. TruncOK(p)' /\ NewOK(p)'
  BY <1>19 DEF TruncOK, NewOK
<1>30. DiskOK'
  <2>1. Acyclic'
    <3>1. \A m \in Names : dir'[i][m] = 0
      BY <1>6, <1>18
    <3>2. \A s \in Inums, m \in Names : dir'[s][m] \in {dir[s][m], 0, i}
      BY <1>18
    <3> QED BY <3>1, <3>2, AcyclicMore DEF IndInv, DiskOK
  <2>2. \A s \in Inums, m \in Names : dinode'[s].type # "dir" => dir'[s][m] = 0
    BY <1>7, <1>16, <1>18 DEF IndInv, DiskOK
  <2>3. \A s \in Inums, m \in Names : dir'[s][m] # Root
    BY <1>7, <1>18 DEF IndInv, DiskOK, Root
  <2>4. \A s \in Inums : dinode'[s].type = "free" => dinode'[s].nlink = 0
    BY <1>7, <1>16 DEF IndInv, DiskOK
  <2>5. dinode'[Root].type = "dir"
    BY <1>16, RootLinked DEF IndInv, DiskOK
  <2> QED BY <2>1, <2>2, <2>3, <2>4, <2>5 DEF DiskOK, Root
<1>31. CountOK'
  <2> SUFFICES ASSUME NEW t \in Inums
               PROVE  NamesOf(t)' + B(Owes(p, t)') + dinode[t].nlink
                        <= NamesOf(t) + B(Owes(p, t)) + dinode'[t].nlink
    BY <1>1, <1>20, KeepsCount DEF IndInv
  <2>1. ~ Owes(p, t) /\ ~ Owes(p, t)'
    BY <1>2, <1>19 DEF Owes, OwePcs, LinkPcs
  <2>2. dinode[t].nlink \in Nat
    BY DEF IndInv, Typed
  <2>3. Entries(t)' \subseteq IF t = i THEN Entries(t) \cup {<<d, n>>} ELSE Entries(t)
    <3> SUFFICES ASSUME NEW s \in Inums, NEW m \in Names, dir'[s][m] = t
                 PROVE  dir[s][m] = t \/ (t = i /\ <<s, m>> = <<d, n>>)
      BY DEF Entries
    <3> QED BY <1>18
  <2>4. Subdirs(t)' \subseteq IF t = d /\ k = 1 THEN Subdirs(t) \cup {n} ELSE Subdirs(t)
    <3> SUFFICES ASSUME NEW m \in Names, dir'[t][m] # 0, dinode'[dir'[t][m]].type = "dir"
                 PROVE  \/ dir[t][m] # 0 /\ dinode[dir[t][m]].type = "dir"
                        \/ t = d /\ k = 1 /\ m = n
      BY DEF Subdirs
    <3>1. CASE t = d /\ m = n
      <4>1. dinode[i].type = "dir"
        BY <1>16, <1>18, <3>1
      <4> QED BY <1>6, <1>10, <3>1, <4>1
    <3>2. CASE ~ (t = d /\ m = n)
      <4>1. dir'[t][m] = dir[t][m] /\ dir[t][m] \in Inums
        BY <1>17, <1>18, <3>2 DEF IndInv, Typed
      <4> QED BY <1>16, <4>1
    <3> QED BY <3>1, <3>2
  <2>5. CASE t = i
    <3>1. NamesOf(t)' <= NamesOf(t) + 1 /\ NamesOf(t) \in Nat /\ NamesOf(t)' \in Nat
      BY <1>6, <2>3, <2>4, <2>5, NamesMore
    <3> QED BY <1>7, <1>16, <2>1, <2>2, <2>5, <3>1 DEF B
  <2>6. CASE t = d
    <3>1. CASE k = 1
      <4>1. NamesOf(t)' <= NamesOf(t) + 1 /\ NamesOf(t) \in Nat /\ NamesOf(t)' \in Nat
        BY <1>6, <2>3, <2>4, <2>6, <3>1, NamesMore
      <4> QED BY <1>16, <2>1, <2>2, <2>6, <3>1, <4>1 DEF B
    <3>2. CASE k = 0
      <4>1. NamesOf(t)' <= NamesOf(t) /\ NamesOf(t) \in Nat /\ NamesOf(t)' \in Nat
        BY <1>6, <2>3, <2>4, <2>6, <3>2, NamesLess
      <4> QED BY <1>16, <2>1, <2>2, <2>6, <3>2, <4>1 DEF B
    <3> QED BY <3>1, <3>2
  <2>7. CASE t # i /\ t # d
    <3>1. NamesOf(t)' <= NamesOf(t) /\ NamesOf(t) \in Nat /\ NamesOf(t)' \in Nat
      BY <2>3, <2>4, <2>7, NamesLess
    <3> QED BY <1>16, <2>1, <2>2, <2>7, <3>1 DEF B
  <2> QED BY <2>5, <2>6, <2>7
<1> QED BY <1>1, <1>20, <1>21, <1>23, <1>24, <1>25, <1>26, <1>27, <1>28, <1>29, <1>30, <1>31, DiskChange

-----------------------------------------------------------------------------
(* The invariant.                                                          *)

LEMMA InitRefs ==
  ASSUME Init
  PROVE  RefsCounted
<1> SUFFICES ASSUME NEW s \in Inums PROVE icache[s].ref = Pointers(s)
  BY DEF RefsCounted
<1> DEFINE All == {x \in (1..5) \X Procs : <<cur, ip, drop, cwd, file>>[x[1]][x[2]] = s}
<1>1. \A v \in 1..5, q \in Procs : Slot(v, q) = IF v = 4 THEN 1 ELSE 0
  <2>1. \A q \in Procs : cur[q] = 0 /\ ip[q] = 0 /\ drop[q] = 0 /\ cwd[q] = 1 /\ file[q] = 0
    BY DEF Init
  <2> QED BY <2>1, SlotsAre
<1>2. All = {x \in (1..5) \X Procs : Slot(x[1], x[2]) = s}
  BY DEF Slot
<1>3. Pointers(s) = Cardinality(All)
  BY DEF Pointers
<1> HIDE DEF All
<1>4. CASE s = Root
  <2>1. All = {4} \X Procs
    <3>1. \A v \in 1..5, q \in Procs : <<v, q>> \in All <=> v = 4
      BY <1>1, <1>2, <1>4 DEF Root
    <3>2. \A x \in All : \E v \in 1..5, q \in Procs : x = <<v, q>>
      BY <1>2
    <3> QED BY <3>1, <3>2
  <2>2. IsFiniteSet({4}) /\ Cardinality({4}) = 1 /\ IsFiniteSet(Procs)
    BY FS_Singleton, InodesAssumption
  <2>3. Cardinality({4} \X Procs) = Cardinality({4}) * Cardinality(Procs)
    BY <2>2, FS_Product
  <2>4. Cardinality(Procs) \in Nat
    BY <2>2, FS_CardinalityType
  <2>5. icache[s].ref = Cardinality(Procs)
    BY <1>4 DEF Init, NoEntry
  <2> QED BY <1>3, <2>1, <2>2, <2>3, <2>4, <2>5
<1>5. CASE s # Root
  <2>1. All = {}
    <3>1. \A v \in 1..5, q \in Procs : Slot(v, q) # s
      BY <1>1, <1>5 DEF Root, Inums
    <3> QED BY <1>2, <3>1
  <2>2. icache[s].ref = 0
    BY <1>5 DEF Init, NoEntry
  <2> QED BY <1>3, <2>1, <2>2, FS_EmptySet
<1> QED BY <1>4, <1>5

LEMMA InitDisk ==
  ASSUME Init
  PROVE  DiskOK /\ CountOK
<1>1. \A s \in Inums, n \in Names : dir[s][n] = 0
  <2>1. \A n \in Names : n \in AllNames /\ n # ".."
    BY InodesAssumption DEF AllNames
  <2> QED BY <2>1 DEF Init, NoEntries
<1>2. Root \in Inums
  BY InodesAssumption DEF Root, Inums
<1>3. \A s \in Inums : dinode[s] = IF s = Root THEN [type |-> "dir", nlink |-> 1]
                                                ELSE [type |-> "free", nlink |-> 0]
  BY DEF Init
<1>4. DiskOK
  <2>1. Acyclic
    BY <1>1 DEF Acyclic, Inums
  <2>2. \A s \in Inums, n \in Names : dir[s][n] # Root
    BY <1>1 DEF Root
  <2> QED BY <1>1, <1>2, <1>3, <2>1, <2>2 DEF DiskOK
<1>5. CountOK
  <2> SUFFICES ASSUME NEW s \in Inums
               PROVE  NamesOf(s) + Owed(s) + (IF s = Root THEN 1 ELSE 0) <= dinode[s].nlink
    BY DEF CountOK
  <2>1. Entries(s) = {} /\ Subdirs(s) = {}
    BY <1>1 DEF Entries, Subdirs, Inums
  <2>2. NamesOf(s) = 0
    BY <2>1, NamesNow, FS_EmptySet DEF NamesParts
  <2>3. {p \in Procs : Owes(p, s)} = {}
    BY DEF Owes, Init, Inums
  <2>4. Owed(s) = 0
    BY <2>3, FS_EmptySet DEF Owed
  <2>5. dinode[s].nlink = IF s = Root THEN 1 ELSE 0
    BY <1>3
  <2> QED BY <2>2, <2>4, <2>5
<1> QED BY <1>4, <1>5

LEMMA InitInv ==
  ASSUME Init
  PROVE  IndInv
<1>1. Root \in Inums /\ Cardinality(Procs) \in Nat
  BY InodesAssumption, FS_CardinalityType DEF Root, Inums
<1>2. Typed
  <2>1. dinode \in [Inums -> [type : Types, nlink : Nat]]
    BY DEF Init, Types
  <2>2. dir \in [Inums -> [AllNames -> Inums \cup {0}]]
    <3>1. NoEntries \in [AllNames -> Inums \cup {0}]
      BY DEF NoEntries
    <3>2. [NoEntries EXCEPT ![".."] = Root] \in [AllNames -> Inums \cup {0}]
      BY <1>1, <3>1
    <3> QED BY <3>1, <3>2 DEF Init
  <2>3. icache \in [Inums -> [ref : Nat, busy : Procs \cup {NoProc}, valid : BOOLEAN,
                              type : Types, nlink : Nat]]
    <3>1. NoEntry \in [ref : Nat, busy : Procs \cup {NoProc}, valid : BOOLEAN,
                       type : Types, nlink : Nat]
      BY DEF NoEntry, Types
    <3>2. [NoEntry EXCEPT !.ref = Cardinality(Procs)]
            \in [ref : Nat, busy : Procs \cup {NoProc}, valid : BOOLEAN,
                 type : Types, nlink : Nat]
      BY <1>1, <3>1
    <3> QED BY <3>1, <3>2 DEF Init
  <2>4. /\ pc \in [Procs -> Pcs] /\ ret \in [Procs -> Pcs]
        /\ call \in [Procs -> Calls \cup {NoCall}]
    BY DEF Init, Pcs
  <2>5. rest \in [Procs -> Seq(Names)]
    <3>1. << >> \in Seq(Names)
      OBVIOUS
    <3> QED BY <3>1 DEF Init
  <2>6. /\ cur \in [Procs -> Inums \cup {0}] /\ ip \in [Procs -> Inums \cup {0}]
        /\ drop \in [Procs -> Inums \cup {0}] /\ cwd \in [Procs -> Inums \cup {0}]
        /\ file \in [Procs -> Inums \cup {0}]
    BY <1>1 DEF Init, Root
  <2> QED BY <2>1, <2>2, <2>3, <2>4, <2>5, <2>6 DEF Typed
<1>3. ASSUME NEW p \in Procs
      PROVE  /\ PlaceOK(p) /\ LiveOK(p) /\ TruncOK(p) /\ NewOK(p)
             /\ \A s \in Inums : ~ Holds(p, s)
  <2>1. /\ pc[p] = "idle" /\ cur[p] = 0 /\ ip[p] = 0 /\ drop[p] = 0 /\ cwd[p] = 1
        /\ file[p] = 0 /\ Where(p) = "idle"
    BY DEF Init, Where, Dropping
  <2>2. dinode[1] = [type |-> "dir", nlink |-> 1]
    BY <1>1 DEF Init, Root
  <2>3. PlaceOK(p)
    BY <2>1 DEF PlaceOK, Dropping, CurPcs, IpPcs, NoIpPcs, LinkPcs
  <2>4. LiveOK(p)
    BY <2>1, <2>2 DEF LiveOK, DirPcs, CurPcs, LinkPcs
  <2> QED BY <2>1, <2>3, <2>4 DEF TruncOK, NewOK, Holds, CurLocked, CurPcs, IpLocked
<1>4. \A s \in Inums : icache[s].busy = NoProc /\ ~ icache[s].valid
  BY DEF Init, NoEntry
<1>5. LockOK
  BY <1>3, <1>4, InodesAssumption DEF LockOK
<1>6. CopyOK
  BY <1>4 DEF CopyOK
<1> QED BY <1>2, <1>3, <1>5, <1>6, InitRefs, InitDisk DEF IndInv

LEMMA StutterInv ==
  ASSUME IndInv, UNCHANGED vars
  PROVE  IndInv'
<1>1. /\ dinode' = dinode /\ dir' = dir /\ icache' = icache /\ pc' = pc /\ ret' = ret
      /\ call' = call /\ rest' = rest /\ cur' = cur /\ ip' = ip /\ drop' = drop
      /\ cwd' = cwd /\ file' = file
  BY DEF vars, disk, refs
<1>2. Typed'
  BY <1>1 DEF IndInv, Typed
<1>3. \A p \in Procs : Where(p)' = Where(p)
  BY <1>1 DEF Where
<1>4. \A p \in Procs : PlaceOK(p)' /\ LiveOK(p)' /\ TruncOK(p)' /\ NewOK(p)'
  <2> SUFFICES ASSUME NEW p \in Procs
               PROVE  PlaceOK(p)' /\ LiveOK(p)' /\ TruncOK(p)' /\ NewOK(p)'
    OBVIOUS
  <2>1. PlaceOK(p)'
    BY <1>1, <1>3 DEF IndInv, PlaceOK, Parent, Creates
  <2>2. LiveOK(p)'
    BY <1>1, <1>3 DEF IndInv, LiveOK
  <2>3. TruncOK(p)'
    BY <1>1 DEF IndInv, TruncOK
  <2>4. NewOK(p)'
    BY <1>1 DEF IndInv, NewOK, Made
  <2> QED BY <2>1, <2>2, <2>3, <2>4
<1>5. RefsCounted'
  BY <1>1 DEF IndInv, RefsCounted, Pointers
<1>6. LockOK'
  BY <1>1, <1>3 DEF IndInv, LockOK, Holds
<1>7. CopyOK'
  BY <1>1 DEF IndInv, CopyOK, CopyOf, BeingFreed
<1>8. DiskOK'
  BY <1>1 DEF IndInv, DiskOK, Acyclic
<1>9. CountOK'
  <2>1. \A s \in Inums : NamesOf(s)' = NamesOf(s) /\ Owed(s)' = Owed(s)
    BY <1>1, <1>3 DEF NamesOf, Owed, Owes
  <2> QED BY <1>1, <2>1 DEF IndInv, CountOK
<1> QED BY <1>2, <1>4, <1>5, <1>6, <1>7, <1>8, <1>9 DEF IndInv

LEMMA NextInv ==
  ASSUME NoDotDot, IndInv, Next
  PROVE  IndInv'
<1> SUFFICES ASSUME NEW p \in Procs,
                    \/ \E c \in Calls : Begin(p, c)
                    \/ LockCur(p) \/ LockIp(p)
                    \/ Put(p) \/ Itrunc(p) \/ Freed(p)
                    \/ LookFails(p) \/ LookParent(p) \/ LookNext(p)
                    \/ Open(p) \/ OpenFails(p) \/ Close(p) \/ Chdir(p)
                    \/ LinkOld(p) \/ LinkDir(p) \/ NewName(p) \/ Dirlink(p) \/ LinkDone(p)
                    \/ DropLink(p)
                    \/ Target(p) \/ Unlink(p) \/ NotEmpty(p) \/ Bad(p)
                    \/ Existing(p) \/ Existed(p) \/ Ialloc(p) \/ Fill(p) \/ Mkdir(p)
             PROVE  IndInv'
  BY DEF Next
<1>1. CASE \E c \in Calls : Begin(p, c)
  BY <1>1, BeginStep
<1>2. CASE LockCur(p) \/ LockIp(p)
  BY <1>2, LockCurStep, LockIpStep
<1>3. CASE Put(p) \/ Itrunc(p) \/ Freed(p)
  BY <1>3, PutStep, ItruncStep, FreedStep
<1>4. CASE LookFails(p) \/ LookParent(p) \/ LookNext(p)
  BY <1>4, LookFailsStep, LookParentStep, LookNextStep
<1>5. CASE Open(p) \/ OpenFails(p) \/ Close(p) \/ Chdir(p)
  BY <1>5, OpenStep, OpenFailsStep, CloseStep, ChdirStep
<1>6. CASE LinkOld(p) \/ LinkDir(p) \/ LinkDone(p) \/ DropLink(p)
  BY <1>6, LinkOldStep, LinkDirStep, LinkDoneStep, DropLinkStep
<1>7. CASE NewName(p)
  BY <1>7, NewNameStep
<1>8. CASE Dirlink(p)
  BY <1>8, DirlinkStep
<1>9. CASE Target(p) \/ Unlink(p) \/ NotEmpty(p) \/ Bad(p)
  BY <1>9, TargetStep, UnlinkStep, NotEmptyStep, BadStep
<1>10. CASE Existing(p) \/ Existed(p) \/ Ialloc(p) \/ Fill(p) \/ Mkdir(p)
  BY <1>10, ExistingStep, ExistedStep, IallocStep, FillStep, MkdirStep
<1> QED BY <1>1, <1>2, <1>3, <1>4, <1>5, <1>6, <1>7, <1>8, <1>9, <1>10

\* The invariant holds on every path through the system calls (iget, ilock, iput, namex and
\* their callers in sysfile.c), in whatever order the processes run.
THEOREM Invariance == NoDotDot => (Spec => []IndInv)
<1> SUFFICES ASSUME NoDotDot PROVE Spec => []IndInv
  OBVIOUS
<1>1. Init => IndInv
  BY InitInv
<1>2. IndInv /\ [Next]_vars => IndInv'
  BY NextInv, StutterInv
<1> QED BY <1>1, <1>2, PTL DEF Spec

-----------------------------------------------------------------------------
(* The properties.                                                         *)

LEMMA IndCache ==
  ASSUME IndInv
  PROVE  CacheRight
<1>1. TypeOK
  <2>1. Seq(Names) \subseteq Seq(AllNames)
    <3> SUFFICES ASSUME NEW q \in Seq(Names) PROVE q \in Seq(AllNames)
      OBVIOUS
    <3>1. \A j \in 1..Len(q) : q[j] \in AllNames
      BY DEF AllNames
    <3> QED BY <3>1
  <2>2. rest \in [Procs -> Seq(AllNames)]
    BY <2>1 DEF IndInv, Typed
  <2> QED BY <2>2 DEF IndInv, Typed, TypeOK
<1>2. CacheAgrees
  <2> SUFFICES ASSUME NEW s \in Inums, icache[s].valid, icache[s].busy = NoProc
               PROVE  dinode[s] = [type |-> icache[s].type, nlink |-> icache[s].nlink]
    BY DEF CacheAgrees
  <2>1. CopyOf(s) \/ BeingFreed(s)
    BY DEF IndInv, CopyOK
  <2>2. ~ BeingFreed(s)
    <3> SUFFICES ASSUME NEW p \in Procs, drop[p] = s, pc[p] = "freed" PROVE FALSE
      BY DEF BeingFreed
    <3>1. Holds(p, s)
      BY DEF Holds
    <3> QED BY <3>1, InodesAssumption DEF IndInv, LockOK
  <2> QED BY <2>1, <2>2 DEF CopyOf
<1>3. InUse
  BY DEF IndInv, LiveOK, InUse
<1> QED BY <1>1, <1>2, <1>3 DEF IndInv, CacheRight

LEMMA IndNames ==
  ASSUME IndInv
  PROVE  NamesCovered
<1> SUFFICES ASSUME NEW i \in Inums PROVE NamesOf(i) <= dinode[i].nlink
  BY DEF NamesCovered
<1>1. NamesOf(i) + Owed(i) + (IF i = Root THEN 1 ELSE 0) <= dinode[i].nlink
  BY DEF IndInv, CountOK
<1>2. NamesOf(i) \in Nat /\ dinode[i].nlink \in Nat
  BY NamesNow DEF NamesParts, IndInv, Typed
<1>3. Owed(i) \in Nat
  <2>1. IsFiniteSet({p \in Procs : Owes(p, i)})
    BY InodesAssumption, FS_Subset
  <2> QED BY <2>1, FS_CardinalityType DEF Owed
<1> QED BY <1>1, <1>2, <1>3

\* A process that waits for an inode and has one itself is about to lock what it found in
\* a directory, and nobody else has found a new one.
LEMMA Waiters ==
  ASSUME IndInv, NEW P \in SUBSET Procs, NEW p \in P, WaitsFor(p) \cap P # {}
  PROVE  /\ pc[p] \in {"walk", "parent", "found", "bad", "victim", "exists", "new"}
         /\ \E q \in P : \/ pc[p] \in {"walk", "parent"} /\ Holds(q, cur[p])
                         \/ pc[p] \notin {"walk", "parent"} /\ Holds(q, ip[p])
<1>1. NoProc \notin P
  BY InodesAssumption
<1>2. CASE pc[p] \in {"walk", "parent"}
  <2>1. WaitsFor(p) = {icache[cur[p]].busy}
    BY <1>2, LockPlaces DEF WaitsFor
  <2>2. PICK q \in P : icache[cur[p]].busy = q
    BY <2>1
  <2>3. cur[p] \in Inums
    BY <1>2 DEF IndInv, Typed, PlaceOK, Where, Dropping, CurPcs
  <2>4. Holds(q, cur[p])
    BY <2>2, <2>3 DEF IndInv, LockOK
  <2> QED BY <1>2, <2>4
<1>3. CASE pc[p] \in {"found", "bad", "victim", "exists", "new"}
  <2>1. WaitsFor(p) = {icache[ip[p]].busy}
    BY <1>3, LockPlaces DEF WaitsFor
  <2>2. PICK q \in P : icache[ip[p]].busy = q
    BY <2>1
  <2>3. ip[p] \in Inums
    BY <1>3 DEF IndInv, Typed, PlaceOK, Where, Dropping, IpPcs
  <2>4. Holds(q, ip[p])
    BY <2>2, <2>3 DEF IndInv, LockOK
  <2> QED BY <1>3, <2>4
<1>4. CASE pc[p] \notin {"walk", "parent", "found", "bad", "victim", "exists", "new"}
  <2>1. WaitsFor(p) = {NoProc}
    BY <1>4, LockPlaces DEF WaitsFor
  <2> QED BY <1>1, <2>1
<1> QED BY <1>2, <1>3, <1>4

LEMMA IndWaits ==
  ASSUME IndInv
  PROVE  NoWaitCycle
<1> SUFFICES ASSUME NEW P \in SUBSET Procs, P # {}, \A p \in P : WaitsFor(p) \cap P # {}
             PROVE  FALSE
  BY DEF NoWaitCycle
<1>1. ASSUME NEW p \in P, NEW s, Holds(p, s)
      PROVE  pc[p] \in {"victim", "new"} /\ cur[p] = s
  <2>1. pc[p] \in {"walk", "parent", "found", "bad", "victim", "exists", "new"}
    BY Waiters
  <2> QED BY <1>1, <2>1 DEF Holds, Where, Dropping, CurLocked, CurPcs, IpLocked
<1> DEFINE Q == {q \in P : pc[q] \in {"victim", "new"}}
<1>2. Q # {}
  <2>1. PICK p \in P : TRUE
    OBVIOUS
  <2>2. PICK q \in P : \E s : Holds(q, s)
    BY <2>1, Waiters
  <2> QED BY <1>1, <2>2
<1>3. ASSUME NEW q \in Q
      PROVE  /\ cur[q] \in Inums /\ Head(rest[q]) \in Names
             /\ \E r \in Q : dir[cur[q]][Head(rest[q])] = cur[r]
  <2>1. PICK r \in P : Holds(r, ip[q])
    BY Waiters
  <2>2. r \in Q /\ cur[r] = ip[q]
    BY <1>1, <2>1
  <2>3. pc[q] # "new"
    BY <2>2 DEF IndInv, NewOK
  <2>4. pc[q] = "victim" /\ Where(q) = "victim"
    BY <2>3 DEF Where, Dropping
  <2>5. cur[q] \in Inums
    BY <2>4 DEF IndInv, Typed, PlaceOK, CurPcs
  <2>6. Head(rest[q]) \in Names /\ dir[cur[q]][Head(rest[q])] = ip[q]
    BY <2>4 DEF IndInv, LiveOK
  <2> QED BY <2>2, <2>5, <2>6
<1> HIDE DEF Q
<1> DEFINE S == {cur[q] : q \in Q}
<1>4. S \in (SUBSET Inums) \ {{}}
  BY <1>2, <1>3
<1>5. PICK s \in S : \A n \in Names : dir[s][n] \notin S
  BY <1>4 DEF IndInv, DiskOK, Acyclic
<1>6. PICK q \in Q : s = cur[q]
  BY <1>5
<1> QED BY <1>3, <1>5, <1>6

LEMMA IndPanics ==
  ASSUME IndInv
  PROVE  NeverPanics
<1> SUFFICES ASSUME NEW p \in Procs, Panics(p) PROVE FALSE
  BY DEF NeverPanics
<1>1. ~ (pc[p] \in DOMAIN WithCur(p) /\ WithoutType(cur[p]))
  <2> SUFFICES ASSUME pc[p] \in {"walk", "parent"} PROVE dinode[cur[p]].type # "free"
    BY LockPlaces DEF WithoutType
  <2>1. cur[p] # 0
    BY DEF IndInv, PlaceOK, Where, Dropping, CurPcs
  <2> QED BY <2>1 DEF IndInv, LiveOK
<1>2. ~ (pc[p] \in DOMAIN WithIp(p) /\ WithoutType(ip[p]))
  <2> SUFFICES ASSUME pc[p] \in {"found", "bad", "victim", "exists", "new"}
               PROVE  dinode[ip[p]].type # "free"
    BY LockPlaces DEF WithoutType
  <2>1. ip[p] # 0
    BY DEF IndInv, PlaceOK, Where, Dropping, IpPcs
  <2> QED BY <2>1 DEF IndInv, LiveOK
<1>3. ASSUME pc[p] \in {"look", "dirlink", "target", "unlink", "giveup", "create", "fill"}
      PROVE  cur[p] \in Inums /\ Holds(p, cur[p]) /\ icache[cur[p]].busy = p
  <2>1. Where(p) = pc[p]
    BY <1>3 DEF Where, Dropping
  <2>2. cur[p] \in Inums /\ Holds(p, cur[p])
    BY <1>3, <2>1 DEF IndInv, Typed, PlaceOK, CurPcs, CurLocked, Holds
  <2> QED BY <2>2 DEF IndInv, LockOK
<1>4. ASSUME pc[p] \in {"open", "chdir", "link", "undo", "unlink", "unlinked", "existed",
                        "fill", "made"}
      PROVE  icache[ip[p]].busy = p
  <2>1. Where(p) = pc[p]
    BY <1>4 DEF Where, Dropping
  <2>2. ip[p] \in Inums /\ Holds(p, ip[p])
    BY <1>4, <2>1 DEF IndInv, Typed, PlaceOK, IpPcs, IpLocked, Holds
  <2> QED BY <2>2 DEF IndInv, LockOK
<1>5. ~ (pc[p] \in {"dirlink", "target", "create"} /\ ~ IsDir(cur[p]))
  <2> SUFFICES ASSUME pc[p] \in {"dirlink", "target", "create"} PROVE IsDir(cur[p])
    OBVIOUS
  <2>1. icache[cur[p]].type = dinode[cur[p]].type
    BY <1>3, LockedCopy
  <2>2. dinode[cur[p]].type = "dir"
    BY DEF IndInv, LiveOK, Where, Dropping, DirPcs, CurPcs
  <2> QED BY <2>1, <2>2 DEF IsDir
<1>6. ~ (pc[p] = "unlink" /\ icache[ip[p]].nlink < 1)
  <2> SUFFICES ASSUME pc[p] = "unlink" PROVE ~ (icache[ip[p]].nlink < 1)
    OBVIOUS
  <2>1. Where(p) = "unlink"
    BY DEF Where, Dropping
  <2>2. cur[p] \in Inums /\ ip[p] \in Inums /\ Holds(p, ip[p])
    BY <2>1 DEF IndInv, Typed, PlaceOK, IpPcs, CurPcs, IpLocked, Holds
  <2>3. Head(rest[p]) \in Names /\ dir[cur[p]][Head(rest[p])] = ip[p] /\ ip[p] # 0
    BY <2>2 DEF IndInv, LiveOK, Inums
  <2>4. dinode[ip[p]].nlink > 0
    BY <2>2, <2>3, NamedHasLink DEF IndInv
  <2>5. icache[ip[p]].nlink = dinode[ip[p]].nlink /\ dinode[ip[p]].nlink \in Nat
    BY <2>2, LockedCopy DEF IndInv, Typed
  <2> QED BY <2>4, <2>5
<1>7. ~ (pc[p] = "put" /\ LastPut(drop[p]) /\ icache[drop[p]].busy # NoProc)
  <2> SUFFICES ASSUME pc[p] = "put", LastPut(drop[p]), icache[drop[p]].busy # NoProc
               PROVE  FALSE
    OBVIOUS
  <2>1. PICK s \in Inums : s = drop[p]
    BY DEF IndInv, Typed, PlaceOK, Dropping
  <2>2. PICK q \in Procs : icache[s].busy = q
    BY <2>1 DEF IndInv, Typed
  <2>3. Holds(q, s) /\ s # 0
    BY <2>2 DEF IndInv, LockOK, Inums
  <2>4. /\ s \notin {cur[p], ip[p], cwd[p], file[p]}
        /\ \A r \in Procs \ {p} : ~ Points(r, s)
    BY <2>1, RefAlone DEF IndInv, LastPut
  <2>5. q = p
    BY <2>3, <2>4 DEF Points, Holds
  <2> QED BY <2>3, <2>4, <2>5 DEF Holds
<1> QED BY <1>1, <1>2, <1>3, <1>4, <1>5, <1>6, <1>7 DEF Panics

\* An inode in the cache has as many references as there are pointers to it; what is
\* cached as valid and nobody has locked is what the disk has; and no inode is freed that
\* somebody has open or is in (iget, ilock, iupdate and iput in fs.c).
THEOREM CacheRefsRight == NoDotDot => (Spec => []CacheRight)
<1> SUFFICES ASSUME NoDotDot PROVE Spec => []CacheRight
  OBVIOUS
<1>1. IndInv => CacheRight
  BY IndCache
<1> QED BY <1>1, Invariance, PTL

\* nlink is never below the number of names: link counts before dirlink writes the name, and
\* unlink clears the name before it counts (sys_link, sys_unlink and create in sysfile.c).
THEOREM NamesHaveLinks == NoDotDot => (Spec => []NamesCovered)
<1> SUFFICES ASSUME NoDotDot PROVE Spec => []NamesCovered
  OBVIOUS
<1>1. IndInv => NamesCovered
  BY IndNames
<1> QED BY <1>1, Invariance, PTL

\* Processes that wait in ilock for I_BUSY never wait for each other in a circle (namex,
\* create and sys_unlink lock a directory before what they found in it).
THEOREM LocksInOrder == NoDotDot => (Spec => []NoWaitCycle)
<1> SUFFICES ASSUME NoDotDot PROVE Spec => []NoWaitCycle
  OBVIOUS
<1>1. IndInv => NoWaitCycle
  BY IndWaits
<1> QED BY <1>1, Invariance, PTL

\* No call runs into a panic: "ilock: no type", "iunlock", "iput busy", "dirlookup not DIR"
\* and "unlink: nlink < 1" (fs.c, sysfile.c).
THEOREM NoPanic == NoDotDot => (Spec => []NeverPanics)
<1> SUFFICES ASSUME NoDotDot PROVE Spec => []NeverPanics
  OBVIOUS
<1>1. IndInv => NeverPanics
  BY IndPanics
<1> QED BY <1>1, Invariance, PTL
=============================================================================
