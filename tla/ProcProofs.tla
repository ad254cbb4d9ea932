----------------------------- MODULE ProcProofs -----------------------------
(***************************************************************************)
(* Proofs about Proc, for every size of the table, number of pages and      *)
(* bound on the pids.                                                      *)
(***************************************************************************)
EXTENDS Proc, TLAPS, FiniteSetTheorems

InFork == {"kalloc", "copy", "publish"}

\* A slot that wait can find: alive or a zombie.
Counted(s) == state[s] \in {"SLEEPING", "RUNNABLE", "ZOMBIE"}

\* A fork between allocproc and the last assignment has an EMBRYO of its own,
\* with the pages it has got so far; the slot gets a parent last.
ForkOK ==
  /\ \A p \in Slots : at[p] \in InFork =>
       /\ state[p] = "RUNNABLE"
       /\ np[p] \in Slots
       /\ state[np[p]] = "EMBRYO"
       /\ kstack[np[p]] = (at[p] # "kalloc")
       /\ pgdir[np[p]] = (at[p] = "publish")
       /\ parent[np[p]] = (IF at[p] = "publish" THEN p ELSE 0)
       /\ at[p] = "publish" => child[p] = pid[np[p]]
  /\ \A p, q \in Slots :
       at[p] \in InFork /\ at[q] \in InFork /\ np[p] = np[q] => p = q

\* The child a fork has published is in its slot, alive or a zombie.
ForkedOK ==
  \A p \in Slots : at[p] = "forked" =>
    /\ state[p] = "RUNNABLE"
    /\ np[p] \in Slots
    /\ Counted(np[p])
    /\ parent[np[p]] = p
    /\ child[p] = pid[np[p]]

\* A slot with a parent is a process or about to be published, and it is not
\* its own parent; an unused slot has none.
ParentOK ==
  /\ parent[Init1] = 0
  /\ \A s \in Slots : parent[s] # 0 =>
       /\ parent[s] # s
       /\ \/ Counted(s)
          \/ state[s] = "EMBRYO" /\ at[parent[s]] = "publish" /\ np[parent[s]] = s

\* init does not exit; wait is where a process sleeps.
PlaceOK ==
  /\ Init1 \in Alive /\ at[Init1] # "leave"
  /\ \A p \in Slots : state[p] = "SLEEPING" => at[p] = "wait"

IndInv == TableSound /\ ForkOK /\ ForkedOK /\ ParentOK /\ PlaceOK

-----------------------------------------------------------------------------
(* The slots for which a flag of the table is set. *)
Marks(f) == {s \in Slots : f[s]}

LEMMA MarksFinite ==
  ASSUME NEW f
  PROVE  IsFiniteSet(Marks(f)) /\ Cardinality(Marks(f)) \in Nat
  <1>1. IsFiniteSet(Slots)
    BY ProcAssumption, FS_Interval DEF Slots
  <1>2. IsFiniteSet(Marks(f))
    BY <1>1, FS_Subset DEF Marks
  <1>. QED  BY <1>2, FS_CardinalityType

LEMMA MarkSet ==
  ASSUME NEW f \in [Slots -> BOOLEAN], NEW s \in Slots, ~ f[s]
  PROVE  Cardinality(Marks([f EXCEPT ![s] = TRUE])) = Cardinality(Marks(f)) + 1
  <1>1. Marks([f EXCEPT ![s] = TRUE]) = Marks(f) \cup {s} /\ s \notin Marks(f)
    BY DEF Marks
  <1>. QED  BY <1>1, MarksFinite, FS_AddElement

LEMMA MarkCleared ==
  ASSUME NEW f \in [Slots -> BOOLEAN], NEW s \in Slots, f[s]
  PROVE  Cardinality(Marks([f EXCEPT ![s] = FALSE])) = Cardinality(Marks(f)) - 1
  <1>1. Marks([f EXCEPT ![s] = FALSE]) = Marks(f) \ {s} /\ s \in Marks(f)
    BY DEF Marks
  <1>. QED  BY <1>1, MarksFinite, FS_RemoveElement

(* The pages of the table, with Marks for its two columns. *)
PageSum ==
  free + taken + Cardinality(Marks(kstack)) + Cardinality(Marks(pgdir)) = Pages

SlotPages ==
  \A s \in Slots :
    /\ state[s] = "UNUSED" => ~ kstack[s] /\ ~ pgdir[s]
    /\ s \in Alive \/ state[s] = "ZOMBIE" => kstack[s] /\ pgdir[s]

LEMMA PagesSplit == PagesAccounted <=> PageSum /\ SlotPages
  BY DEF PagesAccounted, PageSum, SlotPages, Marks

LEMMA PagesSplitNext == PagesAccounted' <=> PageSum' /\ SlotPages'
  BY DEF PagesAccounted, PageSum, SlotPages, Marks

LEMMA InitSlot == Init1 \in Slots
  BY ProcAssumption DEF Init1, Slots

LEMMA SlotsInNat == Slots \subseteq Nat \ {0}
  BY ProcAssumption DEF Slots

-----------------------------------------------------------------------------
LEMMA InitInv == Init => IndInv
  <1> SUFFICES ASSUME Init PROVE IndInv
    OBVIOUS
  <1> USE InitSlot, SlotsInNat
  <1>1. TypeOK
    <2>1. Init1 \in Slots /\ 1 \in 0..MaxPid /\ 2 \in 1..MaxPid /\ Pages - 2 \in 0..Pages
      BY ProcAssumption DEF Init1
    <2>. QED  BY <2>1, ProcAssumption DEF Init, TypeOK, States, Pcs
  <1>2. LiveParents /\ WaiterNotForgotten /\ ChildKept
    BY DEF Init, LiveParents, WaiterNotForgotten, ChildKept, Runs, Alive
  <1>3. PageSum
    <2>1. Marks(kstack) = {Init1} /\ Marks(pgdir) = {Init1}
      BY DEF Init, Marks
    <2>2. Cardinality(Marks(kstack)) = 1 /\ Cardinality(Marks(pgdir)) = 1
      BY <2>1, FS_Singleton
    <2>. QED  BY <2>2, ProcAssumption DEF Init, PageSum
  <1>4. SlotPages
    BY DEF Init, SlotPages, Alive
  <1>5. ForkOK /\ ForkedOK /\ ParentOK /\ PlaceOK
    BY DEF Init, ForkOK, ForkedOK, ParentOK, PlaceOK, InFork, Counted, Alive
  <1>. QED  BY <1>1, <1>2, <1>3, <1>4, <1>5, PagesSplit DEF IndInv, TableSound

LEMMA ForkInv ==
  ASSUME IndInv, NEW p \in Slots, Fork(p)
  PROVE  IndInv'
  <1> USE DEF IndInv, TableSound
  <1> PICK s \in Slots :
         /\ state[s] = "UNUSED"
         /\ state' = Marked(s)
         /\ pid' = [pid EXCEPT ![s] = nextpid]
         /\ np' = [np EXCEPT ![p] = s]
    BY DEF Fork
  <1>0. p # s /\ parent[s] = 0 /\ ~ kstack[s] /\ ~ pgdir[s] /\ s # Init1
    BY DEF Fork, Runs, ParentOK, Counted, PagesAccounted, PlaceOK, Alive
  <1>1. TypeOK'
    BY ProcAssumption DEF TypeOK, Fork, Marked, Goto, Pcs, States
  <1>2. LiveParents'
    BY <1>0 DEF TypeOK, Fork, Runs, Marked, Goto, LiveParents, Alive
  <1>3. WaiterNotForgotten'
    BY <1>0 DEF TypeOK, Fork, Runs, Marked, Goto, WaiterNotForgotten, Children
  <1>4. PagesAccounted'
    <2>1. PageSum'
      BY PagesSplit DEF PageSum, Fork
    <2>2. SlotPages'
      BY PagesSplit, <1>0 DEF TypeOK, Fork, Marked, SlotPages, Alive
    <2>. QED  BY <2>1, <2>2, PagesSplitNext
  <1>5. ChildKept'
    BY <1>0 DEF TypeOK, Fork, Runs, Goto, Marked, ForkedOK, Counted, ChildKept
  <1>6. ForkOK'
    BY <1>0 DEF TypeOK, Fork, Runs, Goto, Marked, ForkOK, InFork
  <1>7. ForkedOK'
    BY <1>0 DEF TypeOK, Fork, Runs, Goto, Marked, ForkedOK, Counted
  <1>8. ParentOK'
    BY <1>0 DEF TypeOK, Fork, Runs, Goto, Marked, ParentOK, Counted
  <1>9. PlaceOK'
    BY <1>0, InitSlot DEF TypeOK, Fork, Runs, Goto, Marked, PlaceOK, Alive
  <1>. QED  BY <1>1, <1>2, <1>3, <1>4, <1>5, <1>6, <1>7, <1>8, <1>9

LEMMA AllocStackInv ==
  ASSUME IndInv, NEW p \in Slots, AllocStack(p)
  PROVE  IndInv'
  <1> USE DEF IndInv, TableSound
  <1> DEFINE s == np[p]
  <1>0. /\ s \in Slots /\ state[s] = "EMBRYO" /\ s # p /\ s # Init1
        /\ parent[s] = 0 /\ ~ kstack[s] /\ ~ pgdir[s]
        /\ at[p] = "kalloc" /\ state[p] = "RUNNABLE"
        /\ \A q \in Slots : q # p /\ at[q] \in InFork => np[q] # s
        /\ at[s] \notin InFork \cup {"forked"}
    BY DEF AllocStack, Runs, ForkOK, ForkedOK, InFork, PlaceOK, Alive, TypeOK
  <1> HIDE DEF s
  <1>a. \/ /\ free > 0 /\ free' = free - 1
           /\ kstack' = [kstack EXCEPT ![s] = TRUE]
           /\ Goto(p, "copy")
           /\ UNCHANGED state
        \/ /\ state' = [state EXCEPT ![s] = "UNUSED"]
           /\ Goto(p, "user")
           /\ UNCHANGED <<free, kstack>>
    BY DEF AllocStack, s
  <1>b. UNCHANGED <<pid, parent, killed, pgdir, taken, nextpid, np, child>> /\ np[p] = s
    BY DEF AllocStack, s
  <1>1. TypeOK'
    <2>1. free' \in 0..Pages
      BY <1>a, ProcAssumption DEF TypeOK
    <2>3. kstack' \in [Slots -> BOOLEAN] /\ state' \in [Slots -> States]
      BY <1>0, <1>a DEF TypeOK, States
    <2>2. at' \in [Slots -> Pcs]
      BY <1>a DEF TypeOK, Goto, Pcs
    <2>. QED  BY <2>1, <2>2, <2>3, <1>b DEF TypeOK
  <1>2. LiveParents'
    BY <1>0, <1>a, <1>b DEF TypeOK, Goto, LiveParents, Alive
  <1>3. WaiterNotForgotten'
    BY <1>0, <1>a, <1>b DEF TypeOK, Goto, WaiterNotForgotten, Children
  <1>4. PagesAccounted'
    <2>1. PageSum'
      BY PagesSplit, MarksFinite, MarkSet, <1>0, <1>a, <1>b, ProcAssumption
      DEF PageSum, TypeOK
    <2>2. SlotPages'
      BY PagesSplit, <1>0, <1>a, <1>b DEF TypeOK, SlotPages, Alive
    <2>. QED  BY <2>1, <2>2, PagesSplitNext
  <1>5. ChildKept'
    BY <1>0, <1>a, <1>b DEF TypeOK, Runs, Goto, ForkedOK, Counted, ChildKept
  <1>6. ForkOK'
    <2>1. \A q \in Slots : at'[q] \in InFork => at[q] \in InFork
      BY <1>0, <1>a, <1>b DEF TypeOK, Goto, InFork
    <2>2. \A q, r \in Slots :
            at'[q] \in InFork /\ at'[r] \in InFork /\ np'[q] = np'[r] => q = r
      BY <2>1, <1>a, <1>b DEF ForkOK
    <2>3. \A q \in Slots : q # p /\ at'[q] \in InFork => q # s /\ at'[q] = at[q] /\ np[q] # s
      BY <1>0, <2>1, <1>a, <1>b DEF TypeOK, Goto
    <2>4. ASSUME NEW q \in Slots, q # p, at'[q] \in InFork
          PROVE  /\ state'[q] = "RUNNABLE"
                 /\ np'[q] \in Slots
                 /\ state'[np'[q]] = "EMBRYO"
                 /\ kstack'[np'[q]] = (at'[q] # "kalloc")
                 /\ pgdir'[np'[q]] = (at'[q] = "publish")
                 /\ parent'[np'[q]] = (IF at'[q] = "publish" THEN q ELSE 0)
                 /\ at'[q] = "publish" => child'[q] = pid'[np'[q]]
      <3>1. /\ np[q] \in Slots /\ np[q] # s /\ np' = np /\ q # s /\ at[q] \in InFork
            /\ at'[q] = at[q] /\ child'[q] = child[q]
        BY <2>1, <2>3, <2>4, <1>a, <1>b DEF ForkOK, TypeOK
      <3>2. /\ state'[np[q]] = state[np[q]] /\ kstack'[np[q]] = kstack[np[q]]
            /\ pgdir'[np[q]] = pgdir[np[q]] /\ parent'[np[q]] = parent[np[q]]
            /\ pid' = pid /\ state'[q] = state[q]
        BY <3>1, <1>a, <1>b DEF TypeOK
      <3>. QED  BY <3>1, <3>2 DEF ForkOK
    <2>5. at'[p] \in InFork =>
            /\ state'[p] = "RUNNABLE"
            /\ np'[p] \in Slots
            /\ state'[np'[p]] = "EMBRYO"
            /\ kstack'[np'[p]] = (at'[p] # "kalloc")
            /\ pgdir'[np'[p]] = (at'[p] = "publish")
            /\ parent'[np'[p]] = (IF at'[p] = "publish" THEN p ELSE 0)
            /\ at'[p] = "publish" => child'[p] = pid'[np'[p]]
      BY <1>0, <1>a, <1>b DEF TypeOK, Goto, InFork
    <2>. QED  BY <2>2, <2>4, <2>5 DEF ForkOK
  <1>7. ForkedOK'
    BY <1>0, <1>a, <1>b DEF TypeOK, Goto, ForkedOK, Counted
  <1>8. ParentOK'
    <2> SUFFICES ASSUME NEW x \in Slots, parent'[x] # 0
                 PROVE  /\ parent'[x] # x
                        /\ \/ Counted(x)'
                           \/ state'[x] = "EMBRYO" /\ at'[parent'[x]] = "publish" /\ np'[parent'[x]] = x
      BY <1>0, <1>a, <1>b, InitSlot DEF TypeOK, ParentOK
    <2>1. CASE x = s
      BY <2>1, <1>0, <1>a, <1>b DEF TypeOK, Goto, Counted
    <2>2. CASE x # s
      <3>1. parent[x] \in Slots /\ parent'[x] = parent[x] /\ state'[x] = state[x] /\ np' = np
        BY <2>2, <1>0, <1>a, <1>b DEF TypeOK
      <3>2. /\ parent[x] # x
            /\ \/ Counted(x)
               \/ state[x] = "EMBRYO" /\ at[parent[x]] = "publish" /\ np[parent[x]] = x
        BY <3>1, SlotsInNat DEF ParentOK
      <3>. QED  BY <3>1, <3>2, <2>2, <1>0, <1>a, <1>b DEF TypeOK, Goto, Counted, InFork
    <2>. QED  BY <2>1, <2>2
  <1>9. PlaceOK'
    BY <1>0, <1>a, <1>b, InitSlot DEF TypeOK, Goto, PlaceOK, Alive
  <1>. QED  BY <1>1, <1>2, <1>3, <1>4, <1>5, <1>6, <1>7, <1>8, <1>9

LEMMA CopyMemoryInv ==
  ASSUME IndInv, NEW p \in Slots, CopyMemory(p)
  PROVE  IndInv'
  <1> USE DEF IndInv, TableSound
  <1> DEFINE s == np[p]
  <1>0. /\ s \in Slots /\ state[s] = "EMBRYO" /\ s # p /\ s # Init1
        /\ parent[s] = 0 /\ kstack[s] /\ ~ pgdir[s]
        /\ at[p] = "copy" /\ state[p] = "RUNNABLE"
        /\ \A q \in Slots : q # p /\ at[q] \in InFork => np[q] # s
        /\ at[s] \notin InFork \cup {"forked"}
    BY DEF CopyMemory, Runs, ForkOK, ForkedOK, InFork, PlaceOK, Alive, TypeOK
  <1> HIDE DEF s
  <1>a. \/ /\ free > 0 /\ free' = free - 1
           /\ pgdir' = [pgdir EXCEPT ![s] = TRUE]
           /\ parent' = [parent EXCEPT ![s] = p]
           /\ child' = [child EXCEPT ![p] = pid[s]]
           /\ Goto(p, "publish")
           /\ UNCHANGED <<kstack, state>>
        \/ /\ free' = free + 1
           /\ kstack' = [kstack EXCEPT ![s] = FALSE]
           /\ state' = [state EXCEPT ![s] = "UNUSED"]
           /\ Goto(p, "user")
           /\ UNCHANGED <<pgdir, parent, child>>
    BY DEF CopyMemory, FreeStack, s
  <1>b. UNCHANGED <<pid, killed, taken, nextpid, np>> /\ np[p] = s
    BY DEF CopyMemory, s
  <1>4. PagesAccounted'
    <2>1. PageSum'
      BY PagesSplit, MarksFinite, MarkSet, MarkCleared, <1>0, <1>a, <1>b, ProcAssumption
      DEF PageSum, TypeOK
    <2>2. SlotPages'
      BY PagesSplit, <1>0, <1>a, <1>b DEF TypeOK, SlotPages, Alive
    <2>. QED  BY <2>1, <2>2, PagesSplitNext
  <1>1. TypeOK'
    <2>1. free' \in 0..Pages
      BY <1>4, <1>a, <1>b, PagesSplitNext, MarksFinite, ProcAssumption DEF PageSum, TypeOK
    <2>2. /\ kstack' \in [Slots -> BOOLEAN] /\ pgdir' \in [Slots -> BOOLEAN]
          /\ state' \in [Slots -> States]
      BY <1>0, <1>a DEF TypeOK, States
    <2>3. /\ parent' \in [Slots -> Slots \cup {0}] /\ child' \in [Slots -> 0..MaxPid]
          /\ at' \in [Slots -> Pcs]
      BY <1>0, <1>a DEF TypeOK, Goto, Pcs
    <2>. QED  BY <2>1, <2>2, <2>3, <1>b DEF TypeOK
  <1>2. LiveParents'
    BY <1>0, <1>a, <1>b DEF TypeOK, Goto, LiveParents, Alive
  <1>3. WaiterNotForgotten'
    <2>1. \A q \in Slots : state'[q] = "SLEEPING" => q # p /\ state[q] = "SLEEPING"
      BY <1>0, <1>a DEF TypeOK
    <2>2. \A x \in Slots : state'[x] = "ZOMBIE" => state[x] = "ZOMBIE"
      BY <1>0, <1>a DEF TypeOK
    <2>3. ASSUME NEW q \in Slots, q # p PROVE Children(q)' = Children(q)
      <3>1. \A x \in Slots : x # s => parent'[x] = parent[x]
        BY <1>0, <1>a DEF TypeOK
      <3>2. parent[s] # q /\ parent'[s] # q
        BY <2>3, <1>0, <1>a, SlotsInNat DEF TypeOK
      <3>. QED  BY <3>1, <3>2 DEF Children
    <2>. QED  BY <2>1, <2>2, <2>3, <1>b DEF WaiterNotForgotten, Children
  <1>5. ChildKept'
    BY <1>0, <1>a, <1>b DEF TypeOK, Runs, Goto, ForkedOK, Counted, ChildKept
  <1>6. ForkOK'
    <2>1. \A q \in Slots : at'[q] \in InFork => at[q] \in InFork
      BY <1>0, <1>a, <1>b DEF TypeOK, Goto, InFork
    <2>2. \A q, r \in Slots :
            at'[q] \in InFork /\ at'[r] \in InFork /\ np'[q] = np'[r] => q = r
      BY <2>1, <1>a, <1>b DEF ForkOK
    <2>3. \A q \in Slots : q # p /\ at'[q] \in InFork => q # s /\ at'[q] = at[q] /\ np[q] # s
      BY <1>0, <2>1, <1>a, <1>b DEF TypeOK, Goto
    <2>4. ASSUME NEW q \in Slots, q # p, at'[q] \in InFork
          PROVE  /\ state'[q] = "RUNNABLE"
                 /\ np'[q] \in Slots
                 /\ state'[np'[q]] = "EMBRYO"
                 /\ kstack'[np'[q]] = (at'[q] # "kalloc")
                 /\ pgdir'[np'[q]] = (at'[q] = "publish")
                 /\ parent'[np'[q]] = (IF at'[q] = "publish" THEN q ELSE 0)
                 /\ at'[q] = "publish" => child'[q] = pid'[np'[q]]
      <3>1. /\ np[q] \in Slots /\ np[q] # s /\ np' = np /\ q # s /\ at[q] \in InFork
            /\ at'[q] = at[q] /\ child'[q] = child[q]
        BY <2>1, <2>3, <2>4, <1>a, <1>b DEF ForkOK, TypeOK
      <3>2. /\ state'[np[q]] = state[np[q]] /\ kstack'[np[q]] = kstack[np[q]]
            /\ pgdir'[np[q]] = pgdir[np[q]] /\ parent'[np[q]] = parent[np[q]]
            /\ pid' = pid /\ state'[q] = state[q]
        BY <3>1, <1>a, <1>b DEF TypeOK
      <3>. QED  BY <3>1, <3>2 DEF ForkOK
    <2>5. at'[p] \in InFork =>
            /\ state'[p] = "RUNNABLE"
            /\ np'[p] \in Slots
            /\ state'[np'[p]] = "EMBRYO"
            /\ kstack'[np'[p]] = (at'[p] # "kalloc")
            /\ pgdir'[np'[p]] = (at'[p] = "publish")
            /\ parent'[np'[p]] = (IF at'[p] = "publish" THEN p ELSE 0)
            /\ at'[p] = "publish" => child'[p] = pid'[np'[p]]
      BY ZenonT(60), <1>0, <1>a, <1>b DEF TypeOK, Goto, InFork
    <2>. QED  BY <2>2, <2>4, <2>5 DEF ForkOK
  <1>7. ForkedOK'
    BY <1>0, <1>a, <1>b DEF TypeOK, Goto, ForkedOK, Counted
  <1>8. ParentOK'
    <2> SUFFICES ASSUME NEW x \in Slots, parent'[x] # 0
                 PROVE  /\ parent'[x] # x
                        /\ \/ Counted(x)'
                           \/ state'[x] = "EMBRYO" /\ at'[parent'[x]] = "publish" /\ np'[parent'[x]] = x
      BY <1>0, <1>a, <1>b, InitSlot DEF TypeOK, ParentOK
    <2>1. CASE x = s
      BY <2>1, <1>0, <1>a, <1>b DEF TypeOK, Goto, Counted
    <2>2. CASE x # s
      <3>1. parent[x] \in Slots /\ parent'[x] = parent[x] /\ state'[x] = state[x] /\ np' = np
        BY <2>2, <1>0, <1>a, <1>b DEF TypeOK
      <3>2. /\ parent[x] # x
            /\ \/ Counted(x)
               \/ state[x] = "EMBRYO" /\ at[parent[x]] = "publish" /\ np[parent[x]] = x
        BY <3>1, SlotsInNat DEF ParentOK
      <3>. QED  BY <3>1, <3>2, <2>2, <1>0, <1>a, <1>b DEF TypeOK, Goto, Counted, InFork
    <2>. QED  BY <2>1, <2>2
  <1>9. PlaceOK'
    BY <1>0, <1>a, <1>b, InitSlot DEF TypeOK, Goto, PlaceOK, Alive
  <1>. QED  BY <1>1, <1>2, <1>3, <1>4, <1>5, <1>6, <1>7, <1>8, <1>9

LEMMA PublishInv ==
  ASSUME IndInv, NEW p \in Slots, Publish(p)
  PROVE  IndInv'
  <1> USE DEF IndInv, TableSound
  <1> DEFINE s == np[p]
  <1>0. /\ s \in Slots /\ state[s] = "EMBRYO" /\ s # p /\ s # Init1
        /\ parent[s] = p /\ kstack[s] /\ pgdir[s] /\ child[p] = pid[s]
        /\ at[p] = "publish" /\ state[p] = "RUNNABLE"
        /\ \A q \in Slots : q # p /\ at[q] \in InFork => np[q] # s
        /\ at[s] \notin InFork \cup {"forked"}
    BY DEF Publish, Runs, ForkOK, ForkedOK, InFork, PlaceOK, Alive, TypeOK
  <1> HIDE DEF s
  <1>a. /\ state' = [state EXCEPT ![s] = "RUNNABLE"]
        /\ at' = [at EXCEPT ![p] = "forked", ![s] = "user"]
        /\ UNCHANGED <<pid, parent, killed, kstack, pgdir, free, taken, nextpid, np, child>>
        /\ np[p] = s
    BY DEF Publish, s
  <1>1. TypeOK'
    <2>1. state' \in [Slots -> States] /\ at' \in [Slots -> Pcs]
      BY <1>0, <1>a DEF TypeOK, Pcs, States
    <2>. QED  BY <2>1, <1>a DEF TypeOK
  <1>2. LiveParents'
    BY <1>0, <1>a DEF TypeOK, LiveParents, Alive
  <1>3. WaiterNotForgotten'
    <2>1. \A q \in Slots : state'[q] = "SLEEPING" => state[q] = "SLEEPING"
      BY <1>0, <1>a DEF TypeOK
    <2>2. \A q \in Slots : state'[q] = "ZOMBIE" => state[q] = "ZOMBIE"
      BY <1>0, <1>a DEF TypeOK
    <2>. QED  BY <2>1, <2>2, <1>a DEF WaiterNotForgotten, Children
  <1>4. PagesAccounted'
    <2>1. PageSum'
      BY PagesSplit, <1>a DEF PageSum
    <2>2. SlotPages'
      BY PagesSplit, <1>0, <1>a DEF TypeOK, SlotPages, Alive
    <2>. QED  BY <2>1, <2>2, PagesSplitNext
  <1>5. ChildKept'
    BY <1>0, <1>a DEF TypeOK, Runs, ForkedOK, Counted, ChildKept
  <1>6. ForkOK'
    BY <1>0, <1>a DEF TypeOK, ForkOK, InFork
  <1>7. ForkedOK'
    BY <1>0, <1>a DEF TypeOK, ForkedOK, Counted
  <1>8. ParentOK'
    <2> SUFFICES ASSUME NEW x \in Slots, parent'[x] # 0
                 PROVE  /\ parent'[x] # x
                        /\ \/ Counted(x)'
                           \/ state'[x] = "EMBRYO" /\ at'[parent'[x]] = "publish" /\ np'[parent'[x]] = x
      BY <1>0, <1>a, InitSlot DEF TypeOK, ParentOK
    <2>1. CASE x = s
      BY <2>1, <1>0, <1>a DEF TypeOK, Goto, Counted
    <2>2. CASE x # s
      <3>1. parent[x] \in Slots /\ parent'[x] = parent[x] /\ state'[x] = state[x] /\ np' = np
        BY <2>2, <1>0, <1>a DEF TypeOK
      <3>2. /\ parent[x] # x
            /\ \/ Counted(x)
               \/ state[x] = "EMBRYO" /\ at[parent[x]] = "publish" /\ np[parent[x]] = x
        BY <3>1, SlotsInNat DEF ParentOK
      <3>. QED  BY <3>1, <3>2, <2>2, <1>0, <1>a DEF TypeOK, Goto, Counted, InFork
    <2>. QED  BY <2>1, <2>2
  <1>9. PlaceOK'
    BY <1>0, <1>a, InitSlot DEF TypeOK, PlaceOK, Alive
  <1>. QED  BY <1>1, <1>2, <1>3, <1>4, <1>5, <1>6, <1>7, <1>8, <1>9

(* Steps that only move a program counter: fork returns, exit begins, wait *)
(* begins.                                                                 *)
LEMMA MovesInv ==
  ASSUME IndInv, NEW p \in Slots, Forked(p) \/ Exit(p) \/ Wait(p)
  PROVE  IndInv'
  <1> USE DEF IndInv, TableSound
  <1>0. /\ state[p] = "RUNNABLE" /\ at[p] \in {"user", "forked"}
        /\ at' = [at EXCEPT ![p] = at'[p]] /\ at'[p] \in {"user", "leave", "wait"}
        /\ at'[p] = "leave" => p # Init1
        /\ UNCHANGED <<state, pid, parent, killed, kstack, pgdir, free, taken, nextpid, np, child>>
    BY DEF Forked, Exit, Wait, Runs, Goto, TypeOK
  <1>1. TypeOK'
    BY <1>0 DEF TypeOK, Pcs
  <1>2. LiveParents' /\ WaiterNotForgotten'
    BY <1>0 DEF LiveParents, WaiterNotForgotten, Children, Alive
  <1>3. PagesAccounted'
    BY <1>0 DEF PagesAccounted, Alive
  <1>4. ChildKept'
    BY <1>0 DEF TypeOK, ChildKept, Runs
  <1>5. ForkOK'
    BY <1>0 DEF TypeOK, ForkOK, InFork
  <1>6. ForkedOK'
    BY <1>0 DEF TypeOK, ForkedOK, Counted
  <1>7. ParentOK'
    <2>1. \A q \in Slots : at[q] = "publish" => at'[q] = "publish"
      BY <1>0 DEF TypeOK
    <2>2. \A s \in Slots : parent[s] # 0 => parent[s] \in Slots
      BY DEF TypeOK
    <2>. QED  BY <2>1, <2>2, <1>0 DEF ParentOK, Counted
  <1>8. PlaceOK'
    BY <1>0, InitSlot DEF TypeOK, PlaceOK, Alive
  <1>. QED  BY <1>1, <1>2, <1>3, <1>4, <1>5, <1>6, <1>7, <1>8

LEMMA LeaveInv ==
  ASSUME IndInv, NEW p \in Slots, Leave(p)
  PROVE  IndInv'
  <1> USE DEF IndInv, TableSound
  <1>0. /\ state[p] = "RUNNABLE" /\ at[p] = "leave" /\ p # Init1
        /\ parent[p] \in Alive \ {p} /\ Init1 \in Alive
        /\ parent' = Reparent(p)
        /\ UNCHANGED <<pid, killed, kstack, pgdir, free, taken, nextpid, at, np, child>>
    <2>1. state[p] = "RUNNABLE" /\ at[p] = "leave" /\ p # Init1 /\ Init1 \in Alive
      BY DEF Leave, Runs, PlaceOK
    <2>2. parent[p] \in Alive
      BY <2>1 DEF LiveParents, Alive
    <2>3. parent[p] # p
      BY <2>2, SlotsInNat DEF ParentOK, Alive
    <2>. QED  BY <2>1, <2>2, <2>3 DEF Leave
  <1>a. /\ state'[p] = "ZOMBIE"
        /\ \A s \in Slots : s # p =>
             /\ state'[s] = state[s] \/ (state[s] = "SLEEPING" /\ state'[s] = "RUNNABLE")
             /\ s \in Told(p) => state'[s] # "SLEEPING"
        /\ state' \in [Slots -> States]
    BY DEF Leave, TypeOK, States
  <1>b. \A s \in Slots :
          /\ parent[s] = p => parent'[s] = Init1
          /\ parent[s] # p => parent'[s] = parent[s]
    BY <1>0 DEF Reparent
  <1>c. \A s \in Slots : parent[s] = p => s # p /\ s # Init1 /\ Counted(s)
    BY <1>0, SlotsInNat DEF ParentOK
  <1>d. Alive' = Alive \ {p} /\ p \in Alive
    BY <1>0, <1>a DEF Alive
  <1>1. TypeOK'
    BY <1>0, <1>a, InitSlot DEF TypeOK, Reparent
  <1>2. LiveParents'
    BY <1>0, <1>a, <1>b, <1>d DEF LiveParents
  <1>3. WaiterNotForgotten'
    <2> SUFFICES ASSUME NEW q \in Slots, state'[q] = "SLEEPING"
                 PROVE  /\ Children(q)' # {}
                        /\ \A s \in Children(q)' : state'[s] # "ZOMBIE"
                        /\ ~ killed'[q]
      BY DEF WaiterNotForgotten
    <2>1. state[q] = "SLEEPING" /\ q # p /\ q \notin Told(p)
      BY <1>a
    <2>2. q # parent[p] /\ (q = Init1 => \A s \in Children(p) : state[s] # "ZOMBIE")
      BY <2>1 DEF Told
    <2>3. Children(q) \subseteq Children(q)'
      BY <2>1, <1>b DEF Children
    <2>4. ASSUME NEW s \in Children(q)' PROVE state'[s] # "ZOMBIE"
      <3>1. s \in Slots /\ s # p
        BY <2>2, <2>1, <1>0, <1>b DEF Children
      <3>2. s \in Children(q) \/ (q = Init1 /\ s \in Children(p))
        BY <2>4, <3>1, <1>b DEF Children
      <3>3. state[s] # "ZOMBIE"
        BY <3>2, <2>1, <2>2 DEF WaiterNotForgotten
      <3>. QED  BY <3>1, <3>3, <1>a
    <2>. QED  BY <2>1, <2>3, <2>4, <1>0 DEF WaiterNotForgotten
  <1>4. PagesAccounted'
    <2>1. PageSum'
      BY PagesSplit, <1>0 DEF PageSum
    <2>2. SlotPages'
      BY PagesSplit, <1>0, <1>a, <1>d DEF SlotPages
    <2>. QED  BY <2>1, <2>2, PagesSplitNext
  <1>5. ForkOK'
    <2>1. \A q \in Slots : at[q] \in InFork => state'[q] = "RUNNABLE"
      BY <1>0, <1>a DEF ForkOK, InFork
    <2>2. \A q \in Slots : at[q] \in InFork =>
            state'[np[q]] = "EMBRYO" /\ parent'[np[q]] = parent[np[q]]
      BY <1>0, <1>a, <1>b, <1>c DEF ForkOK, Counted, InFork
    <2>. QED  BY <2>1, <2>2, <1>0 DEF ForkOK
  <1>6. ForkedOK'
    <2>1. \A q \in Slots : at[q] = "forked" => q # p /\ state'[q] = "RUNNABLE"
      BY <1>0, <1>a DEF ForkedOK
    <2>2. \A s \in Slots : Counted(s) => Counted(s)'
      BY <1>a DEF Counted
    <2>. QED  BY <2>1, <2>2, <1>0, <1>b DEF ForkedOK
  <1>7. ChildKept'
    BY <1>0, <1>6 DEF ChildKept, ForkedOK, Runs
  <1>8. ParentOK'
    <2>1. \A s \in Slots : Counted(s) => Counted(s)'
      BY <1>a DEF Counted
    <2>2. \A s \in Slots : state[s] = "EMBRYO" => state'[s] = "EMBRYO"
      BY <1>0, <1>a
    <2>3. parent'[Init1] = 0
      BY <1>b, <1>0, InitSlot, SlotsInNat DEF ParentOK
    <2>. QED  BY <2>1, <2>2, <2>3, <1>0, <1>b, <1>c, SlotsInNat DEF ParentOK
  <1>9. PlaceOK'
    BY <1>0, <1>a, <1>d, InitSlot DEF PlaceOK
  <1>. QED  BY <1>1, <1>2, <1>3, <1>4, <1>5, <1>6, <1>7, <1>8, <1>9

LEMMA NoZombieInv ==
  ASSUME IndInv, NEW p \in Slots, NoZombie(p)
  PROVE  IndInv'
  <1> USE DEF IndInv, TableSound
  <1>0. /\ state[p] = "RUNNABLE" /\ at[p] = "wait"
        /\ \A s \in Children(p) : state[s] # "ZOMBIE"
        /\ UNCHANGED <<pid, parent, killed, kstack, pgdir, free, taken, nextpid, np, child>>
        /\ \/ at' = [at EXCEPT ![p] = "user"] /\ state' = state
           \/ /\ Children(p) # {} /\ ~ killed[p]
              /\ state' = [state EXCEPT ![p] = "SLEEPING"] /\ at' = at
    BY DEF NoZombie, Runs, Goto
  <1>a. Alive' = Alive /\ \A s \in Slots : Counted(s)' <=> Counted(s)
    BY <1>0 DEF Alive, Counted, TypeOK
  <1>1. TypeOK'
    BY <1>0 DEF TypeOK, Pcs, States
  <1>2. LiveParents'
    BY <1>0, <1>a DEF LiveParents, TypeOK
  <1>3. WaiterNotForgotten'
    <2>1. \A s \in Slots : state'[s] = "ZOMBIE" => state[s] = "ZOMBIE"
      BY <1>0 DEF TypeOK
    <2>2. \A q \in Slots : state'[q] = "SLEEPING" =>
            state[q] = "SLEEPING" \/ (q = p /\ Children(p) # {} /\ ~ killed[p])
      BY <1>0 DEF TypeOK
    <2>. QED  BY <2>1, <2>2, <1>0 DEF WaiterNotForgotten, Children
  <1>4. PagesAccounted'
    BY <1>0, <1>a DEF PagesAccounted, TypeOK
  <1>5. ForkOK'
    <2>1. \A q \in Slots : at'[q] \in InFork => at[q] \in InFork /\ q # p /\ at'[q] = at[q]
      BY <1>0 DEF TypeOK, InFork
    <2>2. \A q \in Slots : q # p => state'[q] = state[q]
      BY <1>0 DEF TypeOK
    <2>3. \A q \in Slots : at[q] \in InFork => np[q] # p
      BY <1>0 DEF ForkOK
    <2>. QED  BY <2>1, <2>2, <2>3, <1>0 DEF ForkOK
  <1>6. ForkedOK'
    <2>1. \A q \in Slots : at'[q] = "forked" => at[q] = "forked" /\ q # p
      BY <1>0 DEF TypeOK
    <2>2. \A q \in Slots : q # p => state'[q] = state[q]
      BY <1>0 DEF TypeOK
    <2>. QED  BY <2>1, <2>2, <1>0, <1>a DEF ForkedOK
  <1>7. ChildKept'
    BY <1>6, <1>0 DEF ChildKept, ForkedOK, Runs
  <1>8. ParentOK'
    <2>1. \A q \in Slots : at[q] = "publish" => at'[q] = "publish"
      BY <1>0 DEF TypeOK
    <2>2. \A s \in Slots : state[s] = "EMBRYO" => state'[s] = "EMBRYO"
      BY <1>0 DEF TypeOK
    <2>3. \A s \in Slots : parent[s] # 0 => parent[s] \in Slots
      BY DEF TypeOK
    <2>. QED  BY <2>1, <2>2, <2>3, <1>0, <1>a DEF ParentOK
  <1>9. PlaceOK'
    BY <1>0, <1>a, InitSlot DEF PlaceOK, TypeOK
  <1>. QED  BY <1>1, <1>2, <1>3, <1>4, <1>5, <1>6, <1>7, <1>8, <1>9

LEMMA ReapInv ==
  ASSUME IndInv, NEW p \in Slots, Reap(p)
  PROVE  IndInv'
  <1> USE DEF IndInv, TableSound
  <1> PICK s \in Children(p) :
         /\ state[s] = "ZOMBIE"
         /\ kstack' = [kstack EXCEPT ![s] = FALSE]
         /\ pgdir' = [pgdir EXCEPT ![s] = FALSE]
         /\ state' = [state EXCEPT ![s] = "UNUSED"]
         /\ pid' = [pid EXCEPT ![s] = 0]
         /\ parent' = [parent EXCEPT ![s] = 0]
         /\ killed' = Unkilled(s)
    BY DEF Reap
  <1>0. /\ state[p] = "RUNNABLE" /\ at[p] = "wait"
        /\ s \in Slots /\ state[s] = "ZOMBIE" /\ parent[s] = p
        /\ s # p /\ s # Init1
        /\ kstack[s] /\ pgdir[s]
        /\ free' = free + 2
        /\ at' = [at EXCEPT ![p] = "user"]
        /\ UNCHANGED <<taken, nextpid, np, child>>
    BY DEF Reap, Runs, Goto, Children, PlaceOK, Alive, PagesAccounted, Given
  <1>a. /\ \A x \in Slots : x # s =>
             /\ kstack'[x] = kstack[x] /\ pgdir'[x] = pgdir[x]
             /\ state'[x] = state[x] /\ pid'[x] = pid[x]
             /\ parent'[x] = parent[x] /\ killed'[x] = killed[x]
        /\ state'[s] = "UNUSED" /\ parent'[s] = 0 /\ pid'[s] = 0
        /\ ~ kstack'[s] /\ ~ pgdir'[s] /\ ~ killed'[s]
    BY <1>0 DEF TypeOK, Unkilled
  <1>b. Alive' = Alive /\ s \notin Alive /\ p \in Alive
    BY <1>0, <1>a DEF Alive
  <1>c. \A q \in Slots : at[q] = "forked" => np[q] # s
    BY <1>0 DEF ForkedOK
  <1>1. PagesAccounted'
    <2>1. PageSum'
      <3>1. /\ Cardinality(Marks(kstack')) = Cardinality(Marks(kstack)) - 1
            /\ Cardinality(Marks(pgdir')) = Cardinality(Marks(pgdir)) - 1
        BY MarkCleared, <1>0 DEF TypeOK
      <3>. QED  BY PagesSplit, MarksFinite, <3>1, <1>0, ProcAssumption DEF PageSum, TypeOK
    <2>2. SlotPages'
      BY PagesSplit, <1>0, <1>a, <1>b DEF SlotPages
    <2>. QED  BY <2>1, <2>2, PagesSplitNext
  <1>2. TypeOK'
    <2>1. free' \in 0..Pages
      BY <1>1, <1>0, PagesSplitNext, MarksFinite, ProcAssumption DEF PageSum, TypeOK
    <2>2. pid' \in [Slots -> 0..MaxPid] /\ killed' \in [Slots -> BOOLEAN]
      BY <1>0, ProcAssumption DEF TypeOK, Unkilled
    <2>3. /\ kstack' \in [Slots -> BOOLEAN] /\ pgdir' \in [Slots -> BOOLEAN]
          /\ state' \in [Slots -> States] /\ parent' \in [Slots -> Slots \cup {0}]
          /\ at' \in [Slots -> Pcs]
      BY <1>0 DEF TypeOK, States, Pcs
    <2>. QED  BY <2>1, <2>2, <2>3, <1>0 DEF TypeOK
  <1>3. LiveParents'
    BY <1>0, <1>a, <1>b DEF LiveParents
  <1>4. WaiterNotForgotten'
    <2>1. \A q \in Slots : q # p => Children(q)' = Children(q)
      BY <1>0, <1>a, SlotsInNat DEF Children
    <2>2. \A q \in Slots : state'[q] = "SLEEPING" =>
            q # p /\ q # s /\ state[q] = "SLEEPING"
      BY <1>0, <1>a
    <2>3. \A x \in Slots : state'[x] = "ZOMBIE" => state[x] = "ZOMBIE"
      BY <1>a
    <2>. QED  BY <2>1, <2>2, <2>3, <1>a DEF WaiterNotForgotten, Children
  <1>5. ForkOK'
    <2>1. \A q \in Slots : at'[q] \in InFork => at[q] \in InFork /\ q # p /\ at'[q] = at[q]
      BY <1>0 DEF TypeOK, InFork
    <2>2. \A q \in Slots : at[q] \in InFork => np[q] # s /\ q # s
      BY <1>0 DEF ForkOK
    <2>3. ASSUME NEW q \in Slots, at'[q] \in InFork
          PROVE  /\ state'[q] = "RUNNABLE"
                 /\ np'[q] \in Slots
                 /\ state'[np'[q]] = "EMBRYO"
                 /\ kstack'[np'[q]] = (at'[q] # "kalloc")
                 /\ pgdir'[np'[q]] = (at'[q] = "publish")
                 /\ parent'[np'[q]] = (IF at'[q] = "publish" THEN q ELSE 0)
                 /\ at'[q] = "publish" => child'[q] = pid'[np'[q]]
      <3>1. /\ at[q] \in InFork /\ at'[q] = at[q] /\ q # s /\ np' = np /\ child' = child
            /\ np[q] \in Slots /\ np[q] # s
        BY <2>1, <2>2, <2>3, <1>0 DEF ForkOK
      <3>. QED  BY <3>1, <1>a DEF ForkOK
    <2>. QED  BY <2>1, <2>3, <1>0 DEF ForkOK
  <1>6. ForkedOK'
    <2>1. \A q \in Slots : at'[q] = "forked" => at[q] = "forked" /\ q # p /\ q # s
      BY <1>0 DEF TypeOK, ForkedOK
    <2>. QED  BY <2>1, <1>0, <1>a, <1>c DEF ForkedOK, Counted
  <1>7. ChildKept'
    BY <1>6 DEF ChildKept, ForkedOK, Runs
  <1>8. ParentOK'
    <2>1. \A q \in Slots : at[q] = "publish" => at'[q] = "publish"
      BY <1>0 DEF TypeOK
    <2>2. \A x \in Slots : parent'[x] # 0 =>
            x # s /\ parent'[x] = parent[x] /\ state'[x] = state[x] /\ parent[x] \in Slots
      BY <1>a DEF TypeOK
    <2>3. parent'[Init1] = 0
      BY <1>a, <1>0, InitSlot DEF ParentOK
    <2>. QED  BY <2>1, <2>2, <2>3, <1>0 DEF ParentOK, Counted
  <1>9. PlaceOK'
    BY <1>0, <1>a, <1>b, InitSlot DEF PlaceOK, TypeOK
  <1>. QED  BY <1>1, <1>2, <1>3, <1>4, <1>5, <1>6, <1>7, <1>8, <1>9

LEMMA KillInv ==
  ASSUME IndInv, NEW p \in Slots, NEW i, Kill(p, i)
  PROVE  IndInv'
  <1> USE DEF IndInv, TableSound
  <1> PICK s \in Slots : killed' = [killed EXCEPT ![s] = TRUE] /\ state' = Roused(s)
    BY DEF Kill
  <1>0. UNCHANGED <<pid, parent, kstack, pgdir, free, taken, nextpid, at, np, child>>
    BY DEF Kill
  <1>a. /\ \A x \in Slots : x # s => state'[x] = state[x] /\ killed'[x] = killed[x]
        /\ state'[s] = state[s] \/ (state[s] = "SLEEPING" /\ state'[s] = "RUNNABLE")
        /\ state'[s] # "SLEEPING"
        /\ state' \in [Slots -> States] /\ killed' \in [Slots -> BOOLEAN]
    BY DEF TypeOK, Roused, States
  <1>b. Alive' = Alive /\ \A x \in Slots : Counted(x)' <=> Counted(x)
    BY <1>a DEF Alive, Counted
  <1>c. \A x \in Slots, v \in {"UNUSED", "EMBRYO", "ZOMBIE"} : state'[x] = v <=> state[x] = v
    BY <1>a
  <1>d. \A x \in Slots : state[x] = "RUNNABLE" => state'[x] = "RUNNABLE"
    BY <1>a
  <1>1. TypeOK'
    BY <1>0, <1>a DEF TypeOK
  <1>2. LiveParents'
    BY <1>0, <1>b, <1>c DEF LiveParents
  <1>3. WaiterNotForgotten'
    <2>1. \A q \in Slots : state'[q] = "SLEEPING" => q # s /\ state[q] = "SLEEPING"
      BY <1>a
    <2>. QED  BY <2>1, <1>0, <1>a, <1>c DEF WaiterNotForgotten, Children
  <1>4. PagesAccounted'
    BY <1>0, <1>b, <1>c DEF PagesAccounted
  <1>5. ForkOK'
    BY <1>0, <1>c, <1>d DEF ForkOK
  <1>6. ForkedOK'
    BY <1>0, <1>b, <1>d DEF ForkedOK
  <1>7. ChildKept'
    BY <1>6 DEF ChildKept, ForkedOK, Runs
  <1>8. ParentOK'
    BY <1>0, <1>b, <1>c DEF ParentOK
  <1>9. PlaceOK'
    BY <1>0, <1>a, <1>b DEF PlaceOK
  <1>. QED  BY <1>1, <1>2, <1>3, <1>4, <1>5, <1>6, <1>7, <1>8, <1>9

LEMMA OthersInv ==
  ASSUME IndInv, NEW d \in {1, -1}, Others(d)
  PROVE  IndInv'
  <1> USE DEF IndInv, TableSound
  <1>0. /\ free' = free - d /\ taken' = taken + d /\ free' \in Nat /\ taken' \in 0..MaxTaken
        /\ UNCHANGED <<state, pid, parent, killed, kstack, pgdir, nextpid, at, np, child>>
    BY DEF Others
  <1>1. PagesAccounted'
    <2>1. PageSum'
      BY PagesSplit, MarksFinite, <1>0, ProcAssumption DEF PageSum, TypeOK
    <2>2. SlotPages'
      BY PagesSplit, <1>0 DEF SlotPages, Alive
    <2>. QED  BY <2>1, <2>2, PagesSplitNext
  <1>2. TypeOK'
    <2>1. free' \in 0..Pages
      BY <1>1, <1>0, PagesSplitNext, MarksFinite, ProcAssumption DEF PageSum, TypeOK
    <2>. QED  BY <2>1, <1>0 DEF TypeOK
  <1>3. LiveParents' /\ WaiterNotForgotten' /\ ChildKept'
    BY <1>0 DEF LiveParents, WaiterNotForgotten, ChildKept, Alive, Children, Runs
  <1>4. ForkOK' /\ ForkedOK' /\ ParentOK' /\ PlaceOK'
    BY <1>0 DEF ForkOK, ForkedOK, ParentOK, PlaceOK, Counted, Alive
  <1>. QED  BY <1>1, <1>2, <1>3, <1>4

LEMMA StutterInv ==
  ASSUME IndInv, UNCHANGED vars
  PROVE  IndInv'
  <1> USE DEF IndInv, TableSound, vars
  <1>1. TypeOK' /\ LiveParents' /\ WaiterNotForgotten' /\ PagesAccounted' /\ ChildKept'
    BY DEF TypeOK, LiveParents, WaiterNotForgotten, PagesAccounted, ChildKept, Alive,
           Children, Runs
  <1>2. ForkOK' /\ ForkedOK' /\ ParentOK' /\ PlaceOK'
    BY DEF ForkOK, ForkedOK, ParentOK, PlaceOK, Counted, Alive
  <1>. QED  BY <1>1, <1>2

LEMMA NextInv ==
  ASSUME IndInv, [Next]_vars
  PROVE  IndInv'
  <1>1. CASE UNCHANGED vars
    BY <1>1, StutterInv
  <1>2. ASSUME NEW p \in Slots, Kernel(p)
        PROVE  IndInv'
    BY <1>2, AllocStackInv, CopyMemoryInv, PublishInv, MovesInv, LeaveInv, ReapInv,
       NoZombieInv DEF Kernel
  <1>3. ASSUME NEW p \in Slots, Fork(p) \/ Exit(p) \/ Wait(p)
        PROVE  IndInv'
    BY <1>3, ForkInv, MovesInv
  <1>4. ASSUME NEW p \in Slots, NEW i \in 0..MaxPid, Kill(p, i)
        PROVE  IndInv'
    BY <1>4, KillInv
  <1>5. ASSUME NEW d \in {1, -1}, Others(d)
        PROVE  IndInv'
    BY <1>5, OthersInv
  <1>. QED  BY <1>1, <1>2, <1>3, <1>4, <1>5 DEF Next

(***************************************************************************)
(* The inductive invariant of fork, exit, wait and kill: the table is       *)
(* sound, and a fork that has released ptable.lock between its steps        *)
(* (proc.c:47, 148-180) still owns the slot it took.                         *)
(***************************************************************************)
THEOREM Invariance == Spec => []IndInv
  <1>1. Init => IndInv
    BY InitInv
  <1>2. IndInv /\ [Next]_vars => IndInv'
    BY NextInv
  <1>. QED  BY <1>1, <1>2, PTL DEF Spec

(***************************************************************************)
(* For every size of the table: whatever processes fork, exit, wait and     *)
(* kill at the same time, no zombie is without a live parent, nobody sleeps *)
(* in wait with a zombie or a kill waiting, no page is lost or given out    *)
(* twice, and fork returns the pid of the child it made.                    *)
(***************************************************************************)
THEOREM ProcessTableSound == Spec => []TableSound
  <1>1. IndInv => TableSound
    BY DEF IndInv
  <1>. QED  BY <1>1, Invariance, PTL
=============================================================================
