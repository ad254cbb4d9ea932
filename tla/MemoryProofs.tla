---------------------------- MODULE MemoryProofs ----------------------------
(***************************************************************************)
(* Proofs about module Memory, for any number of processes and of pages,   *)
(* any page size, any set of programs and any arguments of sbrk.           *)
(*                                                                         *)
(* Pages have owners: the free list, a kernel stack, a call that has one   *)
(* in hand (mem of allocuvm and copyuvm), the page table of a process, and  *)
(* the one a fork or an exec is making.  The invariant says that no page    *)
(* has two of them (OneOwner), nor two places in one page table (InOnce),   *)
(* and what a process has at each place of a call (PlaceOK, ChildOK).  Up    *)
(* to the first failure to get a page table page it also says that every    *)
(* page has an owner (NoneLost), that page tables are in order and there is *)
(* one for every page (Whole), so that deallocuvm comes by all the pages    *)
(* there are, and how far a call has come (SizeOK).                         *)
(*                                                                         *)
(* A second invariant (DataInv) says what is in the pages a fork or an exec *)
(* is filling (CopyOK, ImageOK).  With the first, by which a store or a     *)
(* freed page changes nobody else's content (Kept), it makes every step one *)
(* of AddressSpaces or none.                                                *)
(***************************************************************************)
EXTENDS Memory, FiniteSetTheorems, SequenceTheorems, WellFoundedInduction, TLAPS

LEMMA Division ==
  ASSUME NEW a \in Int, NEW w \in Nat \ {0}
  PROVE  a = w * (a \div w) + (a % w) /\ a \div w \in Int /\ a % w \in 0..(w - 1)
OBVIOUS

LEMMA DivisionIs ==
  ASSUME NEW a \in Int, NEW w \in Nat \ {0}, NEW q \in Int, NEW r \in 0..(w - 1),
         a = w * q + r
  PROVE  a \div w = q /\ a % w = r
OBVIOUS

LEMMA LeastMember ==
  ASSUME NEW S \in SUBSET Nat, S # {}
  PROVE  \E x \in S : \A y \in S : x <= y
<1>1. IsWellFoundedOn(OpToRel(<, Nat), Nat)
  BY NatLessThanWellFounded
<1>2. PICK x \in S : \A y \in S : ~ (<<y, x>> \in OpToRel(<, Nat))
  BY <1>1, WFMin, Zenon
<1>3. \A y \in S : ~ (y < x)
  BY <1>2, Zenon DEF OpToRel
<1> QED BY <1>3

LEMMA LeastIs ==
  ASSUME NEW S \in SUBSET Nat, S # {}
  PROVE  Min(S) \in S
BY LeastMember, Zenon DEF Min

LEMMA Times ==
  ASSUME NEW a \in Int, NEW b \in Int, NEW w \in Nat, a <= b
  PROVE  w * a <= w * b
<1> DEFINE c == b - a
<1>1. c \in Nat /\ b = a + c
  OBVIOUS
<1> HIDE DEF c
<1>2. w * c >= 0
  BY <1>1
<1>3. w * b = w * a + w * c
  BY <1>1
<1> QED BY <1>1, <1>2, <1>3

Maps(S) == UNION {[D -> S] : D \in SUBSET Nat}
PageNos == Nat \ {0}

EntryType == [page : PageNos, user : BOOLEAN]
SpaceType ==
  [dir : Nat, ktabs : SUBSET PageNos, tabs : Maps(PageNos), map : Maps(EntryType)]

SegType  == [at : Nat, filesz : Nat, memsz : Nat]
ProgType == Programs \cup {NoProg}
Ops      == {"none", "sbrk", "fork", "exec"}
JobType ==
  [op : Ops, old : Nat, end : Nat, a : Nat, page : Nat,
   child : Nat, prog : ProgType, seg : Nat]

MemPcs ==
  {"unused", "embryo", "user", "fault", "zombie", "setup", "grow", "table", "copy",
   "copytable"}

MemTyped ==
  /\ DOMAIN mem \subseteq PageNos
  /\ free \subseteq DOMAIN mem
  /\ kstack \in [Slots -> Nat] /\ sz \in [Slots -> 0..(KERNBASE - 1)]
  /\ pgdir \in [Slots -> SpaceType] /\ new \in [Slots -> SpaceType]
  /\ call \in [Slots -> MemPcs]
  /\ job \in [Slots -> JobType]
  /\ short \in BOOLEAN /\ halted \in BOOLEAN

\* What a process has at each place of a call.
PlaceOK(p) ==
  /\ call[p] = "unused" <=> kstack[p] = 0
  /\ call[p] \in {"unused", "embryo"} => pgdir[p] = NoSpace
  /\ call[p] \in {"unused", "embryo", "user", "fault", "zombie"} =>
       new[p] = NoSpace /\ job[p] = NoJob
  /\ call[p] = "setup" =>
       /\ job[p].op \in {"fork", "exec"} /\ job[p].a = 0
       /\ new[p].tabs = NoMap /\ new[p].map = NoMap
       /\ new[p].dir = 0 => new[p].ktabs = {}
  /\ call[p] \in {"grow", "table"} =>
       job[p].op \in {"sbrk", "exec"} /\ (job[p].op = "sbrk" => new[p] = NoSpace)
  /\ call[p] \in {"copy", "copytable"} => job[p].op = "fork"
  /\ call[p] \in {"table", "copytable"} =>
       /\ job[p].page # 0
       /\ Missing(Space(p), job[p].a)
       /\ job[p].a * PGSIZE < job[p].end /\ job[p].end < KERNBASE
  /\ call[p] = "copytable" => job[p].a \in DOMAIN pgdir[p].map
  /\ call[p] \notin {"table", "copytable"} => job[p].page = 0
  /\ job[p].op = "fork" => job[p].end = sz[p]
  /\ job[p].op = "exec" =>
       job[p].prog \in Programs /\ job[p].seg \in 1..(Len(job[p].prog.segs) + 1)

\* The slot a fork has taken.
ChildOK(p) ==
  /\ job[p].op = "fork" <=> job[p].child # 0
  /\ job[p].child # 0 => job[p].child \in Slots /\ call[job[p].child] = "embryo"

OneParent ==
  \A p, q \in Slots : job[p].child # 0 /\ job[p].child = job[q].child => p = q

\* Page g is at place k of address space s.
In(s, g, k) ==
  \/ k = -1 /\ g = s.dir /\ g # 0
  \/ k = -2 /\ g \in s.ktabs
  \/ k + 3 <= 0 /\ -3 - k \in DOMAIN s.tabs /\ g = s.tabs[-3 - k]
  \/ k \in DOMAIN s.map /\ g = s.map[k].page

Within(s, g) == \E k \in Int : In(s, g, k)

InOnce(s) == \A g \in Nat, k, m \in Int : In(s, g, k) /\ In(s, g, m) => k = m

\* Who has pages: the free list, a stack, a call that has one in hand, page tables.
FreeList == <<0, "free">>
Owners   == {FreeList} \cup (Slots \X {"kstack", "hand", "own", "new"})

Owns(o, g) ==
  \/ o[2] = "free"   /\ g \in free
  \/ o[2] = "kstack" /\ g = kstack[o[1]] /\ g # 0
  \/ o[2] = "hand"   /\ g = job[o[1]].page /\ g # 0
  \/ o[2] = "own"    /\ Within(pgdir[o[1]], g)
  \/ o[2] = "new"    /\ Within(new[o[1]], g)

OneOwner ==
  \A o, r \in Owners, g \in Nat : Owns(o, g) /\ Owns(r, g) => o = r

NoneLost == \A g \in DOMAIN mem : \E o \in Owners : Owns(o, g)
NoneMore == \A g \in Nat, o \in Owners : Owns(o, g) => g \in DOMAIN mem

\* Page tables as they are when no allocation of one has failed: in order, with one for
\* each page.
Whole(s) ==
  /\ \A i \in DOMAIN s.tabs : \A j \in 0..i : j \in DOMAIN s.tabs
  /\ \A v \in DOMAIN s.map : PDX(v) \in DOMAIN s.tabs /\ v * PGSIZE < KERNBASE

\* The pages a process has, and those a call has given it so far.
SizeOK(p) ==
  LET j == job[p]
  IN  /\ (call[p] \in {"user", "setup", "copy", "copytable"}
            \/ (call[p] \in {"grow", "table"} /\ j.op = "exec")) =>
           DOMAIN pgdir[p].map = 0..(PGROUNDUP(sz[p]) - 1)
      /\ call[p] \in {"grow", "table", "copy", "copytable"} =>
           DOMAIN Space(p).map = 0..(j.a - 1)
      /\ call[p] \in {"table", "copy", "copytable"} \/ j.op = "sbrk" =>
           j.a <= PGROUNDUP(j.end) /\ j.end < KERNBASE
      /\ j.op = "sbrk" => j.old = sz[p] /\ PGROUNDUP(j.old) <= j.a
      /\ j.op = "exec" =>
           /\ j.end < KERNBASE => j.a <= PGROUNDUP(j.end)
           /\ j.end >= KERNBASE => j.a * PGSIZE <= KERNBASE
           /\ j.seg <= Len(j.prog.segs) => SegEnd(j.prog.segs[j.seg]) <= j.end
           /\ j.seg > Len(j.prog.segs) => j.end % PGSIZE = 0 /\ j.end >= 2 * PGSIZE

LocalOK(p) == PlaceOK(p) /\ ChildOK(p) /\ InOnce(pgdir[p]) /\ InOnce(new[p])
HereOK(p)  == Whole(pgdir[p]) /\ Whole(new[p]) /\ SizeOK(p)

MemInv ==
  /\ MemTyped /\ OneParent /\ OneOwner /\ NoneMore
  /\ \A p \in Slots : LocalOK(p)
  /\ ~ short => ~ halted /\ NoneLost /\ \A p \in Slots : HereOK(p)


LEMMA MemConstants ==
  /\ PGSIZE \in Nat \ {0} /\ NPT \in Nat \ {0} /\ KTabs \in Nat \ {0}
  /\ KERNBASE \in Nat /\ KERNBASE > 0
  /\ Init1 \in Slots /\ \A p \in Slots : p \in Nat /\ p # 0
BY MemoryAssumption DEF Slots, Init1

\* The pages below an address.
LEMMA RoundIs ==
  ASSUME NEW x \in Nat
  PROVE  /\ PGROUNDUP(x) \in Nat
         /\ \A v \in Nat : v < PGROUNDUP(x) <=> v * PGSIZE < x
<1> DEFINE r == PGROUNDUP(x)
<1> DEFINE t == (x + PGSIZE - 1) % PGSIZE
<1>0. PGSIZE \in Nat \ {0} /\ x + PGSIZE - 1 \in Int
  BY MemConstants
<1>1. x + PGSIZE - 1 = PGSIZE * r + t /\ r \in Int /\ t \in 0..(PGSIZE - 1)
  BY <1>0, Division DEF PGROUNDUP
<1> HIDE DEF r, t
<1>2. PGSIZE * r \in Int /\ PGSIZE * r <= x + PGSIZE - 1 /\ x <= PGSIZE * r
  BY <1>0, <1>1
<1>3. r >= 0
  <2> SUFFICES ASSUME r <= -1
               PROVE  FALSE
    BY <1>1
  <2>1. PGSIZE * r <= PGSIZE * (-1)
    BY <1>0, <1>1, Times
  <2> QED BY <2>1, <1>0, <1>2
<1>4. ASSUME NEW v \in Nat
      PROVE  v < r <=> v * PGSIZE < x
  <2>1. v * PGSIZE = PGSIZE * v /\ PGSIZE * v \in Int /\ PGSIZE * (v + 1) = PGSIZE * v + PGSIZE
    BY <1>0
  <2>2. v < r => PGSIZE * (v + 1) <= PGSIZE * r
    BY <1>0, <1>1, Times
  <2>3. ~ (v < r) => PGSIZE * r <= PGSIZE * v
    BY <1>0, <1>1, Times
  <2> QED BY <2>1, <2>2, <2>3, <1>0, <1>2
<1> QED BY <1>1, <1>3, <1>4 DEF r

LEMMA RoundOrder ==
  ASSUME NEW x \in Nat, NEW y \in Nat, x <= y
  PROVE  PGROUNDUP(x) <= PGROUNDUP(y)
<1>1. PGROUNDUP(x) \in Nat /\ PGROUNDUP(y) \in Nat
  BY RoundIs
<1> SUFFICES ASSUME PGROUNDUP(y) < PGROUNDUP(x)
             PROVE  FALSE
  BY <1>1
<1> DEFINE v == PGROUNDUP(y)
<1>2. v * PGSIZE < x
  BY <1>1, RoundIs
<1>3. ~ (v * PGSIZE < y)
  BY <1>1, RoundIs
<1>4. v * PGSIZE \in Nat
  BY <1>1, MemConstants
<1> QED BY <1>2, <1>3, <1>4

LEMMA TopIs == Top \in Nat /\ Top * PGSIZE = KERNBASE /\ Top > 0 /\ PGROUNDUP(KERNBASE) = Top
<1> DEFINE w == NPT * PGSIZE
<1> DEFINE q == KERNBASE \div w
<1>1. w \in Nat \ {0} /\ KERNBASE \in Int /\ KERNBASE % w = 0 /\ NPT \in Int
  BY MemoryAssumption
<1> HIDE DEF w
<1>2. KERNBASE = w * q /\ q \in Int
  <2>1. KERNBASE = w * (KERNBASE \div w) + (KERNBASE % w) /\ KERNBASE \div w \in Int
    BY <1>1, Division
  <2>2. w * (KERNBASE \div w) \in Int
    BY <1>1, <2>1
  <2> QED BY <1>1, <2>1, <2>2
<1> HIDE DEF q
<1> DEFINE u == NPT * q
<1>3. KERNBASE = PGSIZE * u /\ u \in Int
  BY <1>1, <1>2, MemConstants DEF w
<1> HIDE DEF u
<1>4. KERNBASE \div PGSIZE = u
  <2>1. KERNBASE = PGSIZE * u + 0 /\ 0 \in 0..(PGSIZE - 1) /\ PGSIZE \in Nat \ {0}
    BY <1>3, MemConstants
  <2> DEFINE z == 0
  <2>2. KERNBASE = PGSIZE * u + z /\ z \in 0..(PGSIZE - 1)
    BY <2>1
  <2> HIDE DEF z
  <2> QED BY <1>1, <1>3, <2>1, <2>2, DivisionIs
<1>5. u > 0
  <2> SUFFICES ASSUME u <= 0
               PROVE  FALSE
    BY <1>3
  <2>1. PGSIZE * u <= PGSIZE * 0
    BY <1>3, MemConstants, Times
  <2> QED BY <2>1, <1>3, MemConstants
<1>6. Top = u /\ Top \in Nat /\ Top * PGSIZE = KERNBASE
  BY <1>3, <1>4, <1>5, MemConstants DEF Top
<1>7. PGROUNDUP(KERNBASE) = Top
  <2> DEFINE r == PGROUNDUP(KERNBASE)
  <2>1. r \in Nat /\ (Top < r <=> Top * PGSIZE < KERNBASE)
    BY <1>6, MemConstants, RoundIs
  <2>2. r <= Top
    BY <2>1, <1>6, MemConstants
  <2>3. r * PGSIZE < KERNBASE <=> r < r
    BY <2>1, MemConstants, RoundIs
  <2> HIDE DEF r
  <2>4. r < Top => r * PGSIZE + PGSIZE <= Top * PGSIZE
    <3> HAVE r < Top
    <3>1. PGSIZE * (r + 1) <= PGSIZE * Top
      BY <2>1, <1>6, MemConstants, Times
    <3> QED BY <3>1, <2>1, <1>6, MemConstants
  <2>5. r * PGSIZE \in Nat
    BY <2>1, MemConstants
  <2> QED BY <2>1, <2>2, <2>3, <2>4, <2>5, <1>6, MemConstants DEF r
<1> QED BY <1>5, <1>6, <1>7

LEMMA QuotientOrder ==
  ASSUME NEW w \in Nat \ {0}, NEW p \in Int, NEW q \in Int,
         NEW r \in 0..(w - 1), NEW s \in 0..(w - 1), w * p + r <= w * q + s
  PROVE  p <= q
<1> SUFFICES ASSUME q + 1 <= p
             PROVE  FALSE
  OBVIOUS
<1>1. w * (q + 1) <= w * p
  BY Times
<1>2. w * (q + 1) = w * q + w /\ w * q \in Int /\ w * p \in Int
  OBVIOUS
<1> QED BY <1>1, <1>2

\* The page table of a page.
LEMMA PdxIs ==
  ASSUME NEW v \in Nat
  PROVE  /\ PDX(v) \in Nat
         /\ \A u \in 0..v : PDX(u) \in 0..PDX(v)
         /\ v > 0 => PDX(v) <= PDX(v - 1) + 1
<1>0. NPT \in Nat \ {0}
  BY MemConstants
<1>1. \A u \in Nat : /\ PDX(u) \in Int /\ u % NPT \in 0..(NPT - 1)
                     /\ u = NPT * PDX(u) + (u % NPT)
  <2> SUFFICES ASSUME NEW u \in Nat
               PROVE  /\ PDX(u) \in Int /\ u % NPT \in 0..(NPT - 1)
                      /\ u = NPT * PDX(u) + (u % NPT)
    OBVIOUS
  <2> QED BY <1>0, Division DEF PDX
<1>2. ASSUME NEW u \in Nat
      PROVE  PDX(u) >= 0
  <2> DEFINE q == PDX(u)
  <2> DEFINE r == u % NPT
  <2>1. q \in Int /\ r \in 0..(NPT - 1) /\ u = NPT * q + r
    BY <1>1
  <2> HIDE DEF q, r
  <2> SUFFICES ASSUME q <= -1
               PROVE  FALSE
    BY <2>1 DEF q
  <2>2. NPT * q <= NPT * (-1)
    BY <1>0, <2>1, Times
  <2>3. NPT * q \in Int
    BY <1>0, <2>1
  <2> QED BY <2>1, <2>2, <2>3, <1>0
<1>3. ASSUME NEW u \in 0..v
      PROVE  PDX(u) <= PDX(v)
  <2>1. u \in Nat /\ u <= v
    OBVIOUS
  <2>2. NPT * PDX(u) + (u % NPT) <= NPT * PDX(v) + (v % NPT)
    BY <1>1, <2>1
  <2> QED BY <1>0, <1>1, <2>1, <2>2, QuotientOrder
<1>4. ASSUME v > 0
      PROVE  PDX(v) <= PDX(v - 1) + 1
  <2> DEFINE u == v - 1
  <2> DEFINE q == PDX(v)
  <2> DEFINE p == PDX(u)
  <2> DEFINE r == v % NPT
  <2> DEFINE s == u % NPT
  <2> DEFINE z == 0
  <2>0. u \in Nat /\ v = u + 1 /\ z \in 0..(NPT - 1) /\ z = 0
    BY <1>0, <1>4
  <2>1. /\ q \in Int /\ r \in 0..(NPT - 1) /\ v = NPT * q + r
        /\ p \in Int /\ s \in 0..(NPT - 1) /\ u = NPT * p + s
    BY <1>1, <2>0
  <2> HIDE DEF u, p, q, r, s, z
  <2>2. NPT * (p + 1) = NPT * p + NPT /\ NPT * p \in Int /\ NPT * q \in Int
    BY <1>0, <2>1
  <2>3. NPT * q + r <= NPT * (p + 1) + z /\ p + 1 \in Int
    BY <1>0, <2>0, <2>1, <2>2
  <2>4. q <= p + 1
    BY <1>0, <2>0, <2>1, <2>3, QuotientOrder
  <2> QED BY <2>4 DEF p, q, u
<1> QED BY <1>1, <1>2, <1>3, <1>4
-----------------------------------------------------------------------------
(* Address spaces.                                                         *)

LEMMA EntryIs ==
  ASSUME NEW g \in PageNos, NEW u \in BOOLEAN
  PROVE  [page |-> g, user |-> u] \in EntryType
BY DEF EntryType

LEMMA MapsAre ==
  ASSUME NEW S, NEW f
  PROVE  f \in Maps(S) <=> DOMAIN f \subseteq Nat /\ f \in [DOMAIN f -> S]
BY DEF Maps

\* g is f with y at x.
Puts(S, f, x, y, g) ==
  /\ g \in Maps(S) /\ DOMAIN g = DOMAIN f \cup {x} /\ g[x] = y
  /\ \A z \in DOMAIN f : z # x => g[z] = f[z]

LEMMA PutIs ==
  ASSUME NEW S, NEW f \in Maps(S), NEW x \in Nat, NEW y \in S
  PROVE  Puts(S, f, x, y, Put(f, x, y))
<1> DEFINE g == Put(f, x, y)
<1>1. DOMAIN f \subseteq Nat /\ f \in [DOMAIN f -> S]
  BY MapsAre
<1>2. /\ DOMAIN g = DOMAIN f \cup {x} /\ g[x] = y
      /\ \A z \in DOMAIN f : z # x => g[z] = f[z]
      /\ g \in [DOMAIN f \cup {x} -> S]
  BY <1>1 DEF Put
<1>3. DOMAIN f \cup {x} \subseteq Nat
  BY <1>1
<1>4. g \in Maps(S)
  BY <1>2, <1>3, MapsAre
<1> QED BY <1>2, <1>4 DEF Puts

LEMMA NoSpaceIs ==
  /\ NoSpace \in SpaceType /\ NoMap \in Maps(PageNos)
  /\ NoMap \in Maps(EntryType) /\ DOMAIN NoMap = {}
  /\ \A g, k : ~ In(NoSpace, g, k)
<1>1. DOMAIN NoMap = {} /\ \A S : NoMap \in [{} -> S]
  BY DEF NoMap
<1>2. \A S : NoMap \in Maps(S)
  BY <1>1 DEF Maps
<1>3. NoSpace \in SpaceType
  BY <1>2 DEF NoSpace, SpaceType
<1>4. \A g, k : ~ In(NoSpace, g, k)
  BY <1>1 DEF NoSpace, In
<1> QED BY <1>1, <1>2, <1>3, <1>4

LEMMA SpaceIs ==
  ASSUME NEW s \in SpaceType
  PROVE  /\ s.dir \in Nat /\ s.ktabs \subseteq PageNos
         /\ s.tabs \in Maps(PageNos) /\ s.map \in Maps(EntryType)
         /\ DOMAIN s.tabs \subseteq Nat /\ \A i \in DOMAIN s.tabs : s.tabs[i] \in PageNos
         /\ DOMAIN s.map \subseteq Nat
         /\ \A v \in DOMAIN s.map : s.map[v].page \in PageNos /\ s.map[v].user \in BOOLEAN
         /\ \A g, k : In(s, g, k) => g \in PageNos
<1>1. /\ s.dir \in Nat /\ s.ktabs \subseteq PageNos
      /\ s.tabs \in Maps(PageNos) /\ s.map \in Maps(EntryType)
  BY DEF SpaceType
<1>2. DOMAIN s.tabs \subseteq Nat /\ \A i \in DOMAIN s.tabs : s.tabs[i] \in PageNos
  BY <1>1, MapsAre
<1>3. /\ DOMAIN s.map \subseteq Nat
      /\ \A v \in DOMAIN s.map : s.map[v].page \in PageNos /\ s.map[v].user \in BOOLEAN
  <2>1. /\ DOMAIN s.map \subseteq Nat
        /\ \A v \in DOMAIN s.map : s.map[v] \in EntryType
    BY <1>1, MapsAre
  <2> QED BY <2>1 DEF EntryType
<1>4. \A g, k : In(s, g, k) => g \in PageNos
  BY <1>1, <1>2, <1>3 DEF In, PageNos
<1> QED BY <1>1, <1>2, <1>3, <1>4

\* t is s with one more page, g.
Adds(s, t, g) ==
  /\ t \in SpaceType
  /\ InOnce(s) /\ ~ Within(s, g) => InOnce(t)
  /\ Within(t, g)
  /\ \A h \in Nat : Within(t, h) => Within(s, h) \/ h = g

\* t has what s had.
Keeps(s, t) == \A h \in Nat : Within(s, h) => Within(t, h)

LEMMA AddsIs ==
  ASSUME NEW s, NEW t \in SpaceType, NEW g \in Nat, NEW c \in Int, In(t, g, c),
         \A h \in Nat, k \in Int : In(t, h, k) => In(s, h, k) \/ (h = g /\ k = c)
  PROVE  Adds(s, t, g)
<1>1. ASSUME InOnce(s), ~ Within(s, g), NEW h \in Nat, NEW k \in Int, NEW m \in Int,
             In(t, h, k), In(t, h, m)
      PROVE  k = m
  <2>1. CASE h = g
    BY <1>1, <2>1 DEF Within
  <2>2. CASE h # g
    BY <1>1, <2>2 DEF InOnce
  <2> QED BY <2>1, <2>2
<1>2. \A h \in Nat : Within(t, h) => Within(s, h) \/ h = g
  BY DEF Within
<1>3. Within(t, g)
  BY DEF Within
<1> QED BY <1>1, <1>2, <1>3 DEF Adds, InOnce

LEMMA WithIs ==
  ASSUME NEW s \in SpaceType, NEW v \in Nat, NEW g \in PageNos, NEW u \in BOOLEAN
  PROVE  /\ Adds(s, With(s, v, g, u), g)
         /\ v \notin DOMAIN s.map => Keeps(s, With(s, v, g, u))
         /\ With(s, v, g, u).tabs = s.tabs
         /\ DOMAIN With(s, v, g, u).map = DOMAIN s.map \cup {v}
<1> DEFINE t == With(s, v, g, u)
<1> DEFINE e == [page |-> g, user |-> u]
<1> DEFINE f == Put(s.map, v, e)
<1>1. e \in EntryType /\ e.page = g
  BY EntryIs
<1> HIDE DEF e
<1>2. /\ f \in Maps(EntryType) /\ DOMAIN f = DOMAIN s.map \cup {v}
      /\ f[v] = e /\ \A z \in DOMAIN s.map : z # v => f[z] = s.map[z]
  <2>1. s.map \in Maps(EntryType)
    BY SpaceIs
  <2>2. Puts(EntryType, s.map, v, e, f)
    BY <1>1, <2>1, PutIs
  <2> QED BY <2>2 DEF Puts
<1> HIDE DEF f
<1>3. t = [s EXCEPT !.map = f]
  BY DEF With, f, e
<1>4. t \in SpaceType /\ t.dir = s.dir /\ t.ktabs = s.ktabs /\ t.tabs = s.tabs /\ t.map = f
  BY <1>2, <1>3 DEF SpaceType
<1> HIDE DEF t
<1>5. \A h \in Nat, k \in Int : In(t, h, k) => In(s, h, k) \/ (h = g /\ k = v)
  BY <1>1, <1>2, <1>4 DEF In
<1>6. In(t, g, v) /\ g \in Nat /\ v \in Int
  BY <1>1, <1>2, <1>4 DEF In, PageNos
<1>7. Adds(s, t, g)
  BY <1>4, <1>5, <1>6, AddsIs
<1>8. ASSUME v \notin DOMAIN s.map, NEW h \in Nat, Within(s, h)
      PROVE  Within(t, h)
  <2>1. PICK k \in Int : In(s, h, k)
    BY <1>8 DEF Within
  <2>2. In(t, h, k)
    BY <2>1, <1>2, <1>4, <1>8 DEF In
  <2> QED BY <2>2 DEF Within
<1> QED BY <1>2, <1>4, <1>7, <1>8 DEF Keeps, t

LEMMA TabledIs ==
  ASSUME NEW s \in SpaceType, NEW v \in Nat, free \subseteq PageNos, free # {}
  PROVE  /\ Adds(s, Tabled(s, v), Min(free))
         /\ Missing(s, v) => Keeps(s, Tabled(s, v))
         /\ Tabled(s, v).map = s.map
         /\ DOMAIN Tabled(s, v).tabs = DOMAIN s.tabs \cup {PDX(v)}
<1> DEFINE t == Tabled(s, v)
<1> DEFINE g == Min(free)
<1> DEFINE d == PDX(v)
<1> DEFINE f == Put(s.tabs, d, g)
<1> DEFINE c == -3 - d
<1>1. g \in PageNos /\ d \in Nat
  <2>1. g \in free
    BY LeastIs DEF PageNos
  <2> QED BY <2>1, PdxIs
<1> HIDE DEF g, d
<1>2. /\ f \in Maps(PageNos) /\ DOMAIN f = DOMAIN s.tabs \cup {d}
      /\ f[d] = g /\ \A z \in DOMAIN s.tabs : z # d => f[z] = s.tabs[z]
  <2>1. s.tabs \in Maps(PageNos)
    BY SpaceIs
  <2>2. Puts(PageNos, s.tabs, d, g, f)
    BY <1>1, <2>1, PutIs
  <2> QED BY <2>2 DEF Puts
<1> HIDE DEF f
<1>3. t = [s EXCEPT !.tabs = f]
  BY DEF Tabled, f, d, g
<1>4. t \in SpaceType /\ t.dir = s.dir /\ t.ktabs = s.ktabs /\ t.tabs = f /\ t.map = s.map
  BY <1>2, <1>3 DEF SpaceType
<1> HIDE DEF t
<1>5. ASSUME NEW h \in Nat, NEW k \in Int, In(t, h, k)
      PROVE  In(s, h, k) \/ (h = g /\ k = c)
  <2>1. -3 - k = d => k = c
    BY <1>1
  <2> QED BY <2>1, <1>2, <1>4, <1>5 DEF In
<1>6. In(t, g, c) /\ g \in Nat /\ c \in Int
  <2>1. c + 3 <= 0 /\ -3 - c = d
    BY <1>1
  <2> QED BY <2>1, <1>1, <1>2, <1>4 DEF In, PageNos
<1>7. Adds(s, t, g)
  BY <1>4, <1>5, <1>6, AddsIs
<1>8. ASSUME Missing(s, v), NEW h \in Nat, Within(s, h)
      PROVE  Within(t, h)
  <2>1. PICK k \in Int : In(s, h, k)
    BY <1>8 DEF Within
  <2>2. d \notin DOMAIN s.tabs
    BY <1>8 DEF Missing, d
  <2>3. In(t, h, k)
    BY <2>1, <2>2, <1>2, <1>4 DEF In
  <2> QED BY <2>3 DEF Within
<1> QED BY <1>2, <1>4, <1>7, <1>8 DEF Keeps, t, g, d

\* setupkvm.
LEMMA SetupIs ==
  ASSUME NEW s \in SpaceType, NEW g \in PageNos
  PROVE  LET t == [s EXCEPT !.dir = g]
             w == [s EXCEPT !.ktabs = s.ktabs \cup {g}]
         IN  /\ Adds(s, t, g) /\ (s.dir = 0 => Keeps(s, t))
             /\ Adds(s, w, g) /\ Keeps(s, w)
             /\ t.tabs = s.tabs /\ t.map = s.map /\ w.tabs = s.tabs /\ w.map = s.map
             /\ t.dir = g /\ w.dir = s.dir
<1> DEFINE t == [s EXCEPT !.dir = g]
<1> DEFINE w == [s EXCEPT !.ktabs = s.ktabs \cup {g}]
<1>0. g \in Nat /\ g # 0
  BY DEF PageNos
<1>1. t \in SpaceType /\ t.dir = g /\ t.ktabs = s.ktabs /\ t.tabs = s.tabs /\ t.map = s.map
  BY <1>0 DEF SpaceType
<1>2. /\ w \in SpaceType /\ w.dir = s.dir /\ w.ktabs = s.ktabs \cup {g} /\ w.tabs = s.tabs
      /\ w.map = s.map
  BY DEF SpaceType
<1> HIDE DEF t, w
<1>3. Adds(s, t, g)
  <2>1. \A h \in Nat, k \in Int : In(t, h, k) => In(s, h, k) \/ (h = g /\ k = -1)
    BY <1>1 DEF In
  <2>2. In(t, g, -1)
    BY <1>0, <1>1 DEF In
  <2> QED BY <2>1, <2>2, <1>0, <1>1, AddsIs
<1>4. Adds(s, w, g)
  <2>1. \A h \in Nat, k \in Int : In(w, h, k) => In(s, h, k) \/ (h = g /\ k = -2)
    BY <1>2 DEF In
  <2>2. In(w, g, -2)
    BY <1>2 DEF In
  <2> QED BY <2>1, <2>2, <1>0, <1>2, AddsIs
<1>5. s.dir = 0 => Keeps(s, t)
  <2>1. s.dir = 0 => \A h \in Nat, k \in Int : In(s, h, k) => In(t, h, k)
    BY <1>1 DEF In
  <2> QED BY <2>1 DEF Keeps, Within
<1>6. Keeps(s, w)
  <2>1. \A h \in Nat, k \in Int : In(s, h, k) => In(w, h, k)
    BY <1>2 DEF In
  <2> QED BY <2>1 DEF Keeps, Within
<1> QED BY <1>1, <1>2, <1>3, <1>4, <1>5, <1>6 DEF t, w

LEMMA UnmappedIs ==
  ASSUME NEW s \in SpaceType, NEW S \in SUBSET DOMAIN s.map
  PROVE  LET t == Unmapped(s, S)
         IN  /\ t \in SpaceType /\ t.tabs = s.tabs /\ DOMAIN t.map = DOMAIN s.map \ S
             /\ InOnce(s) => InOnce(t)
             /\ \A h \in Nat : Within(t, h) => Within(s, h)
             /\ \A h \in Nat : Within(s, h) => Within(t, h) \/ h \in Behind(s, S)
             /\ InOnce(s) => \A h \in Nat : h \in Behind(s, S) => ~ Within(t, h)
<1> DEFINE t == Unmapped(s, S)
<1> DEFINE D == DOMAIN s.map \ S
<1> DEFINE f == [v \in D |-> s.map[v]]
<1>1. /\ DOMAIN s.map \subseteq Nat
      /\ s.map \in [DOMAIN s.map -> EntryType]
      /\ \A v \in DOMAIN s.map : s.map[v].page \in PageNos
  BY SpaceIs, MapsAre
<1>2. DOMAIN f = D /\ f \in [D -> EntryType] /\ D \subseteq Nat
  BY <1>1
<1>3. \A v \in D : f[v] = s.map[v]
  OBVIOUS
<1> HIDE DEF f, D
<1>4. f \in Maps(EntryType)
  BY <1>2, MapsAre
<1>5. t = [s EXCEPT !.map = f]
  BY DEF Unmapped, f, D
<1>6. t \in SpaceType /\ t.dir = s.dir /\ t.ktabs = s.ktabs /\ t.tabs = s.tabs /\ t.map = f
  BY <1>4, <1>5 DEF SpaceType
<1> HIDE DEF t
<1>7. \A h, k : In(t, h, k) => In(s, h, k)
  BY <1>2, <1>3, <1>6 DEF In, D
<1>8. InOnce(s) => InOnce(t)
  BY <1>7 DEF InOnce
<1>9. ASSUME NEW h \in Nat, Within(s, h)
      PROVE  Within(t, h) \/ h \in Behind(s, S)
  <2>1. PICK k \in Int : In(s, h, k)
    BY <1>9 DEF Within
  <2>2. CASE k \in S
    <3>1. k \in DOMAIN s.map /\ k \in Nat
      BY <2>2, <1>1
    <3>2. h = s.map[k].page
      BY <2>1, <3>1, SpaceIs DEF In
    <3> QED BY <2>2, <3>2 DEF Behind
  <2>3. CASE k \notin S
    <3>1. In(t, h, k)
      BY <2>1, <2>3, <1>2, <1>3, <1>6 DEF In, D
    <3> QED BY <3>1 DEF Within
  <2> QED BY <2>2, <2>3
<1>10. ASSUME InOnce(s), NEW h \in Nat, h \in Behind(s, S), Within(t, h)
       PROVE  FALSE
  <2>1. PICK v \in S : h = s.map[v].page
    BY <1>10 DEF Behind
  <2>2. PICK k \in Int : In(t, h, k)
    BY <1>10 DEF Within
  <2>3. In(s, h, v) /\ v \in Int /\ In(s, h, k)
    <3>1. v \in DOMAIN s.map /\ v \in Int
      BY <2>1, <1>1
    <3>2. In(s, h, v)
      BY <2>1, <3>1 DEF In
    <3> QED BY <2>2, <3>1, <3>2, <1>7
  <2>4. k = v
    BY <2>3, <1>10 DEF InOnce
  <2>5. k \notin DOMAIN f /\ k \in Nat
    BY <2>1, <2>4, <1>1, <1>2 DEF D
  <2> QED BY <2>2, <2>5, <1>6 DEF In
<1> QED BY <1>2, <1>6, <1>7, <1>8, <1>9, <1>10 DEF t, D, Within
-----------------------------------------------------------------------------
(* deallocuvm and freevm.                                                  *)

VisitLoop(s, oldsz, f) ==
  f = [v \in 0..(Top + NPT) |->
         IF v * PGSIZE >= oldsz THEN {}
         ELSE IF Missing(s, v) THEN f[v + NPT]
         ELSE {v} \cup f[v + 1]]

LEMMA VisitedLoop ==
  ASSUME NEW s, NEW newsz, NEW oldsz
  PROVE  Visited(s, newsz, oldsz) =
           (CHOOSE f : VisitLoop(s, oldsz, f))[PGROUNDUP(newsz)] \cap DOMAIN s.map
BY DEF Visited, VisitLoop

\* The pages from v on.
From(s, oldsz, v) ==
  {u \in 0..(Top + NPT) : v <= u /\ u * PGSIZE < oldsz /\ ~ Missing(s, u)}

\* What comes after a page without a table has none either.
LEMMA MissingOn ==
  ASSUME NEW s \in SpaceType, Whole(s), NEW v \in Nat, Missing(s, v), NEW u \in Nat, v <= u
  PROVE  Missing(s, u)
<1>1. PDX(v) \in 0..PDX(u)
  BY PdxIs
<1> QED BY <1>1 DEF Whole, Missing

LEMMA VisitStep ==
  ASSUME NEW oldsz \in Nat, oldsz <= KERNBASE, NEW v \in 0..(Top + NPT)
  PROVE  /\ v * PGSIZE \in Nat
         /\ v * PGSIZE < oldsz =>
              v + 1 \in 0..(Top + NPT) /\ v + NPT \in 0..(Top + NPT) /\ v < Top
<1>1. v \in Nat /\ PGSIZE \in Nat /\ NPT \in Nat \ {0} /\ Top \in Nat /\ KERNBASE \in Nat
  BY MemConstants, TopIs
<1>2. v * PGSIZE \in Nat
  BY <1>1
<1>3. ASSUME v * PGSIZE < oldsz
      PROVE  v < Top
  <2> SUFFICES ASSUME Top <= v
               PROVE  FALSE
    BY <1>1
  <2>1. PGSIZE * Top <= PGSIZE * v
    BY <1>1, Times
  <2>2. Top * PGSIZE <= v * PGSIZE
    BY <1>1, <2>1
  <2> QED BY <1>1, <1>2, <1>3, <2>2, TopIs
<1> QED BY <1>1, <1>2, <1>3

LEMMA FromStep ==
  ASSUME NEW s \in SpaceType, Whole(s), NEW oldsz \in Nat, oldsz <= KERNBASE,
         NEW v \in 0..(Top + NPT)
  PROVE  From(s, oldsz, v) = IF v * PGSIZE >= oldsz THEN {}
                             ELSE IF Missing(s, v) THEN From(s, oldsz, v + NPT)
                             ELSE {v} \cup From(s, oldsz, v + 1)
<1>0. v \in Nat /\ v * PGSIZE \in Nat /\ NPT \in Nat \ {0} /\ Top \in Nat /\ PGSIZE \in Nat
  BY VisitStep, MemConstants, TopIs
<1>1. CASE v * PGSIZE >= oldsz
  <2>1. ASSUME NEW u \in From(s, oldsz, v)
        PROVE  FALSE
    <3>1. u \in Nat /\ v <= u /\ u * PGSIZE < oldsz
      BY <1>0 DEF From
    <3>2. PGSIZE * v <= PGSIZE * u
      BY <1>0, <3>1, Times
    <3>3. v * PGSIZE <= u * PGSIZE /\ u * PGSIZE \in Nat
      BY <1>0, <3>1, <3>2
    <3> QED BY <1>0, <1>1, <3>1, <3>3
  <2> QED BY <1>1, <2>1
<1>2. CASE ~ (v * PGSIZE >= oldsz) /\ Missing(s, v)
  <2>1. ASSUME NEW w \in Nat, v <= w, NEW u \in From(s, oldsz, w)
        PROVE  FALSE
    <3>1. u \in Nat /\ w <= u /\ ~ Missing(s, u)
      BY <1>0 DEF From
    <3>2. v <= u
      BY <1>0, <2>1, <3>1
    <3> QED BY <1>0, <1>2, <3>1, <3>2, MissingOn
  <2>2. From(s, oldsz, v) = {}
    BY <1>0, <2>1
  <2>3. From(s, oldsz, v + NPT) = {}
    <3>1. v + NPT \in Nat /\ v <= v + NPT
      BY <1>0
    <3> DEFINE w == v + NPT
    <3> HIDE DEF w
    <3>2. From(s, oldsz, w) = {}
      BY <3>1, <2>1 DEF w
    <3> QED BY <3>2 DEF w
  <2> QED BY <1>2, <2>2, <2>3
<1>3. CASE ~ (v * PGSIZE >= oldsz) /\ ~ Missing(s, v)
  <2>1. \A u \in Nat : v <= u <=> u = v \/ v + 1 <= u
    BY <1>0
  <2>2. v * PGSIZE < oldsz
    BY <1>0, <1>3
  <2>3. From(s, oldsz, v) = {v} \cup From(s, oldsz, v + 1)
    BY <1>0, <1>3, <2>1, <2>2 DEF From
  <2> QED BY <1>3, <2>3
<1> QED BY <1>1, <1>2, <1>3

\* The loop gets these pages.
LEMMA VisitLoopIs ==
  ASSUME NEW s \in SpaceType, Whole(s), NEW oldsz \in Nat, oldsz <= KERNBASE,
         NEW f, VisitLoop(s, oldsz, f), NEW v \in 0..(Top + NPT)
  PROVE  f[v] = From(s, oldsz, v)
<1> DEFINE M == Top + NPT
<1> DEFINE Wrong == {k \in Nat : k <= M /\ f[M - k] # From(s, oldsz, M - k)}
<1>0. M \in Nat /\ NPT \in Nat \ {0}
  BY MemConstants, TopIs
<1>1. ASSUME Wrong # {}
      PROVE  FALSE
  <2>1. PICK k \in Wrong : \A j \in Wrong : k <= j
    <3>1. Wrong \in SUBSET Nat
      OBVIOUS
    <3> HIDE DEF Wrong
    <3> QED BY <1>1, <3>1, LeastMember
  <2> DEFINE u == M - k
  <2>2. u \in 0..M /\ k \in Nat /\ f[u] # From(s, oldsz, u)
    BY <1>0, <2>1
  <2>3. \A w \in 0..M : u < w => f[w] = From(s, oldsz, w)
    <3> SUFFICES ASSUME NEW w \in 0..M, u < w, f[w] # From(s, oldsz, w)
                 PROVE  FALSE
      OBVIOUS
    <3>1. M - w \in Nat /\ M - w <= M /\ M - (M - w) = w /\ M - w < k
      BY <1>0, <2>2
    <3> DEFINE j == M - w
    <3>2. j \in Wrong
      BY <3>1
    <3> HIDE DEF Wrong
    <3> QED BY <2>1, <2>2, <3>1, <3>2
  <2> HIDE DEF u, Wrong
  <2>4. f[u] = IF u * PGSIZE >= oldsz THEN {}
               ELSE IF Missing(s, u) THEN f[u + NPT]
               ELSE {u} \cup f[u + 1]
    BY <2>2, Zenon DEF VisitLoop, M
  <2>5. From(s, oldsz, u) = IF u * PGSIZE >= oldsz THEN {}
                            ELSE IF Missing(s, u) THEN From(s, oldsz, u + NPT)
                            ELSE {u} \cup From(s, oldsz, u + 1)
    BY <2>2, FromStep DEF M
  <2>6. u * PGSIZE < oldsz => u + 1 \in 0..M /\ u + NPT \in 0..M
    BY <2>2, VisitStep DEF M
  <2>7. u * PGSIZE < oldsz \/ u * PGSIZE >= oldsz
    BY <2>2, VisitStep DEF M
  <2>8. u * PGSIZE < oldsz => f[u + 1] = From(s, oldsz, u + 1)
                             /\ f[u + NPT] = From(s, oldsz, u + NPT)
    <3>1. u < u + 1 /\ u < u + NPT
      BY <1>0, <2>2
    <3> DEFINE a == u + 1
    <3> DEFINE b == u + NPT
    <3> HIDE DEF a, b
    <3>2. u * PGSIZE < oldsz => f[a] = From(s, oldsz, a) /\ f[b] = From(s, oldsz, b)
      BY <3>1, <2>3, <2>6 DEF a, b
    <3> QED BY <3>2 DEF a, b
  <2> QED BY <2>2, <2>4, <2>5, <2>7, <2>8
<1>2. M - v \in Nat /\ M - v <= M /\ M - (M - v) = v
  BY <1>0
<1>3. M - v \notin Wrong
  BY <1>1
<1> QED BY <1>2, <1>3

LEMMA VisitedIs ==
  ASSUME NEW s \in SpaceType, Whole(s), NEW newsz \in Nat, newsz <= KERNBASE,
         NEW oldsz \in Nat, oldsz <= KERNBASE
  PROVE  Visited(s, newsz, oldsz) =
           {v \in DOMAIN s.map : PGROUNDUP(newsz) <= v /\ v * PGSIZE < oldsz}
<1> DEFINE F == CHOOSE f : VisitLoop(s, oldsz, f)
<1> DEFINE r == PGROUNDUP(newsz)
<1>0. /\ r \in 0..(Top + NPT) /\ Top \in Nat /\ NPT \in Nat \ {0} /\ DOMAIN s.map \subseteq Nat
      /\ KERNBASE \in Nat
  <2>1. r \in Nat /\ r <= Top
    BY RoundIs, RoundOrder, TopIs, MemConstants
  <2> HIDE DEF r
  <2> QED BY <2>1, TopIs, MemConstants, SpaceIs
<1>1. VisitLoop(s, oldsz, F)
  <2> DEFINE w == [v \in 0..(Top + NPT) |-> From(s, oldsz, v)]
  <2>1. ASSUME NEW v \in 0..(Top + NPT)
        PROVE  w[v] = IF v * PGSIZE >= oldsz THEN {}
                      ELSE IF Missing(s, v) THEN w[v + NPT]
                      ELSE {v} \cup w[v + 1]
    <3>1. v * PGSIZE < oldsz \/ v * PGSIZE >= oldsz
      BY VisitStep
    <3>2. v * PGSIZE < oldsz => v + 1 \in 0..(Top + NPT) /\ v + NPT \in 0..(Top + NPT)
      BY VisitStep
    <3>3. w[v] = From(s, oldsz, v)
      OBVIOUS
    <3>4. v * PGSIZE < oldsz => /\ w[v + 1] = From(s, oldsz, v + 1)
                                /\ w[v + NPT] = From(s, oldsz, v + NPT)
      BY <3>2
    <3> HIDE DEF w
    <3>5. From(s, oldsz, v) = IF v * PGSIZE >= oldsz THEN {}
                              ELSE IF Missing(s, v) THEN From(s, oldsz, v + NPT)
                              ELSE {v} \cup From(s, oldsz, v + 1)
      BY FromStep
    <3> QED BY <3>1, <3>3, <3>4, <3>5
  <2>2. w = [v \in 0..(Top + NPT) |->
               IF v * PGSIZE >= oldsz THEN {}
               ELSE IF Missing(s, v) THEN w[v + NPT]
               ELSE {v} \cup w[v + 1]]
    BY <2>1, Zenon
  <2>3. VisitLoop(s, oldsz, w)
    BY <2>2, Zenon DEF VisitLoop
  <2> HIDE DEF w
  <2> QED BY <2>3, Zenon
<1> HIDE DEF F
<1>2. F[r] = From(s, oldsz, r)
  <2> HIDE DEF r
  <2> QED BY <1>0, <1>1, VisitLoopIs
<1>3. Visited(s, newsz, oldsz) = From(s, oldsz, r) \cap DOMAIN s.map
  BY <1>2, VisitedLoop, Zenon DEF F
<1> HIDE DEF r
<1>4. ASSUME NEW v \in DOMAIN s.map
      PROVE  v \in Nat /\ v \in 0..(Top + NPT) /\ ~ Missing(s, v)
  <2>1. v \in Nat /\ PDX(v) \in DOMAIN s.tabs /\ v * PGSIZE < KERNBASE
    BY <1>0 DEF Whole
  <2>2. v < Top
    <3>1. v < PGROUNDUP(KERNBASE)
      BY <1>0, <2>1, RoundIs
    <3> QED BY <3>1, TopIs
  <2> QED BY <1>0, <2>1, <2>2 DEF Missing
<1>5. Visited(s, newsz, oldsz) = {v \in DOMAIN s.map : r <= v /\ v * PGSIZE < oldsz}
  BY <1>3, <1>4 DEF From
<1> QED BY <1>5 DEF r

LEMMA VisitedIn ==
  ASSUME NEW s, NEW newsz, NEW oldsz
  PROVE  Visited(s, newsz, oldsz) \in SUBSET DOMAIN s.map
<1>1. Visited(s, newsz, oldsz) \subseteq DOMAIN s.map
  BY VisitedLoop
<1> QED BY <1>1

LEMMA BehindIs ==
  ASSUME NEW s \in SpaceType, NEW S \in SUBSET DOMAIN s.map, NEW h \in Behind(s, S)
  PROVE  h \in Nat /\ Within(s, h)
<1>1. PICK v \in S : h = s.map[v].page
  BY DEF Behind
<1>2. v \in DOMAIN s.map /\ v \in Int
  BY SpaceIs
<1>3. In(s, h, v) /\ h \in Nat
  BY <1>1, <1>2, SpaceIs DEF In, PageNos
<1> QED BY <1>2, <1>3 DEF Within

\* freevm gives back the pages of the address space, and all of them if it is whole.
LEMMA AllIs ==
  ASSUME NEW s \in SpaceType
  PROVE  /\ \A h \in All(s) : h \in Nat /\ Within(s, h)
         /\ Whole(s) => \A h : Within(s, h) => h \in All(s)
<1> DEFINE V == Visited(s, 0, KERNBASE)
<1>1. V \in SUBSET DOMAIN s.map
  BY VisitedIn
<1>2. ASSUME NEW h \in Tables(s)
      PROVE  h \in Nat /\ Within(s, h)
  <2>1. h # 0 /\ (h = s.dir \/ h \in s.ktabs \/ \E i \in DOMAIN s.tabs : h = s.tabs[i])
    BY DEF Tables, Range
  <2>2. CASE h = s.dir
    <3>1. In(s, h, -1)
      BY <2>1, <2>2 DEF In
    <3> QED BY <2>2, <3>1, SpaceIs DEF Within
  <2>3. CASE h \in s.ktabs
    <3>1. In(s, h, -2)
      BY <2>3 DEF In
    <3> QED BY <2>3, <3>1, SpaceIs DEF Within, PageNos
  <2>4. CASE \E i \in DOMAIN s.tabs : h = s.tabs[i]
    <3>1. PICK i \in DOMAIN s.tabs : h = s.tabs[i]
      BY <2>4
    <3>2. i \in Nat /\ h \in Nat
      BY <3>1, SpaceIs DEF PageNos
    <3> DEFINE k == -3 - i
    <3>3. k \in Int /\ k + 3 <= 0 /\ -3 - k = i
      BY <3>2
    <3> HIDE DEF k
    <3>4. In(s, h, k)
      BY <3>1, <3>3 DEF In
    <3> QED BY <3>2, <3>3, <3>4 DEF Within
  <2> QED BY <2>1, <2>2, <2>3, <2>4
<1>3. ASSUME NEW h \in All(s)
      PROVE  h \in Nat /\ Within(s, h)
  <2>1. h \in Behind(s, V) \/ h \in Tables(s)
    BY <1>3 DEF All
  <2> HIDE DEF V
  <2> QED BY <2>1, <1>1, <1>2, BehindIs
<1>4. ASSUME Whole(s), NEW h, Within(s, h)
      PROVE  h \in All(s)
  <2>1. PICK k \in Int : In(s, h, k)
    BY <1>4 DEF Within
  <2>2. h # 0
    BY <2>1, SpaceIs DEF PageNos
  <2>3. CASE k \in DOMAIN s.map /\ h = s.map[k].page
    <3>1. V = {v \in DOMAIN s.map : PGROUNDUP(0) <= v /\ v * PGSIZE < KERNBASE}
      BY <1>4, MemConstants, VisitedIs
    <3>2. k \in Nat /\ k * PGSIZE < KERNBASE
      BY <1>4, <2>3, SpaceIs DEF Whole
    <3>3. PGROUNDUP(0) \in Nat /\ ~ (0 < PGROUNDUP(0))
      <4>1. 0 * PGSIZE = 0
        BY MemConstants
      <4> QED BY <4>1, RoundIs
    <3>4. k \in V
      BY <2>3, <3>1, <3>2, <3>3
    <3> HIDE DEF V
    <3>5. h \in Behind(s, V)
      BY <2>3, <3>4 DEF Behind
    <3> QED BY <3>5 DEF All, V
  <2>4. CASE h \in ({s.dir} \cup s.ktabs \cup Range(s.tabs)) \ {0}
    BY <2>4 DEF All, Tables
  <2>5. h \in s.ktabs \/ h = s.dir \/ (\E i \in DOMAIN s.tabs : h = s.tabs[i])
        \/ (k \in DOMAIN s.map /\ h = s.map[k].page)
    BY <2>1 DEF In
  <2> QED BY <2>2, <2>3, <2>4, <2>5 DEF Range
<1> QED BY <1>3, <1>4
-----------------------------------------------------------------------------
(* Owners.                                                                 *)

Stack(p) == <<p, "kstack">>
Hand(p)  == <<p, "hand">>
Own(p)   == <<p, "own">>
New(p)   == <<p, "new">>

LEMMA OwnersAre ==
  /\ FreeList \in Owners
  /\ \A p \in Slots : /\ Stack(p) \in Owners /\ Hand(p) \in Owners
                      /\ Own(p) \in Owners /\ New(p) \in Owners
  /\ \A o \in Owners : \/ o = FreeList
                       \/ \E p \in Slots : o = Stack(p) \/ o = Hand(p) \/ o = Own(p) \/ o = New(p)
<1>1. \A p \in Slots : /\ Stack(p) \in Owners /\ Hand(p) \in Owners
                       /\ Own(p) \in Owners /\ New(p) \in Owners
  BY DEF Owners, Stack, Hand, Own, New
<1>2. ASSUME NEW o \in Owners, o # FreeList
      PROVE  \E p \in Slots : o = Stack(p) \/ o = Hand(p) \/ o = Own(p) \/ o = New(p)
  <2>1. PICK p \in Slots, k \in {"kstack", "hand", "own", "new"} : o = <<p, k>>
    BY <1>2 DEF Owners
  <2> QED BY <2>1 DEF Stack, Hand, Own, New
<1> QED BY <1>1, <1>2 DEF Owners

LEMMA OwnsIs ==
  /\ \A g : Owns(FreeList, g) <=> g \in free
  /\ \A p, g : /\ Owns(Stack(p), g) <=> g = kstack[p] /\ g # 0
               /\ Owns(Hand(p), g) <=> g = job[p].page /\ g # 0
               /\ Owns(Own(p), g) <=> Within(pgdir[p], g)
               /\ Owns(New(p), g) <=> Within(new[p], g)
BY DEF Owns, FreeList, Stack, Hand, Own, New

LEMMA OwnsNext ==
  /\ \A g : Owns(FreeList, g)' <=> g \in free'
  /\ \A p, g : /\ Owns(Stack(p), g)' <=> g = kstack'[p] /\ g # 0
               /\ Owns(Hand(p), g)' <=> g = job'[p].page /\ g # 0
               /\ Owns(Own(p), g)' <=> Within(pgdir'[p], g)
               /\ Owns(New(p), g)' <=> Within(new'[p], g)
BY DEF Owns, FreeList, Stack, Hand, Own, New, Within, In

LEMMA OwnersApart ==
  /\ \A p \in Slots : /\ FreeList # Stack(p) /\ FreeList # Hand(p) /\ FreeList # Own(p)
                      /\ FreeList # New(p)
  /\ \A p, q : /\ Stack(p) # Hand(q) /\ Stack(p) # Own(q) /\ Stack(p) # New(q)
               /\ Hand(p) # Own(q) /\ Hand(p) # New(q) /\ Own(p) # New(q)
               /\ Stack(p) = Stack(q) => p = q
               /\ Hand(p) = Hand(q) => p = q
               /\ Own(p) = Own(q) => p = q
               /\ New(p) = New(q) => p = q
BY DEF FreeList, Stack, Hand, Own, New

\* Nothing is given to two, and what is given somebody gives up.
LEMMA Transferred ==
  ASSUME OneOwner, NoneMore, DOMAIN mem' = DOMAIN mem, NEW y \in Owners,
         \A o \in Owners, g \in Nat : o # y /\ Owns(o, g)' => Owns(o, g),
         \A g \in Nat : Owns(y, g)' => \/ Owns(y, g)
                                       \/ \E x \in Owners : Owns(x, g) /\ ~ Owns(x, g)'
  PROVE  OneOwner' /\ NoneMore'
<1>1. ASSUME NEW o \in Owners, NEW g \in Nat, o # y, Owns(o, g)', Owns(y, g)'
      PROVE  FALSE
  <2>1. Owns(o, g)
    BY <1>1
  <2>2. ~ Owns(y, g)
    BY <1>1, <2>1 DEF OneOwner
  <2>3. PICK x \in Owners : Owns(x, g) /\ ~ Owns(x, g)'
    BY <1>1, <2>2
  <2>4. x = o
    BY <2>1, <2>3 DEF OneOwner
  <2> QED BY <1>1, <2>3, <2>4
<1>2. ASSUME NEW o \in Owners, NEW r \in Owners, NEW g \in Nat, Owns(o, g)', Owns(r, g)'
      PROVE  o = r
  <2>1. CASE o = y \/ r = y
    BY <1>1, <1>2, <2>1
  <2>2. CASE o # y /\ r # y
    <3>1. Owns(o, g) /\ Owns(r, g)
      BY <1>2, <2>2
    <3> QED BY <3>1 DEF OneOwner
  <2> QED BY <2>1, <2>2
<1>3. OneOwner'
  <2>1. \A o \in Owners, r \in Owners, g \in Nat : Owns(o, g)' /\ Owns(r, g)' => o = r
    BY <1>2
  <2> QED BY <2>1 DEF OneOwner, Owners
<1>4. ASSUME NEW o \in Owners, NEW g \in Nat, Owns(o, g)'
      PROVE  g \in DOMAIN mem'
  <2>1. \E x \in Owners : Owns(x, g)
    BY <1>4
  <2> QED BY <2>1 DEF NoneMore
<1>5. NoneMore'
  <2>1. \A g \in Nat, o \in Owners : Owns(o, g)' => g \in DOMAIN mem'
    BY <1>4
  <2> QED BY <2>1 DEF NoneMore, Owners
<1> QED BY <1>3, <1>5

LEMMA AllKept ==
  ASSUME NoneLost, NoneMore, DOMAIN mem' = DOMAIN mem, DOMAIN mem \subseteq Nat,
         \A o \in Owners, g \in Nat : Owns(o, g) => \E r \in Owners : Owns(r, g)'
  PROVE  NoneLost'
<1>1. ASSUME NEW g \in DOMAIN mem'
      PROVE  \E r \in Owners : Owns(r, g)'
  <2>1. g \in Nat /\ \E o \in Owners : Owns(o, g)
    BY DEF NoneLost
  <2> QED BY <2>1
<1> QED BY <1>1 DEF NoneLost, Owners

-----------------------------------------------------------------------------
(* The steps.                                                              *)

SameSlot(r) ==
  /\ kstack'[r] = kstack[r] /\ pgdir'[r] = pgdir[r] /\ new'[r] = new[r]
  /\ call'[r] = call[r] /\ job'[r] = job[r] /\ sz'[r] = sz[r]

LEMMA SameSlotIs ==
  ASSUME NEW r, SameSlot(r)
  PROVE  /\ PlaceOK(r) => PlaceOK(r)'
         /\ InOnce(pgdir[r]) => InOnce(pgdir[r])'
         /\ InOnce(new[r]) => InOnce(new[r])'
         /\ HereOK(r) => HereOK(r)'
<1>1. (pgdir[r])' = pgdir[r] /\ (new[r])' = new[r]
  BY DEF SameSlot
<1>2. Space(r)' = Space(r)
  BY DEF SameSlot, Space
<1>3. PlaceOK(r) => PlaceOK(r)'
  BY <1>2 DEF PlaceOK, SameSlot, Missing
<1>4. SizeOK(r) => SizeOK(r)'
  BY <1>2 DEF SizeOK, SameSlot
<1>5. HereOK(r) => HereOK(r)'
  BY <1>1, <1>4 DEF HereOK, Whole
<1>6. InOnce(pgdir[r]) => InOnce(pgdir[r])'
  BY <1>1 DEF InOnce, In
<1>7. InOnce(new[r]) => InOnce(new[r])'
  BY <1>1 DEF InOnce, In
<1> QED BY <1>3, <1>5, <1>6, <1>7

\* What LocalOK and HereOK say of the page tables of a slot after a step.
LEMMA SpacesNext ==
  ASSUME NEW p, InOnce(pgdir'[p]), InOnce(new'[p])
  PROVE  /\ InOnce(pgdir[p])' /\ InOnce(new[p])'
         /\ Whole(pgdir'[p]) /\ Whole(new'[p]) => Whole(pgdir[p])' /\ Whole(new[p])'
<1>1. InOnce(pgdir[p])' /\ InOnce(new[p])'
  BY DEF InOnce, In
<1>2. Whole(pgdir'[p]) /\ Whole(new'[p]) => Whole(pgdir[p])' /\ Whole(new[p])'
  BY DEF Whole
<1> QED BY <1>1, <1>2

LEMMA JobsNext ==
  ASSUME job \in [Slots -> JobType], NEW p \in Slots, NEW k \in JobType,
         job' = [job EXCEPT ![p] = k]
  PROVE  job'[p] = k /\ job' \in [Slots -> JobType] /\ \A r \in Slots \ {p} : job'[r] = job[r]
<1>1. job'[p] = k
  OBVIOUS
<1>2. job' \in [Slots -> JobType]
  OBVIOUS
<1>3. \A r \in Slots \ {p} : job'[r] = job[r]
  OBVIOUS
<1> QED BY <1>1, <1>2, <1>3

\* A step of p, which may do something to the slot q.
LEMMA MemStep ==
  ASSUME MemInv, NEW p \in Slots, NEW q \in Slots,
         \A r \in Slots \ {p, q} : SameSlot(r),
         call[p] # "embryo",
         q = p \/ q = job[p].child \/ (call[q] # "embryo" /\ job'[q].child = 0),
         q # p => job'[q].child = 0,
         job'[p].child \in {0, job[p].child} \/ (job'[p].child = q /\ call[q] = "unused"),
         MemTyped', OneOwner', NoneMore', LocalOK(p)', LocalOK(q)', short => short',
         ~ short' => ~ halted' /\ NoneLost' /\ HereOK(p)' /\ HereOK(q)'
  PROVE  MemInv'
<1>1. ASSUME NEW r \in Slots \ {p, q}
      PROVE  LocalOK(r)'
  <2>1. SameSlot(r) /\ LocalOK(r)
    BY DEF MemInv
  <2>2. PlaceOK(r)' /\ InOnce(pgdir[r])' /\ InOnce(new[r])'
    BY <2>1, SameSlotIs DEF LocalOK
  <2>3. ChildOK(r)'
    <3>1. (job[r].op = "fork" <=> job[r].child # 0) /\ job'[r] = job[r]
      BY <2>1 DEF LocalOK, ChildOK, SameSlot
    <3>2. ASSUME job[r].child # 0
          PROVE  job[r].child \in Slots /\ call'[job[r].child] = "embryo"
      <4>1. job[r].child \in Slots /\ call[job[r].child] = "embryo"
        BY <2>1, <3>2 DEF LocalOK, ChildOK
      <4>2. job[r].child # p
        BY <4>1
      <4>3. job[r].child # q
        BY <4>1, <4>2, <3>2 DEF MemInv, OneParent
      <4> QED BY <4>1, <4>2, <4>3 DEF SameSlot
    <3> QED BY <3>1, <3>2 DEF ChildOK
  <2> QED BY <2>2, <2>3 DEF LocalOK
<1>2. \A r \in Slots : LocalOK(r)'
  BY <1>1
<1>3. OneParent'
  <2>1. \A r \in Slots : \/ job'[r].child = job[r].child
                         \/ job'[r].child = 0
                         \/ r = p /\ job'[r].child = q /\ call[q] = "unused"
    BY DEF SameSlot
  <2>2. \A r \in Slots : job[r].child # 0 => call[job[r].child] = "embryo"
    BY DEF MemInv, LocalOK, ChildOK
  <2>3. ASSUME NEW r \in Slots, NEW u \in Slots, job'[r].child # 0, job'[r].child = job'[u].child
        PROVE  r = u
    <3>1. CASE job'[r].child = job[r].child /\ job'[u].child = job[u].child
      BY <3>1, <2>3 DEF MemInv, OneParent
    <3>2. CASE r = p /\ job'[r].child = q /\ call[q] = "unused"
      BY <3>2, <2>1, <2>2, <2>3
    <3>3. CASE u = p /\ job'[u].child = q /\ call[q] = "unused"
      BY <3>3, <2>1, <2>2, <2>3
    <3> QED BY <2>1, <2>3, <3>1, <3>2, <3>3
  <2> QED BY <2>3 DEF OneParent
<1>4. ASSUME ~ short'
      PROVE  \A r \in Slots : HereOK(r)'
  <2>1. \A r \in Slots : HereOK(r)
    BY <1>4 DEF MemInv
  <2>2. \A r \in Slots \ {p, q} : HereOK(r)'
    BY <2>1, SameSlotIs
  <2> QED BY <1>4, <2>2
<1> QED BY <1>2, <1>3, <1>4 DEF MemInv
LEMMA SameOwners ==
  ASSUME DOMAIN mem' = DOMAIN mem, UNCHANGED <<free, kstack, pgdir, new>>,
         \A r \in Slots : job'[r].page = job[r].page
  PROVE  (OneOwner => OneOwner') /\ (NoneMore => NoneMore') /\ (NoneLost => NoneLost')
<1>1. ASSUME NEW o \in Owners, NEW g
      PROVE  Owns(o, g)' <=> Owns(o, g)
  <2>1. CASE o = FreeList
    BY <2>1, OwnsIs, OwnsNext
  <2>2. ASSUME NEW p \in Slots, o = Stack(p) \/ o = Hand(p) \/ o = Own(p) \/ o = New(p)
        PROVE  Owns(o, g)' <=> Owns(o, g)
    <3>1. /\ Owns(Stack(p), g)' <=> Owns(Stack(p), g)
          /\ Owns(Hand(p), g)' <=> Owns(Hand(p), g)
      BY OwnsIs, OwnsNext
    <3>2. pgdir'[p] = pgdir[p] /\ new'[p] = new[p]
      OBVIOUS
    <3>3. /\ Owns(Own(p), g)' <=> Owns(Own(p), g)
          /\ Owns(New(p), g)' <=> Owns(New(p), g)
      BY <3>2, OwnsIs, OwnsNext
    <3> QED BY <2>2, <3>1, <3>3
  <2> QED BY <2>1, <2>2, OwnersAre
<1>2. OneOwner => OneOwner'
  <2>1. OneOwner => \A o, r \in Owners, g \in Nat : Owns(o, g)' /\ Owns(r, g)' => o = r
    BY <1>1 DEF OneOwner
  <2> QED BY <2>1 DEF OneOwner, Owners
<1>3. NoneMore => NoneMore'
  <2>1. NoneMore => \A g \in Nat, o \in Owners : Owns(o, g)' => g \in DOMAIN mem'
    BY <1>1 DEF NoneMore
  <2> QED BY <2>1 DEF NoneMore, Owners
<1>4. NoneLost => NoneLost'
  <2>1. NoneLost => \A g \in DOMAIN mem' : \E o \in Owners : Owns(o, g)'
    BY <1>1 DEF NoneLost
  <2> QED BY <2>1 DEF NoneLost, Owners
<1> QED BY <1>2, <1>3, <1>4

\* A step that moves no page.
LEMMA QuietStep ==
  ASSUME MemInv, NEW p \in Slots, \A r \in Slots \ {p} : SameSlot(r), call[p] # "embryo",
         UNCHANGED <<free, kstack, pgdir, new, short>>, DOMAIN mem' = DOMAIN mem, MemTyped',
         job'[p].page = job[p].page, job'[p].child = job[p].child,
         PlaceOK(p)', ChildOK(p)', ~ short => ~ halted' /\ SizeOK(p)'
  PROVE  MemInv'
<1>1. \A r \in Slots : job'[r].page = job[r].page
  BY DEF SameSlot
<1>2. OneOwner' /\ NoneMore' /\ (~ short => NoneLost')
  BY <1>1, SameOwners DEF MemInv
<1>3. (pgdir[p])' = pgdir[p] /\ (new[p])' = new[p]
  OBVIOUS
<1>4. LocalOK(p)'
  <2>1. InOnce(pgdir[p]) /\ InOnce(new[p])
    BY DEF MemInv, LocalOK
  <2>2. InOnce(pgdir[p])' /\ InOnce(new[p])'
    BY <1>3, <2>1, SpacesNext
  <2> QED BY <2>2 DEF LocalOK
<1>5. ~ short => HereOK(p)'
  BY <1>3 DEF MemInv, HereOK, Whole
<1> QED BY <1>2, <1>4, <1>5, MemStep

LEMMA NoJobIs ==
  /\ NoJob \in JobType /\ NoJob.op = "none" /\ NoJob.page = 0 /\ NoJob.child = 0
BY DEF NoJob, JobType, ProgType, Ops

\* What is known of a process.
LEMMA SlotIs ==
  ASSUME MemInv, NEW p \in Slots
  PROVE  /\ kstack[p] \in Nat /\ sz[p] \in 0..(KERNBASE - 1) /\ pgdir[p] \in SpaceType
         /\ new[p] \in SpaceType /\ call[p] \in MemPcs /\ job[p] \in JobType
         /\ PlaceOK(p) /\ ChildOK(p) /\ InOnce(pgdir[p]) /\ InOnce(new[p])
         /\ ~ short => Whole(pgdir[p]) /\ Whole(new[p]) /\ SizeOK(p) /\ ~ halted /\ NoneLost
         /\ free \subseteq DOMAIN mem /\ DOMAIN mem \subseteq PageNos /\ free \subseteq PageNos
         /\ OneOwner /\ NoneMore /\ short \in BOOLEAN /\ halted \in BOOLEAN
         /\ MemTyped
BY DEF MemInv, MemTyped, LocalOK, HereOK

\* A process in user mode.
LEMMA UserIs ==
  ASSUME MemInv, NEW p \in Slots, call[p] \in {"user", "fault", "zombie"}
  PROVE  new[p] = NoSpace /\ job[p] = NoJob
BY SlotIs DEF PlaceOK

LEMMA WriteKeeps ==
  ASSUME MemInv, NEW p \in Slots, NEW v \in Stores, NEW x \in MemVals, Write(p, v, x)
  PROVE  MemInv'
<1>1. /\ UNCHANGED <<free, kstack, pgdir, sz, call, new, job, short, halted>>
      /\ DOMAIN mem' = DOMAIN mem /\ call[p] = "user"
  BY DEF Write, At
<1>2. \A r \in Slots : SameSlot(r)
  BY <1>1 DEF SameSlot
<1>3. MemTyped'
  BY <1>1 DEF MemInv, MemTyped
<1>4. PlaceOK(p)' /\ HereOK(p) => HereOK(p)'
  BY <1>2, SlotIs, SameSlotIs
<1>5. PlaceOK(p)' /\ ChildOK(p)'
  BY <1>1, <1>2, SlotIs, SameSlotIs DEF ChildOK
<1>6. ~ short => ~ halted' /\ SizeOK(p)'
  BY <1>1, <1>2, SameSlotIs DEF MemInv, HereOK
<1> QED BY <1>1, <1>2, <1>3, <1>5, <1>6, QuietStep

LEMMA ExitKeeps ==
  ASSUME MemInv, NEW p \in Slots, Exit(p)
  PROVE  MemInv'
<1>1. /\ UNCHANGED <<free, mem, kstack, pgdir, sz, new, job, short, halted>>
      /\ call' = [call EXCEPT ![p] = "zombie"] /\ call[p] \in {"user", "fault"}
  BY DEF Exit, At, GoTo
<1>2. \A r \in Slots \ {p} : SameSlot(r)
  BY <1>1 DEF SameSlot
<1>3. call'[p] = "zombie" /\ MemTyped'
  BY <1>1 DEF MemInv, MemTyped, MemPcs
<1>4. new[p] = NoSpace /\ job[p] = NoJob
  BY <1>1, UserIs
<1>5. PlaceOK(p)'
  BY SlotIs, <1>1, <1>3, <1>4, NoJobIs DEF PlaceOK
<1>6. ChildOK(p)'
  BY <1>1, <1>4, NoJobIs DEF ChildOK
<1>7. ~ short => ~ halted' /\ SizeOK(p)'
  BY <1>1, <1>3, <1>4, SlotIs, NoJobIs DEF SizeOK
<1> QED BY <1>1, <1>2, <1>3, <1>5, <1>6, <1>7, QuietStep

LEMMA SbrkMoreKeeps ==
  ASSUME MemInv, NEW p \in Slots, NEW n \in Sbrks, SbrkMore(p, n)
  PROVE  MemInv'
<1> DEFINE j == [NoJob EXCEPT !.op = "sbrk", !.old = sz[p], !.end = sz[p] + n,
                              !.a = PGROUNDUP(sz[p])]
<1>0. n \in Int /\ n > 0 /\ sz[p] \in Nat /\ sz[p] + n \in Nat /\ sz[p] + n < KERNBASE
      /\ PGROUNDUP(sz[p]) \in Nat /\ sz[p] < KERNBASE /\ KERNBASE \in Nat
  <2>1. n \in Int /\ n > 0 /\ sz[p] \in 0..(KERNBASE - 1) /\ sz[p] + n < KERNBASE
        /\ KERNBASE \in Nat
    BY SlotIs, MemConstants, MemoryAssumption DEF SbrkMore
  <2> QED BY <2>1, RoundIs
<1>1. /\ UNCHANGED <<free, mem, kstack, pgdir, sz, new, short, halted>>
      /\ call' = [call EXCEPT ![p] = "grow"] /\ call[p] = "user" /\ ~ halted
      /\ job' = [job EXCEPT ![p] = j]
  BY DEF SbrkMore, At, GoTo
<1>2. /\ j \in JobType /\ j.op = "sbrk" /\ j.old = sz[p] /\ j.end = sz[p] + n
      /\ j.a = PGROUNDUP(sz[p]) /\ j.page = 0 /\ j.child = 0
  BY <1>0, NoJobIs DEF JobType, NoJob, ProgType, Ops
<1> HIDE DEF j
<1>3. \A r \in Slots \ {p} : SameSlot(r)
  BY <1>1 DEF SameSlot
<1>4. call'[p] = "grow" /\ job'[p] = j /\ MemTyped'
  BY <1>1, <1>2 DEF MemInv, MemTyped, MemPcs
<1>5. new[p] = NoSpace /\ job[p] = NoJob
  BY <1>1, UserIs
<1>6. PlaceOK(p)'
  BY SlotIs, <1>1, <1>2, <1>4, <1>5 DEF PlaceOK
<1>7. ChildOK(p)'
  BY <1>2, <1>4 DEF ChildOK
<1>8. ~ short => SizeOK(p)'
  <2>1. PGROUNDUP(sz[p]) <= PGROUNDUP(sz[p] + n)
    BY <1>0, RoundOrder
  <2>2. Space(p)' = pgdir[p]
    BY <1>1, <1>2, <1>4 DEF Space
  <2>3. ~ short => DOMAIN pgdir[p].map = 0..(PGROUNDUP(sz[p]) - 1)
    BY <1>1, SlotIs DEF SizeOK
  <2> QED BY <1>0, <1>1, <1>2, <1>4, <2>1, <2>2, <2>3 DEF SizeOK
<1> QED BY <1>1, <1>2, <1>3, <1>4, <1>5, <1>6, <1>7, <1>8, NoJobIs, QuietStep

\* The segments of a program.
LEMMA SegsAre ==
  ASSUME NEW prog \in Programs
  PROVE  /\ Len(prog.segs) \in Nat /\ Len(prog.segs) >= 1
         /\ \A i \in 1..Len(prog.segs) :
              /\ prog.segs[i].at \in Nat /\ prog.segs[i].filesz \in Nat
              /\ prog.segs[i].memsz \in Nat /\ prog.segs[i].filesz <= prog.segs[i].memsz
              /\ SegEnd(prog.segs[i]) \in Nat
<1> DEFINE s == prog.segs
<1>1. /\ s # << >> /\ s \in Seq([at : Nat, filesz : Nat, memsz : Nat])
      /\ \A i \in DOMAIN s : s[i].filesz <= s[i].memsz
  BY MemoryAssumption
<1> HIDE DEF s
<1>2. Len(s) \in Nat /\ DOMAIN s = 1..Len(s) /\ Len(s) >= 1
  BY <1>1, EmptySeq, LenProperties
<1>3. ASSUME NEW i \in 1..Len(s)
      PROVE  /\ s[i].at \in Nat /\ s[i].filesz \in Nat /\ s[i].memsz \in Nat
             /\ s[i].filesz <= s[i].memsz
  <2>1. s[i] \in [at : Nat, filesz : Nat, memsz : Nat]
    BY <1>1, ElementOfSeq
  <2> QED BY <2>1, <1>1, <1>2
<1>4. ASSUME NEW i \in 1..Len(s)
      PROVE  SegEnd(s[i]) \in Nat
  BY <1>3, MemConstants DEF SegEnd
<1> QED BY <1>2, <1>3, <1>4 DEF s

LEMMA ExecKeeps ==
  ASSUME MemInv, NEW p \in Slots, NEW prog \in Programs, Exec(p, prog)
  PROVE  MemInv'
<1> DEFINE e == SegEnd(prog.segs[1])
<1> DEFINE j == [NoJob EXCEPT !.op = "exec", !.prog = prog, !.seg = 1, !.end = e]
<1>0. e \in Nat /\ Len(prog.segs) \in Nat /\ 1 \in 1..Len(prog.segs)
  BY SegsAre
<1>1. /\ UNCHANGED <<free, mem, kstack, pgdir, sz, new, short, halted>>
      /\ call' = [call EXCEPT ![p] = "setup"] /\ call[p] = "user" /\ ~ halted
      /\ job' = [job EXCEPT ![p] = j]
  BY DEF Exec, At, GoTo
<1> HIDE DEF e
<1>2. /\ j \in JobType /\ j.op = "exec" /\ j.prog = prog /\ j.seg = 1 /\ j.end = e
      /\ j.a = 0 /\ j.page = 0 /\ j.child = 0
  BY <1>0, NoJobIs DEF JobType, NoJob, ProgType, Ops
<1> HIDE DEF j
<1>3. \A r \in Slots \ {p} : SameSlot(r)
  BY <1>1 DEF SameSlot
<1>4. call'[p] = "setup" /\ job'[p] = j /\ MemTyped'
  BY <1>1, <1>2 DEF MemInv, MemTyped, MemPcs
<1>5. new[p] = NoSpace /\ job[p] = NoJob
  BY <1>1, UserIs
<1>6. PlaceOK(p)'
  <2>1. new'[p] = NoSpace /\ NoSpace.tabs = NoMap /\ NoSpace.map = NoMap /\ NoSpace.ktabs = {}
    BY <1>1, <1>5 DEF NoSpace
  <2>2. 1 \in 1..(Len(prog.segs) + 1)
    BY <1>0
  <2> QED BY SlotIs, <1>0, <1>1, <1>2, <1>4, <2>1, <2>2 DEF PlaceOK
<1>7. ChildOK(p)'
  BY <1>2, <1>4 DEF ChildOK
<1>8. ~ short => SizeOK(p)'
  <2>1. PGROUNDUP(e) \in Nat /\ 0 * PGSIZE = 0 /\ KERNBASE \in Nat
    BY <1>0, RoundIs, MemConstants
  <2>2. ~ short => DOMAIN pgdir'[p].map = 0..(PGROUNDUP(sz'[p]) - 1)
    BY <1>1, SlotIs DEF SizeOK
  <2>3. SegEnd(j.prog.segs[j.seg]) = j.end /\ ~ (j.seg > Len(j.prog.segs))
    BY <1>0, <1>2 DEF e
  <2> QED BY <1>0, <1>1, <1>2, <1>4, <2>1, <2>2, <2>3 DEF SizeOK
<1> QED BY <1>1, <1>2, <1>3, <1>4, <1>5, <1>6, <1>7, <1>8, NoJobIs, QuietStep

\* Where the loop of allocuvm or copyuvm ends.
LEMMA FinishedIs ==
  ASSUME MemInv, NEW p \in Slots
  PROVE  /\ job[p].a \in Nat /\ job[p].end \in Nat /\ PGROUNDUP(job[p].end) \in Nat
         /\ Finished(p) => PGROUNDUP(job[p].end) <= job[p].a /\ job[p].end < KERNBASE
         /\ ~ Finished(p) /\ job[p].end < KERNBASE => /\ job[p].a < PGROUNDUP(job[p].end)
                                                     /\ job[p].a * PGSIZE < job[p].end
<1>1. job[p].a \in Nat /\ job[p].end \in Nat
  BY SlotIs DEF JobType
<1>2. /\ PGROUNDUP(job[p].end) \in Nat
      /\ job[p].a < PGROUNDUP(job[p].end) <=> job[p].a * PGSIZE < job[p].end
  BY <1>1, RoundIs
<1>3. job[p].a * PGSIZE \in Nat
  BY <1>1, MemConstants
<1> QED BY <1>1, <1>2, <1>3 DEF Finished

LEMMA GrownKeeps ==
  ASSUME MemInv, NEW p \in Slots, Grown(p)
  PROVE  MemInv'
<1>1. /\ UNCHANGED <<free, mem, kstack, pgdir, new, short, halted>>
      /\ call' = [call EXCEPT ![p] = "user"] /\ call[p] = "grow" /\ ~ halted
      /\ job' = [job EXCEPT ![p] = NoJob] /\ sz' = [sz EXCEPT ![p] = job[p].end]
      /\ job[p].op = "sbrk" /\ Finished(p)
  BY DEF Grown, At, GoTo
<1>2. \A r \in Slots \ {p} : SameSlot(r)
  BY <1>1 DEF SameSlot
<1>3. job[p].end \in 0..(KERNBASE - 1) /\ KERNBASE \in Nat
  BY <1>1, FinishedIs, MemConstants
<1>4. /\ call'[p] = "user" /\ job'[p] = NoJob /\ sz'[p] = job[p].end /\ MemTyped'
  BY <1>1, <1>3, NoJobIs DEF MemInv, MemTyped, MemPcs
<1>5. new[p] = NoSpace /\ job[p].page = 0 /\ job[p].child = 0
  BY <1>1, SlotIs DEF PlaceOK, ChildOK
<1>6. PlaceOK(p)'
  BY SlotIs, <1>1, <1>4, <1>5, NoJobIs DEF PlaceOK
<1>7. ChildOK(p)'
  BY <1>4, NoJobIs DEF ChildOK
<1>8. ~ short => SizeOK(p)'
  <2>1. ~ short => DOMAIN Space(p).map = 0..(job[p].a - 1) /\ job[p].a <= PGROUNDUP(job[p].end)
    BY <1>1, SlotIs DEF SizeOK
  <2>2. Space(p) = pgdir[p]
    BY <1>1 DEF Space
  <2>3. ~ short => job[p].a = PGROUNDUP(job[p].end)
    BY <1>1, <2>1, FinishedIs
  <2> QED BY <1>1, <1>4, <2>1, <2>2, <2>3, NoJobIs DEF SizeOK
<1> QED BY <1>1, <1>2, <1>4, <1>5, <1>6, <1>7, <1>8, NoJobIs, QuietStep
-----------------------------------------------------------------------------
(* Steps that move pages.                                                  *)

LEMMA OthersOwn ==
  ASSUME NEW r \in Slots, SameSlot(r), NEW o, NEW g,
         o = Stack(r) \/ o = Hand(r) \/ o = Own(r) \/ o = New(r)
  PROVE  Owns(o, g)' <=> Owns(o, g)
<1>1. /\ kstack'[r] = kstack[r] /\ pgdir'[r] = pgdir[r] /\ new'[r] = new[r]
      /\ job'[r].page = job[r].page
  BY DEF SameSlot
<1>2. /\ Owns(Stack(r), g)' <=> Owns(Stack(r), g)
      /\ Owns(Hand(r), g)' <=> Owns(Hand(r), g)
  BY <1>1, OwnsIs, OwnsNext
<1>3. /\ Owns(Own(r), g)' <=> Owns(Own(r), g)
      /\ Owns(New(r), g)' <=> Owns(New(r), g)
  BY <1>1, OwnsIs, OwnsNext
<1> QED BY <1>2, <1>3

LEMMA FreeIs ==
  ASSUME MemInv, free # {}
  PROVE  Min(free) \in free /\ Min(free) \in PageNos /\ Min(free) \in Nat
<1>1. free \in SUBSET Nat /\ free \subseteq PageNos
  BY DEF MemInv, MemTyped, PageNos
<1>2. Min(free) \in free
  BY <1>1, LeastIs
<1> QED BY <1>1, <1>2

SpaceOwner(p) == IF job[p].op = "sbrk" THEN Own(p) ELSE New(p)

LEMMA SpaceOwnerIs ==
  ASSUME MemInv, NEW p \in Slots
  PROVE  /\ SpaceOwner(p) \in Owners /\ Space(p) \in SpaceType /\ InOnce(Space(p))
         /\ \A g : Owns(SpaceOwner(p), g) <=> Within(Space(p), g)
         /\ ~ short => Whole(Space(p))
BY SlotIs, OwnersAre, OwnsIs DEF SpaceOwner, Space

LEMMA SetSpaceIs ==
  ASSUME MemInv, NEW p \in Slots, NEW t \in SpaceType, SetSpace(p, t), job'[p].op = job[p].op
  PROVE  /\ Space(p)' = t /\ pgdir' \in [Slots -> SpaceType] /\ new' \in [Slots -> SpaceType]
         /\ \A r \in Slots \ {p} : pgdir'[r] = pgdir[r] /\ new'[r] = new[r]
         /\ job[p].op = "sbrk" => pgdir'[p] = t /\ new'[p] = new[p]
         /\ job[p].op # "sbrk" => pgdir'[p] = pgdir[p] /\ new'[p] = t
<1>1. pgdir \in [Slots -> SpaceType] /\ new \in [Slots -> SpaceType]
  BY DEF MemInv, MemTyped
<1>2. CASE job[p].op = "sbrk"
  BY <1>1, <1>2 DEF SetSpace, Space
<1>3. CASE job[p].op # "sbrk"
  BY <1>1, <1>3 DEF SetSpace, Space
<1> QED BY <1>2, <1>3

\* A page more in the page table a call works on, and maybe a page table page.
LEMMA Mapping ==
  ASSUME MemInv, NEW p \in Slots, call[p] \in {"grow", "table", "copy", "copytable"},
         NEW t \in SpaceType, SetSpace(p, t), free # {}, Kalloc, DOMAIN mem' = DOMAIN mem,
         InOnce(t),
         \A h \in Nat : Within(t, h) => \/ Within(Space(p), h) \/ h = Min(free)
                                        \/ (h = job[p].page /\ h # 0),
         job' = [job EXCEPT ![p].a = @ + 1, ![p].page = 0],
         call' = [call EXCEPT ![p] = IF call[p] \in {"grow", "table"} THEN "grow" ELSE "copy"],
         UNCHANGED <<kstack, sz, short>>, halted' \in BOOLEAN,
         ~ short => /\ ~ halted' /\ Whole(t) /\ DOMAIN t.map = 0..job[p].a
                    /\ job[p].a < PGROUNDUP(job[p].end) /\ job[p].end < KERNBASE
                    /\ Keeps(Space(p), t) /\ Within(t, Min(free))
                    /\ (job[p].page # 0 => Within(t, job[p].page))
  PROVE  MemInv'
<1>0. PICK y \in Owners : y = SpaceOwner(p)
  BY SpaceOwnerIs
<1>1. /\ job[p] \in JobType /\ job[p].a \in Nat /\ job[p].page \in Nat
      /\ job'[p] \in JobType /\ job'[p].a = job[p].a + 1 /\ job'[p].page = 0
      /\ job'[p].op = job[p].op /\ job'[p].old = job[p].old /\ job'[p].end = job[p].end
      /\ job'[p].child = job[p].child /\ job'[p].prog = job[p].prog /\ job'[p].seg = job[p].seg
      /\ job' \in [Slots -> JobType] /\ \A r \in Slots \ {p} : job'[r] = job[r]
  <2> DEFINE j == job[p]
  <2> DEFINE k == [j EXCEPT !.a = j.a + 1, !.page = 0]
  <2>1. j \in JobType /\ job \in [Slots -> JobType]
    BY DEF MemInv, MemTyped
  <2>2. job' = [job EXCEPT ![p] = k]
    OBVIOUS
  <2> HIDE DEF j
  <2>3. j.a \in Nat /\ j.page \in Nat
    BY <2>1 DEF JobType
  <2>4. /\ k \in JobType /\ k.a = j.a + 1 /\ k.page = 0 /\ k.op = j.op /\ k.old = j.old
        /\ k.end = j.end /\ k.child = j.child /\ k.prog = j.prog /\ k.seg = j.seg
    <3> DEFINE a == j.a + 1
    <3>1. a \in Nat
      BY <2>3
    <3> HIDE DEF a
    <3>2. [j EXCEPT !.a = a, !.page = 0] \in JobType
      BY <2>1, <3>1 DEF JobType
    <3>3. k = [j EXCEPT !.a = a, !.page = 0]
      BY DEF a
    <3>4. k.a = a /\ k.page = 0
      BY <2>1, <3>3 DEF JobType
    <3>5. /\ k.op = j.op /\ k.old = j.old
          /\ k.end = j.end /\ k.child = j.child /\ k.prog = j.prog /\ k.seg = j.seg
      BY <2>1, <3>3 DEF JobType
    <3> QED BY <3>2, <3>3, <3>4, <3>5 DEF a
  <2> HIDE DEF k
  <2>5. job'[p] = k /\ job' \in [Slots -> JobType] /\ \A r \in Slots \ {p} : job'[r] = job[r]
    BY <2>1, <2>2, <2>4, JobsNext
  <2> QED BY <2>1, <2>3, <2>4, <2>5 DEF j
<1>2. /\ Space(p)' = t /\ pgdir' \in [Slots -> SpaceType] /\ new' \in [Slots -> SpaceType]
      /\ \A r \in Slots \ {p} : pgdir'[r] = pgdir[r] /\ new'[r] = new[r]
      /\ job[p].op = "sbrk" => pgdir'[p] = t /\ new'[p] = new[p]
      /\ job[p].op # "sbrk" => pgdir'[p] = pgdir[p] /\ new'[p] = t
  BY <1>1, SetSpaceIs
<1>3. /\ call' \in [Slots -> MemPcs] /\ \A r \in Slots \ {p} : call'[r] = call[r]
      /\ call'[p] = IF call[p] \in {"grow", "table"} THEN "grow" ELSE "copy"
  BY DEF MemInv, MemTyped, MemPcs
<1>4. free' = free \ {Min(free)} /\ Min(free) \in free /\ Min(free) \in Nat
  BY FreeIs DEF Kalloc
<1>5. MemTyped'
  BY <1>1, <1>2, <1>3, <1>4 DEF MemInv, MemTyped
<1>6. \A r \in Slots \ {p} : SameSlot(r)
  BY <1>1, <1>2, <1>3 DEF SameSlot
<1>7. /\ y \in Owners /\ InOnce(Space(p))
      /\ \A g : Owns(y, g) <=> Within(Space(p), g)
      /\ \A g : Owns(y, g)' <=> Within(t, g)
  <2>1. \A g : Owns(y, g)' <=> Within(t, g)
    <3>1. CASE job[p].op = "sbrk"
      <4>1. y = Own(p)
        BY <1>0, <3>1 DEF SpaceOwner
      <4> QED BY <3>1, <4>1, <1>2, OwnsNext
    <3>2. CASE job[p].op # "sbrk"
      <4>1. y = New(p)
        BY <1>0, <3>2 DEF SpaceOwner
      <4> QED BY <3>2, <4>1, <1>2, OwnsNext
    <3> QED BY <3>1, <3>2
  <2> QED BY <2>1, <1>0, SpaceOwnerIs
<1>8. \A g : ~ Owns(Hand(p), g)'
  BY <1>1, OwnsNext
<1>9. ASSUME NEW o \in Owners, NEW g, o # y, o # FreeList, o # Hand(p)
      PROVE  Owns(o, g)' <=> Owns(o, g)
  <2>1. PICK r \in Slots : o = Stack(r) \/ o = Hand(r) \/ o = Own(r) \/ o = New(r)
    BY <1>9, OwnersAre
  <2>2. CASE r # p
    BY <2>1, <2>2, <1>6, OthersOwn
  <2>3. CASE r = p
    <3>1. CASE o = Stack(p)
      BY <3>1, OwnsIs, OwnsNext
    <3>2. CASE o = Own(p) /\ job[p].op # "sbrk"
      <4>1. pgdir'[p] = pgdir[p]
        BY <3>2, <1>2
      <4> QED BY <3>2, <4>1, OwnsIs, OwnsNext
    <3>3. CASE o = New(p) /\ job[p].op = "sbrk"
      <4>1. new'[p] = new[p]
        BY <3>3, <1>2
      <4> QED BY <3>3, <4>1, OwnsIs, OwnsNext
    <3> QED BY <1>0, <1>9, <2>1, <2>3, <3>1, <3>2, <3>3 DEF SpaceOwner
  <2> QED BY <2>2, <2>3
<1>10. /\ \A g : Owns(FreeList, g) <=> g \in free
       /\ \A g : Owns(FreeList, g)' <=> g \in free \ {Min(free)}
       /\ \A g : Owns(Hand(p), g) <=> g = job[p].page /\ g # 0
       /\ FreeList \in Owners /\ Hand(p) \in Owners
  BY <1>4, OwnsIs, OwnsNext, OwnersAre
<1>11. OneOwner' /\ NoneMore'
  <2>1. \A o \in Owners, g \in Nat : o # y /\ Owns(o, g)' => Owns(o, g)
    BY <1>8, <1>9, <1>10
  <2>2. ASSUME NEW g \in Nat, Owns(y, g)', ~ Owns(y, g)
        PROVE  \E x \in Owners : Owns(x, g) /\ ~ Owns(x, g)'
    <3>1. g = Min(free) \/ (g = job[p].page /\ g # 0)
      BY <2>2, <1>7
    <3> QED BY <3>1, <1>4, <1>8, <1>10
  <2> QED BY <2>1, <2>2, <1>7, SlotIs, Transferred
<1>12. ~ short => NoneLost'
  <2> HAVE ~ short
  <2>1. ASSUME NEW o \in Owners, NEW g \in Nat, Owns(o, g)
        PROVE  \E r \in Owners : Owns(r, g)'
    <3>1. CASE o = y
      <4>1. Within(t, g)
        BY <3>1, <2>1, <1>7 DEF Keeps
      <4> QED BY <4>1, <1>7
    <3>2. CASE o = FreeList
      <4>1. CASE g = Min(free)
        BY <4>1, <1>7
      <4>2. CASE g # Min(free)
        <5>1. Owns(FreeList, g)'
          BY <3>2, <4>2, <2>1, <1>10
        <5> QED BY <5>1, <1>10
      <4> QED BY <4>1, <4>2
    <3>3. CASE o = Hand(p)
      <4>1. Within(t, g)
        BY <3>3, <2>1, <1>10
      <4> QED BY <4>1, <1>7
    <3> QED BY <2>1, <1>9, <3>1, <3>2, <3>3
  <2>2. DOMAIN mem \subseteq Nat /\ NoneLost /\ NoneMore
    BY SlotIs DEF PageNos
  <2> QED BY <2>1, <2>2, AllKept
<1>13. LocalOK(p)'
  <2>1. PlaceOK(p)'
    BY <1>1, <1>2, <1>3, SlotIs DEF PlaceOK
  <2>2. ChildOK(p)'
    <3>1. job[p].child # 0 => job[p].child # p /\ job[p].child \in Slots
      BY SlotIs DEF ChildOK
    <3> QED BY <1>1, <1>3, <3>1, SlotIs DEF ChildOK
  <2>3. InOnce(pgdir'[p]) /\ InOnce(new'[p])
    BY <1>2, SlotIs
  <2>4. InOnce(pgdir[p])' /\ InOnce(new[p])'
    BY <2>3 DEF InOnce, In
  <2> QED BY <2>1, <2>2, <2>4 DEF LocalOK
<1>14. ~ short => HereOK(p)'
  <2> HAVE ~ short
  <2>1. Whole(pgdir'[p]) /\ Whole(new'[p])
    BY <1>2, SlotIs
  <2>2. Whole(pgdir[p])' /\ Whole(new[p])'
    BY <2>1 DEF Whole
  <2>3. job[p].a + 1 - 1 = job[p].a /\ job[p].a + 1 <= PGROUNDUP(job[p].end)
        /\ ~ (job[p].end >= KERNBASE)
    BY <1>1, FinishedIs, MemConstants
  <2>4. SizeOK(p)
    BY SlotIs
  <2>5. call[p] \in {"copy", "copytable"} => job[p].op = "fork"
    BY SlotIs DEF PlaceOK
  <2>6. call'[p] = "copy" \/ (call'[p] = "grow" /\ job'[p].op = "exec")
        => DOMAIN pgdir'[p].map = 0..(PGROUNDUP(sz'[p]) - 1)
    BY <2>4, <2>5, <1>1, <1>2, <1>3 DEF SizeOK
  <2>7. job[p].op = "sbrk" => job[p].old = sz[p] /\ PGROUNDUP(job[p].old) <= job[p].a
    BY <2>4 DEF SizeOK
  <2>8. job[p].op = "sbrk" => PGROUNDUP(job[p].old) <= job[p].a + 1
    <3>1. job[p].old \in Nat
      BY <1>1 DEF JobType
    <3>2. PGROUNDUP(job[p].old) \in Nat
      BY <3>1, RoundIs
    <3> QED BY <2>7, <3>2, <1>1
  <2>9. SizeOK(p)'
    BY <2>3, <2>4, <2>6, <2>7, <2>8, <1>1, <1>2, <1>3 DEF SizeOK
  <2> QED BY <2>2, <2>9 DEF HereOK
<1> QED BY <1>1, <1>5, <1>6, <1>11, <1>12, <1>13, <1>14, MemStep
\* A page for which there is no page table yet.
LEMMA Taking ==
  ASSUME MemInv, NEW p \in Slots, call[p] \in {"grow", "copy"}, free # {}, Kalloc,
         DOMAIN mem' = DOMAIN mem, job' = [job EXCEPT ![p].page = Min(free)],
         call' = [call EXCEPT ![p] = IF call[p] = "grow" THEN "table" ELSE "copytable"],
         UNCHANGED <<kstack, sz, pgdir, new, halted, short>>,
         Missing(Space(p), job[p].a), job[p].a * PGSIZE < job[p].end, job[p].end < KERNBASE,
         call[p] = "copy" => job[p].a \in DOMAIN pgdir[p].map
  PROVE  MemInv'
<1>1. free' = free \ {Min(free)} /\ Min(free) \in free /\ Min(free) \in Nat /\ Min(free) # 0
  BY FreeIs DEF Kalloc, PageNos
<1>2. /\ job[p] \in JobType /\ job'[p] \in JobType
      /\ job'[p].page = Min(free) /\ job'[p].a = job[p].a
      /\ job'[p].op = job[p].op /\ job'[p].old = job[p].old /\ job'[p].end = job[p].end
      /\ job'[p].child = job[p].child /\ job'[p].prog = job[p].prog /\ job'[p].seg = job[p].seg
      /\ job' \in [Slots -> JobType] /\ \A r \in Slots \ {p} : job'[r] = job[r]
  <2> DEFINE j == job[p]
  <2> DEFINE g == Min(free)
  <2> DEFINE k == [j EXCEPT !.page = g]
  <2>1. j \in JobType /\ job \in [Slots -> JobType]
    BY DEF MemInv, MemTyped
  <2>2. job' = [job EXCEPT ![p] = k]
    OBVIOUS
  <2>3. g \in Nat
    BY <1>1
  <2> HIDE DEF j, g
  <2>4. k \in JobType
    BY <2>1, <2>3 DEF JobType
  <2>5. /\ k.page = g /\ k.a = j.a /\ k.op = j.op /\ k.old = j.old
        /\ k.end = j.end /\ k.child = j.child /\ k.prog = j.prog /\ k.seg = j.seg
    BY <2>1 DEF JobType
  <2> HIDE DEF k
  <2>6. job'[p] = k /\ job' \in [Slots -> JobType] /\ \A r \in Slots \ {p} : job'[r] = job[r]
    BY <2>1, <2>2, <2>4, JobsNext
  <2> QED BY <2>1, <2>4, <2>5, <2>6 DEF j, g
<1>3. /\ call' \in [Slots -> MemPcs] /\ \A r \in Slots \ {p} : call'[r] = call[r]
      /\ call'[p] = IF call[p] = "grow" THEN "table" ELSE "copytable"
  BY DEF MemInv, MemTyped, MemPcs
<1>4. MemTyped'
  BY <1>1, <1>2, <1>3 DEF MemInv, MemTyped
<1>5. \A r \in Slots \ {p} : SameSlot(r)
  BY <1>2, <1>3 DEF SameSlot
<1>6. job[p].page = 0
  BY SlotIs DEF PlaceOK
<1>7. /\ \A g : Owns(FreeList, g) <=> g \in free
      /\ \A g : Owns(FreeList, g)' <=> g \in free \ {Min(free)}
      /\ \A g : ~ Owns(Hand(p), g)
      /\ \A g : Owns(Hand(p), g)' <=> g = Min(free)
      /\ FreeList \in Owners /\ Hand(p) \in Owners
  BY <1>1, <1>2, <1>6, OwnsIs, OwnsNext, OwnersAre
<1>8. ASSUME NEW o \in Owners, NEW g, o # FreeList, o # Hand(p)
      PROVE  Owns(o, g)' <=> Owns(o, g)
  <2>1. PICK r \in Slots : o = Stack(r) \/ o = Hand(r) \/ o = Own(r) \/ o = New(r)
    BY <1>8, OwnersAre
  <2>2. CASE r # p
    BY <2>1, <2>2, <1>5, OthersOwn
  <2>3. CASE r = p
    <3>1. pgdir'[p] = pgdir[p] /\ new'[p] = new[p] /\ kstack'[p] = kstack[p]
      OBVIOUS
    <3> QED BY <1>8, <2>1, <2>3, <3>1, OwnsIs, OwnsNext
  <2> QED BY <2>2, <2>3
<1>9. OneOwner' /\ NoneMore'
  <2>1. \A o \in Owners, g \in Nat : o # Hand(p) /\ Owns(o, g)' => Owns(o, g)
    BY <1>7, <1>8
  <2>2. \A g \in Nat : Owns(Hand(p), g)' => \E x \in Owners : Owns(x, g) /\ ~ Owns(x, g)'
    BY <1>1, <1>7
  <2> QED BY <2>1, <2>2, <1>7, SlotIs, Transferred
<1>10. ~ short => NoneLost'
  <2> HAVE ~ short
  <2>1. ASSUME NEW o \in Owners, NEW g \in Nat, Owns(o, g)
        PROVE  \E r \in Owners : Owns(r, g)'
    <3>1. CASE o = FreeList
      <4>1. Owns(FreeList, g)' \/ Owns(Hand(p), g)'
        BY <2>1, <3>1, <1>7
      <4> QED BY <4>1, <1>7
    <3>2. CASE o # FreeList
      <4>1. o # Hand(p)
        BY <2>1, <1>7
      <4> QED BY <2>1, <3>2, <4>1, <1>8
    <3> QED BY <3>1, <3>2
  <2>2. DOMAIN mem \subseteq Nat /\ NoneLost /\ NoneMore
    BY SlotIs DEF PageNos
  <2> QED BY <2>1, <2>2, AllKept
<1>11. Space(p)' = Space(p)
  BY <1>2 DEF Space
<1>12. LocalOK(p)'
  <2>1. PlaceOK(p)'
    <3>1. Missing(Space(p), job[p].a)'
      BY <1>2, <1>11 DEF Missing
    <3> QED BY <1>1, <1>2, <1>3, <3>1, SlotIs DEF PlaceOK
  <2>2. ChildOK(p)'
    <3>1. job[p].child # 0 => job[p].child # p /\ job[p].child \in Slots
      BY SlotIs DEF ChildOK
    <3> QED BY <1>2, <1>3, <3>1, SlotIs DEF ChildOK
  <2>3. InOnce(pgdir[p]) /\ InOnce(new[p]) /\ pgdir'[p] = pgdir[p] /\ new'[p] = new[p]
    BY SlotIs
  <2>4. InOnce(pgdir[p])' /\ InOnce(new[p])'
    BY <2>3 DEF InOnce, In
  <2> QED BY <2>1, <2>2, <2>4 DEF LocalOK
<1>13. ~ short => HereOK(p)'
  <2> HAVE ~ short
  <2>1. Whole(pgdir[p]) /\ Whole(new[p]) /\ SizeOK(p)
    BY SlotIs
  <2>2. Whole(pgdir[p])' /\ Whole(new[p])'
    BY <2>1 DEF Whole
  <2>3. job[p].a \in Nat /\ job[p].end \in Nat /\ job[p].a < PGROUNDUP(job[p].end)
        /\ PGROUNDUP(job[p].end) \in Nat
    BY FinishedIs, RoundIs
  <2>4. SizeOK(p)'
    BY <2>1, <2>3, <1>2, <1>3, <1>11 DEF SizeOK
  <2> QED BY <2>2, <2>4 DEF HereOK
<1> QED BY <1>2, <1>4, <1>5, <1>9, <1>10, <1>12, <1>13, SlotIs, MemStep

\* A step after which pages may be missing.
LEMMA Shorter ==
  ASSUME MemInv, NEW p \in Slots, GrowTable(p), free = {}
  PROVE  MemInv'
<1>1. /\ call[p] = "table" /\ call' = [call EXCEPT ![p] = "grow"] /\ short' = TRUE
      /\ job' = [job EXCEPT ![p].a = @ + 1, ![p].page = 0]
      /\ UNCHANGED <<free, mem, pgdir, new, halted, kstack, sz>>
  BY DEF GrowTable, At, GoTo
<1>2. /\ job[p] \in JobType /\ job'[p] \in JobType /\ job'[p].page = 0
      /\ job'[p].op = job[p].op /\ job'[p].end = job[p].end
      /\ job'[p].child = job[p].child /\ job'[p].prog = job[p].prog /\ job'[p].seg = job[p].seg
      /\ job' \in [Slots -> JobType] /\ \A r \in Slots \ {p} : job'[r] = job[r]
  <2> DEFINE j == job[p]
  <2> DEFINE a == j.a + 1
  <2> DEFINE k == [j EXCEPT !.a = a, !.page = 0]
  <2>1. j \in JobType /\ job \in [Slots -> JobType]
    BY DEF MemInv, MemTyped
  <2>2. job' = [job EXCEPT ![p] = k]
    BY <1>1
  <2> HIDE DEF j
  <2>3. a \in Nat
    BY <2>1 DEF JobType
  <2> HIDE DEF a
  <2>4. k \in JobType
    BY <2>1, <2>3 DEF JobType
  <2>5. /\ k.page = 0 /\ k.op = j.op
        /\ k.end = j.end /\ k.child = j.child /\ k.prog = j.prog /\ k.seg = j.seg
    BY <2>1 DEF JobType
  <2> HIDE DEF k
  <2>6. job'[p] = k /\ job' \in [Slots -> JobType] /\ \A r \in Slots \ {p} : job'[r] = job[r]
    BY <2>1, <2>2, <2>4, JobsNext
  <2> QED BY <2>1, <2>4, <2>5, <2>6 DEF j
<1>3. /\ call' \in [Slots -> MemPcs] /\ \A r \in Slots \ {p} : call'[r] = call[r]
      /\ call'[p] = "grow"
  BY <1>1 DEF MemInv, MemTyped, MemPcs
<1>4. MemTyped'
  BY <1>1, <1>2, <1>3 DEF MemInv, MemTyped
<1>5. \A r \in Slots \ {p} : SameSlot(r)
  BY <1>1, <1>2, <1>3 DEF SameSlot
<1>6. ASSUME NEW o \in Owners, NEW g, Owns(o, g)'
      PROVE  Owns(o, g)
  <2>1. CASE o = FreeList
    BY <2>1, <1>1, <1>6, OwnsIs, OwnsNext
  <2>2. ASSUME NEW r \in Slots, o = Stack(r) \/ o = Hand(r) \/ o = Own(r) \/ o = New(r)
        PROVE  Owns(o, g)
    <3>1. CASE r # p
      BY <2>2, <3>1, <1>5, <1>6, OthersOwn
    <3>2. CASE r = p
      <4>1. pgdir'[p] = pgdir[p] /\ new'[p] = new[p] /\ kstack'[p] = kstack[p]
        BY <1>1
      <4> QED BY <2>2, <3>2, <4>1, <1>2, <1>6, OwnsIs, OwnsNext
    <3> QED BY <3>1, <3>2
  <2> QED BY <2>1, <2>2, OwnersAre
<1>7. OneOwner' /\ NoneMore'
  <2>1. FreeList \in Owners /\ DOMAIN mem' = DOMAIN mem
    BY <1>1, OwnersAre
  <2> QED BY <2>1, <1>6, SlotIs, Transferred
<1>8. LocalOK(p)'
  <2>1. PlaceOK(p)'
    BY <1>1, <1>2, <1>3, SlotIs DEF PlaceOK
  <2>2. ChildOK(p)'
    <3>1. job[p].child # 0 => job[p].child # p /\ job[p].child \in Slots
      BY <1>1, SlotIs DEF ChildOK
    <3> QED BY <1>2, <1>3, <3>1, SlotIs DEF ChildOK
  <2>3. InOnce(pgdir[p]) /\ InOnce(new[p]) /\ pgdir'[p] = pgdir[p] /\ new'[p] = new[p]
    BY <1>1, SlotIs
  <2>4. InOnce(pgdir[p])' /\ InOnce(new[p])'
    BY <2>3 DEF InOnce, In
  <2> QED BY <2>1, <2>2, <2>4 DEF LocalOK
<1> QED BY <1>1, <1>2, <1>4, <1>5, <1>7, <1>8, MemStep
\* The end of a call without success.  S are the pages it gives back, t is what the process
\* then has.
LEMMA FailKeeps ==
  ASSUME MemInv, NEW p \in Slots, call[p] \in {"setup", "grow", "copy", "copytable"},
         NEW S, NEW t \in SpaceType, Fail(p, S), pgdir' = [pgdir EXCEPT ![p] = t],
         UNCHANGED <<sz, halted>>, short' \in BOOLEAN, short => short', InOnce(t),
         \A h \in Nat : Within(t, h) => Within(pgdir[p], h),
         \A h \in S : h \in Nat /\ (Within(new[p], h) \/ (Within(pgdir[p], h) /\ ~ Within(t, h))),
         ~ short' => /\ Whole(t) /\ DOMAIN t.map = 0..(PGROUNDUP(sz[p]) - 1)
                     /\ job[p].page = 0
                     /\ \A h \in Nat : Within(new[p], h) => h \in S
                     /\ \A h \in Nat : Within(pgdir[p], h) => Within(t, h) \/ h \in S
  PROVE  MemInv'
<1>0. PICK q \in Nat : q = job[p].child
  BY SlotIs DEF JobType
<1>1. q # 0 => q \in Slots /\ call[q] = "embryo" /\ q # p
  BY <1>0, SlotIs DEF ChildOK
<1>2. /\ free' = free \cup (S \cup IF q = 0 THEN {} ELSE {kstack[q]})
      /\ DOMAIN mem' = DOMAIN mem
      /\ kstack' = [r \in Slots |-> IF r = q THEN 0 ELSE kstack[r]]
      /\ call' = [r \in Slots |-> IF r = p THEN "user" ELSE IF r = q THEN "unused" ELSE call[r]]
      /\ new' = [new EXCEPT ![p] = NoSpace]
      /\ job' = [job EXCEPT ![p] = NoJob]
  BY <1>0 DEF Fail, Kfree
<1>3. q # 0 => kstack[q] \in Nat /\ kstack[q] # 0 /\ pgdir[q] = NoSpace /\ new[q] = NoSpace
               /\ job[q] = NoJob
  BY <1>1, SlotIs DEF PlaceOK
<1>4. /\ pgdir \in [Slots -> SpaceType] /\ new \in [Slots -> SpaceType]
      /\ job \in [Slots -> JobType] /\ call \in [Slots -> MemPcs] /\ kstack \in [Slots -> Nat]
  BY DEF MemInv, MemTyped
<1>5. /\ new'[p] = NoSpace /\ job'[p] = NoJob /\ call'[p] = "user" /\ kstack'[p] = kstack[p]
      /\ pgdir'[p] = t
  <2>1. p # q
    BY <1>1, MemConstants
  <2> QED BY <1>2, <1>4, <2>1
<1>6. /\ q # 0 => /\ new'[q] = NoSpace /\ job'[q] = NoJob /\ call'[q] = "unused"
                  /\ kstack'[q] = 0 /\ pgdir'[q] = NoSpace
      /\ \A r \in Slots \ {p, q} : SameSlot(r)
  BY <1>1, <1>2, <1>3, <1>4 DEF SameSlot
<1>7. /\ \A g : Owns(FreeList, g) <=> g \in free
      /\ \A g : Owns(FreeList, g)' <=> g \in free \/ g \in S \/ (q # 0 /\ g = kstack[q])
      /\ FreeList \in Owners
      /\ Stack(p) \in Owners /\ Hand(p) \in Owners /\ Own(p) \in Owners /\ New(p) \in Owners
      /\ q # 0 => Stack(q) \in Owners
  BY <1>1, <1>2, OwnsIs, OwnsNext, OwnersAre
<1>8. /\ \A g : Owns(Own(p), g) <=> Within(pgdir[p], g)
      /\ \A g : Owns(New(p), g) <=> Within(new[p], g)
      /\ \A g : Owns(Own(p), g)' <=> Within(t, g)
      /\ \A g : ~ Owns(New(p), g)'
      /\ \A g : ~ Owns(Hand(p), g)'
      /\ \A g : Owns(Hand(p), g) <=> g = job[p].page /\ g # 0
      /\ \A g : Owns(Stack(p), g) <=> Owns(Stack(p), g)'
  <2>1. \A g : ~ Within(NoSpace, g)
    BY NoSpaceIs DEF Within
  <2> QED BY <1>5, <2>1, NoJobIs, OwnsIs, OwnsNext
<1>9. ASSUME q # 0
      PROVE  /\ \A g : Owns(Stack(q), g) <=> g = kstack[q]
             /\ \A g : ~ Owns(Stack(q), g)'
             /\ \A g : ~ Owns(Hand(q), g) /\ ~ Owns(Hand(q), g)'
             /\ \A g : ~ Owns(Own(q), g) /\ ~ Owns(Own(q), g)'
             /\ \A g : ~ Owns(New(q), g) /\ ~ Owns(New(q), g)'
  <2>1. \A g : ~ Within(NoSpace, g)
    BY NoSpaceIs DEF Within
  <2> QED BY <1>3, <1>6, <1>9, <2>1, NoJobIs, OwnsIs, OwnsNext
<1>10. ASSUME NEW o \in Owners, NEW g,
              o # FreeList, o # Hand(p), o # Own(p), o # New(p), q # 0 => o # Stack(q)
       PROVE  Owns(o, g)' <=> Owns(o, g)
  <2>1. PICK r \in Slots : o = Stack(r) \/ o = Hand(r) \/ o = Own(r) \/ o = New(r)
    BY <1>10, OwnersAre
  <2>2. CASE r # p /\ r # q
    BY <2>1, <2>2, <1>6, OthersOwn
  <2>3. CASE r = p
    BY <1>10, <2>1, <2>3, <1>8
  <2>4. CASE r = q
    <3>1. q # 0
      BY <2>4, MemConstants
    <3> QED BY <1>10, <2>1, <2>4, <3>1, <1>9
  <2> QED BY <2>2, <2>3, <2>4
<1>11. OneOwner' /\ NoneMore'
  <2>1. ASSUME NEW o \in Owners, NEW g \in Nat, o # FreeList, Owns(o, g)'
        PROVE  Owns(o, g)
    <3>1. o # Hand(p) /\ o # New(p) /\ (q # 0 => o # Stack(q))
      BY <2>1, <1>8, <1>9
    <3> QED BY <2>1, <3>1, <1>8, <1>10
  <2>2. ASSUME NEW g \in Nat, Owns(FreeList, g)', ~ Owns(FreeList, g)
        PROVE  \E x \in Owners : Owns(x, g) /\ ~ Owns(x, g)'
    <3>1. g \in S \/ (q # 0 /\ g = kstack[q])
      BY <2>2, <1>7
    <3>2. CASE g \in S
      BY <3>2, <1>7, <1>8
    <3>3. CASE q # 0 /\ g = kstack[q]
      BY <3>3, <1>7, <1>9
    <3> QED BY <3>1, <3>2, <3>3
  <2> QED BY <2>1, <2>2, <1>2, <1>7, SlotIs, Transferred
<1>12. ~ short' => NoneLost'
  <2> HAVE ~ short'
  <2>1. ASSUME NEW o \in Owners, NEW g \in Nat, Owns(o, g)
        PROVE  \E r \in Owners : Owns(r, g)'
    <3>1. CASE o = FreeList \/ o = Own(p) \/ o = New(p) \/ (q # 0 /\ o = Stack(q))
      <4>1. Owns(FreeList, g)' \/ Owns(Own(p), g)'
        <5>1. CASE o = FreeList
          BY <2>1, <5>1, <1>7
        <5>2. CASE o = Own(p)
          <6>1. Within(t, g) \/ g \in S
            BY <2>1, <5>2, <1>8
          <6> QED BY <6>1, <1>7, <1>8
        <5>3. CASE o = New(p)
          <6>1. g \in S
            BY <2>1, <5>3, <1>8
          <6> QED BY <6>1, <1>7
        <5>4. CASE q # 0 /\ o = Stack(q)
          BY <2>1, <5>4, <1>7, <1>9
        <5> QED BY <3>1, <5>1, <5>2, <5>3, <5>4
      <4> QED BY <4>1, <1>7
    <3>2. CASE ~ (o = FreeList \/ o = Own(p) \/ o = New(p) \/ (q # 0 /\ o = Stack(q)))
      <4>1. o # Hand(p)
        BY <2>1, <1>8
      <4> QED BY <2>1, <3>2, <4>1, <1>10
    <3> QED BY <3>1, <3>2
  <2>2. DOMAIN mem \subseteq Nat /\ NoneLost /\ NoneMore
    BY SlotIs DEF PageNos
  <2> QED BY <2>1, <2>2, <1>2, AllKept
<1>13. MemTyped'
  <2>1. free' \subseteq DOMAIN mem'
    <3> SUFFICES ASSUME NEW g \in free'
                 PROVE  g \in DOMAIN mem
      BY <1>2
    <3>1. CASE g \in free
      BY <3>1, SlotIs
    <3>2. CASE g \in S
      <4>1. g \in Nat /\ (Owns(New(p), g) \/ Owns(Own(p), g))
        BY <3>2, <1>8
      <4> QED BY <4>1, <1>7, SlotIs DEF NoneMore
    <3>3. CASE q # 0 /\ g = kstack[q]
      <4>1. g \in Nat /\ Owns(Stack(q), g)
        BY <3>3, <1>3, <1>9
      <4> QED BY <3>3, <4>1, <1>7, SlotIs DEF NoneMore
    <3> QED BY <1>2, <3>1, <3>2, <3>3
  <2>2. kstack' \in [Slots -> Nat] /\ call' \in [Slots -> MemPcs]
    BY <1>2, <1>4 DEF MemPcs
  <2>3. /\ new' \in [Slots -> SpaceType] /\ job' \in [Slots -> JobType]
        /\ pgdir' \in [Slots -> SpaceType]
    BY <1>2, <1>4, NoSpaceIs, NoJobIs
  <2> QED BY <1>2, <2>1, <2>2, <2>3 DEF MemInv, MemTyped
<1>14. InOnce(NoSpace) /\ Whole(NoSpace)
  <2>1. DOMAIN NoSpace.tabs = {} /\ DOMAIN NoSpace.map = {}
    BY NoSpaceIs DEF NoSpace
  <2> QED BY <2>1, NoSpaceIs DEF InOnce, Whole
<1>15. LocalOK(p)'
  <2>1. PlaceOK(p)'
    BY <1>5, NoJobIs, SlotIs DEF PlaceOK
  <2>2. ChildOK(p)'
    BY <1>5, NoJobIs DEF ChildOK
  <2>3. InOnce(pgdir'[p]) /\ InOnce(new'[p])
    BY <1>5, <1>14
  <2>4. InOnce(pgdir[p])' /\ InOnce(new[p])'
    BY <2>3 DEF InOnce, In
  <2> QED BY <2>1, <2>2, <2>4 DEF LocalOK
<1>16. q # 0 => LocalOK(q)'
  <2> HAVE q # 0
  <2>1. PlaceOK(q)'
    BY <1>6, NoJobIs DEF PlaceOK
  <2>2. ChildOK(q)'
    BY <1>6, NoJobIs DEF ChildOK
  <2>3. InOnce(pgdir'[q]) /\ InOnce(new'[q])
    BY <1>6, <1>14
  <2>4. InOnce(pgdir[q])' /\ InOnce(new[q])'
    BY <2>3 DEF InOnce, In
  <2> QED BY <2>1, <2>2, <2>4 DEF LocalOK
<1>17. ~ short' => HereOK(p)'
  <2> HAVE ~ short'
  <2>1. Whole(pgdir'[p]) /\ Whole(new'[p])
    BY <1>5, <1>14
  <2>2. Whole(pgdir[p])' /\ Whole(new[p])'
    BY <2>1 DEF Whole
  <2>3. SizeOK(p)'
    BY <1>5, NoJobIs DEF SizeOK
  <2> QED BY <2>2, <2>3 DEF HereOK
<1>18. ~ short' /\ q # 0 => HereOK(q)'
  <2> HAVE ~ short' /\ q # 0
  <2>1. Whole(pgdir'[q]) /\ Whole(new'[q])
    BY <1>6, <1>14
  <2>2. Whole(pgdir[q])' /\ Whole(new[q])'
    BY <2>1 DEF Whole
  <2>3. SizeOK(q)'
    BY <1>6, NoJobIs DEF SizeOK
  <2> QED BY <2>2, <2>3 DEF HereOK
<1>19. ~ short' => ~ halted'
  BY SlotIs
<1>20. CASE q = 0
  <2>1. \A r \in Slots \ {p} : SameSlot(r)
    BY <1>6, <1>20, MemConstants
  <2>2. job'[p].child = 0
    BY <1>5, NoJobIs
  <2> QED BY <2>1, <2>2, <1>11, <1>12, <1>13, <1>15, <1>17, <1>19, MemStep
<1>21. CASE q # 0
  <2>1. q \in Slots /\ q = job[p].child /\ job'[q].child = 0 /\ job'[p].child = 0
    BY <1>0, <1>1, <1>5, <1>6, <1>21, NoJobIs
  <2> QED BY <2>1, <1>6, <1>11, <1>12, <1>13, <1>15, <1>16, <1>17, <1>18, <1>19, <1>21, MemStep
<1> QED BY <1>20, <1>21
\* Who may own other pages after a step of p than before.
Few(p, q) ==
  {FreeList, Stack(p), Hand(p), Own(p), New(p), Stack(q), Hand(q), Own(q), New(q)}

LEMMA FewMove ==
  ASSUME MemInv, NEW p \in Slots, NEW q \in Slots, \A r \in Slots \ {p, q} : SameSlot(r),
         DOMAIN mem' = DOMAIN mem, short => short', NEW y \in Owners,
         \A o \in Few(p, q), g \in Nat : o # y /\ Owns(o, g)' => Owns(o, g),
         \A g \in Nat : Owns(y, g)' => \/ Owns(y, g)
                                       \/ \E x \in Owners : Owns(x, g) /\ ~ Owns(x, g)',
         ~ short' => \A o \in Few(p, q), g \in Nat : Owns(o, g) => \E r \in Owners : Owns(r, g)'
  PROVE  OneOwner' /\ NoneMore' /\ (~ short' => NoneLost')
<1>1. ASSUME NEW o \in Owners, NEW g, o \notin Few(p, q)
      PROVE  Owns(o, g)' <=> Owns(o, g)
  <2>1. PICK r \in Slots : o = Stack(r) \/ o = Hand(r) \/ o = Own(r) \/ o = New(r)
    BY <1>1, OwnersAre DEF Few
  <2>2. r # p /\ r # q
    BY <1>1, <2>1 DEF Few
  <2> QED BY <2>1, <2>2, OthersOwn
<1>2. OneOwner' /\ NoneMore'
  <2>1. \A o \in Owners, g \in Nat : o # y /\ Owns(o, g)' => Owns(o, g)
    BY <1>1
  <2> QED BY <2>1, SlotIs, Transferred
<1>3. ASSUME ~ short'
      PROVE  NoneLost'
  <2>1. \A o \in Owners, g \in Nat : Owns(o, g) => \E r \in Owners : Owns(r, g)'
    BY <1>1, <1>3
  <2>2. DOMAIN mem \subseteq Nat /\ NoneLost /\ NoneMore
    BY <1>3, SlotIs DEF PageNos
  <2> QED BY <2>1, <2>2, AllKept
<1> QED BY <1>2, <1>3

LEMMA NoSpaceWhole == InOnce(NoSpace) /\ Whole(NoSpace) /\ \A g : ~ Within(NoSpace, g)
<1>1. DOMAIN NoSpace.tabs = {} /\ DOMAIN NoSpace.map = {}
  BY NoSpaceIs DEF NoSpace
<1> QED BY <1>1, NoSpaceIs DEF InOnce, Whole, Within

LEMMA ReapKeeps ==
  ASSUME MemInv, NEW p \in Slots, Reap(p)
  PROVE  MemInv'
<1>1. /\ call[p] = "zombie" /\ ~ halted
      /\ free' = free \cup (All(pgdir[p]) \cup {kstack[p]}) /\ DOMAIN mem' = DOMAIN mem
      /\ kstack' = [kstack EXCEPT ![p] = 0] /\ pgdir' = [pgdir EXCEPT ![p] = NoSpace]
      /\ call' = [call EXCEPT ![p] = "unused"] /\ UNCHANGED <<sz, new, job, short, halted>>
  BY DEF Reap, At, GoTo, Kfree
<1>2. /\ pgdir \in [Slots -> SpaceType] /\ call \in [Slots -> MemPcs] /\ kstack \in [Slots -> Nat]
      /\ pgdir[p] \in SpaceType
  BY DEF MemInv, MemTyped
<1>3. /\ new'[p] = NoSpace /\ job'[p] = NoJob /\ call'[p] = "unused" /\ kstack'[p] = 0
      /\ pgdir'[p] = NoSpace /\ new[p] = NoSpace /\ job[p] = NoJob
  BY <1>1, <1>2, UserIs
<1>4. \A r \in Slots \ {p} : SameSlot(r)
  BY <1>1, <1>2 DEF SameSlot
<1>5. kstack[p] \in Nat /\ kstack[p] # 0
  BY <1>1, SlotIs DEF PlaceOK
<1>6. /\ \A g : Owns(FreeList, g) <=> g \in free
      /\ \A g : Owns(FreeList, g)' <=> g \in free \/ g \in All(pgdir[p]) \/ g = kstack[p]
      /\ FreeList \in Owners
      /\ Stack(p) \in Owners /\ Own(p) \in Owners
  BY <1>1, OwnsIs, OwnsNext, OwnersAre
<1>7. /\ \A g : Owns(Own(p), g) <=> Within(pgdir[p], g)
      /\ \A g : Owns(Stack(p), g) <=> g = kstack[p]
      /\ \A g : ~ Owns(Own(p), g)' /\ ~ Owns(Stack(p), g)'
      /\ \A g : ~ Owns(New(p), g)' /\ ~ Owns(New(p), g)
      /\ \A g : ~ Owns(Hand(p), g)' /\ ~ Owns(Hand(p), g)
  BY <1>3, <1>5, NoJobIs, NoSpaceWhole, OwnsIs, OwnsNext
<1>8. OneOwner' /\ NoneMore' /\ (~ short' => NoneLost')
  <2>1. \A o \in Few(p, p), g \in Nat : o # FreeList /\ Owns(o, g)' => Owns(o, g)
    BY <1>7 DEF Few
  <2>2. ASSUME NEW g \in Nat, Owns(FreeList, g)', ~ Owns(FreeList, g)
        PROVE  \E x \in Owners : Owns(x, g) /\ ~ Owns(x, g)'
    <3>1. CASE g \in All(pgdir[p])
      <4>1. Within(pgdir[p], g)
        BY <1>2, <3>1, AllIs
      <4> QED BY <4>1, <1>6, <1>7
    <3>2. CASE g = kstack[p]
      BY <3>2, <1>6, <1>7
    <3> QED BY <2>2, <3>1, <3>2, <1>6
  <2>3. ASSUME ~ short', NEW o \in Few(p, p), NEW g \in Nat, Owns(o, g)
        PROVE  \E r \in Owners : Owns(r, g)'
    <3>1. CASE o = Own(p)
      <4>1. Whole(pgdir[p]) /\ Within(pgdir[p], g)
        BY <2>3, <3>1, <1>1, <1>7, SlotIs
      <4>2. g \in All(pgdir[p])
        BY <4>1, <1>2, AllIs
      <4> QED BY <4>2, <1>6
    <3>2. CASE o # Own(p)
      <4>1. o = FreeList \/ o = Stack(p)
        BY <2>3, <3>2, <1>7 DEF Few
      <4> QED BY <2>3, <4>1, <1>6, <1>7
    <3> QED BY <3>1, <3>2
  <2> QED BY <2>1, <2>2, <2>3, <1>1, <1>4, <1>6, FewMove
<1>9. MemTyped'
  <2>1. free' \subseteq DOMAIN mem
    <3> SUFFICES ASSUME NEW g \in free'
                 PROVE  g \in DOMAIN mem
      OBVIOUS
    <3>1. CASE g \in free
      BY <3>1, SlotIs
    <3>2. CASE g \in All(pgdir[p])
      <4>1. g \in Nat /\ Owns(Own(p), g)
        BY <3>2, <1>2, <1>7, AllIs
      <4> QED BY <4>1, <1>6, SlotIs DEF NoneMore
    <3>3. CASE g = kstack[p]
      <4>1. g \in Nat /\ Owns(Stack(p), g)
        BY <3>3, <1>5, <1>7
      <4> QED BY <4>1, <1>6, SlotIs DEF NoneMore
    <3> QED BY <1>1, <3>1, <3>2, <3>3
  <2>2. /\ pgdir' \in [Slots -> SpaceType] /\ call' \in [Slots -> MemPcs]
        /\ kstack' \in [Slots -> Nat]
    BY <1>1, <1>2, NoSpaceIs DEF MemPcs
  <2> QED BY <1>1, <2>1, <2>2 DEF MemInv, MemTyped
<1>10. LocalOK(p)'
  <2>1. PlaceOK(p)'
    BY <1>3, NoJobIs DEF PlaceOK
  <2>2. ChildOK(p)'
    BY <1>3, NoJobIs DEF ChildOK
  <2>3. InOnce(pgdir[p])' /\ InOnce(new[p])'
    BY <1>3, NoSpaceWhole, SpacesNext
  <2> QED BY <2>1, <2>2, <2>3 DEF LocalOK
<1>11. HereOK(p)'
  <2>1. Whole(pgdir[p])' /\ Whole(new[p])'
    BY <1>3, NoSpaceWhole, SpacesNext
  <2>2. SizeOK(p)'
    BY <1>3, NoJobIs DEF SizeOK
  <2> QED BY <2>1, <2>2 DEF HereOK
<1>12. job'[p].child = 0
  BY <1>3, NoJobIs
<1> QED BY <1>1, <1>4, <1>8, <1>9, <1>10, <1>11, <1>12, MemStep

LEMMA ForkKeeps ==
  ASSUME MemInv, NEW p \in Slots, NEW q \in Slots, Fork(p, q)
  PROVE  MemInv'
<1> DEFINE j == [NoJob EXCEPT !.op = "fork", !.child = q, !.end = sz[p]]
<1>1. /\ call[p] = "user" /\ ~ halted /\ call[q] = "unused" /\ free # {}
      /\ free' = free \ {Min(free)} /\ DOMAIN mem' = DOMAIN mem
      /\ kstack' = [kstack EXCEPT ![q] = Min(free)]
      /\ call' = [call EXCEPT ![p] = "setup", ![q] = "embryo"]
      /\ job' = [job EXCEPT ![p] = j]
      /\ UNCHANGED <<pgdir, sz, new, short, halted>>
  BY DEF Fork, At, Kalloc, Got
<1>2. sz[p] \in Nat /\ q \in Nat /\ q # 0
  BY SlotIs, MemConstants
<1>3. /\ j \in JobType /\ j.op = "fork" /\ j.child = q /\ j.end = sz[p] /\ j.a = 0 /\ j.page = 0
  BY <1>2, NoJobIs DEF JobType, NoJob, ProgType, Ops
<1> HIDE DEF j
<1>4. /\ call \in [Slots -> MemPcs] /\ kstack \in [Slots -> Nat] /\ job \in [Slots -> JobType]
      /\ p # q
  BY <1>1 DEF MemInv, MemTyped
<1>5. Min(free) \in free /\ Min(free) \in Nat /\ Min(free) # 0
  BY <1>1, FreeIs DEF PageNos
<1>6. /\ new[p] = NoSpace /\ job[p] = NoJob /\ pgdir[q] = NoSpace /\ new[q] = NoSpace
      /\ job[q] = NoJob /\ kstack[q] = 0 /\ kstack[p] # 0
  BY <1>1, SlotIs DEF PlaceOK
<1>7. /\ new'[p] = NoSpace /\ job'[p] = j /\ call'[p] = "setup" /\ kstack'[p] = kstack[p]
      /\ pgdir'[p] = pgdir[p] /\ sz'[p] = sz[p]
      /\ new'[q] = NoSpace /\ job'[q] = NoJob /\ call'[q] = "embryo" /\ kstack'[q] = Min(free)
      /\ pgdir'[q] = NoSpace
  BY <1>1, <1>4, <1>6
<1>8. \A r \in Slots \ {p, q} : SameSlot(r)
  BY <1>1, <1>4 DEF SameSlot
<1>9. /\ \A g : Owns(FreeList, g) <=> g \in free
      /\ \A g : Owns(FreeList, g)' <=> g \in free \ {Min(free)}
      /\ \A g : ~ Owns(Stack(q), g)
      /\ \A g : Owns(Stack(q), g)' <=> g = Min(free)
      /\ FreeList \in Owners /\ Stack(q) \in Owners
  BY <1>1, <1>5, <1>6, <1>7, OwnsIs, OwnsNext, OwnersAre
<1>10. /\ \A g : Owns(Stack(p), g)' <=> Owns(Stack(p), g)
       /\ \A g : Owns(Own(p), g)' <=> Owns(Own(p), g)
       /\ \A g : ~ Owns(New(p), g)' /\ ~ Owns(New(p), g)
       /\ \A g : ~ Owns(Hand(p), g)' /\ ~ Owns(Hand(p), g)
       /\ \A g : ~ Owns(Own(q), g)' /\ ~ Owns(Own(q), g)
       /\ \A g : ~ Owns(New(q), g)' /\ ~ Owns(New(q), g)
       /\ \A g : ~ Owns(Hand(q), g)' /\ ~ Owns(Hand(q), g)
  BY <1>3, <1>6, <1>7, NoJobIs, NoSpaceWhole, OwnsIs, OwnsNext
<1>11. OneOwner' /\ NoneMore' /\ (~ short' => NoneLost')
  <2>1. \A o \in Few(p, q), g \in Nat : o # Stack(q) /\ Owns(o, g)' => Owns(o, g)
    BY <1>9, <1>10 DEF Few
  <2>2. \A g \in Nat : Owns(Stack(q), g)' => \E x \in Owners : Owns(x, g) /\ ~ Owns(x, g)'
    BY <1>5, <1>9
  <2>3. ASSUME NEW o \in Few(p, q), NEW g \in Nat, Owns(o, g)
        PROVE  \E r \in Owners : Owns(r, g)'
    <3>1. CASE o = FreeList
      <4>1. Owns(FreeList, g)' \/ Owns(Stack(q), g)'
        BY <2>3, <3>1, <1>9
      <4> QED BY <4>1, <1>9
    <3>2. CASE o # FreeList
      <4>1. o = Stack(p) \/ o = Own(p)
        BY <2>3, <3>2, <1>9, <1>10 DEF Few
      <4>2. Owns(o, g)'
        BY <2>3, <4>1, <1>10
      <4> QED BY <4>1, <4>2, OwnersAre
    <3> QED BY <3>1, <3>2
  <2> QED BY <2>1, <2>2, <2>3, <1>1, <1>8, <1>9, FewMove
<1>12. MemTyped'
  <2>1. /\ call' \in [Slots -> MemPcs] /\ kstack' \in [Slots -> Nat] /\ job' \in [Slots -> JobType]
    BY <1>1, <1>3, <1>4, <1>5 DEF MemPcs
  <2> QED BY <1>1, <2>1 DEF MemInv, MemTyped
<1>13. LocalOK(p)'
  <2>1. PlaceOK(p)'
    <3>1. NoSpace.tabs = NoMap /\ NoSpace.map = NoMap /\ NoSpace.ktabs = {}
      BY DEF NoSpace
    <3> QED BY <1>3, <1>6, <1>7, <3>1 DEF PlaceOK
  <2>2. ChildOK(p)'
    BY <1>2, <1>3, <1>7 DEF ChildOK
  <2>3. InOnce(pgdir[p])' /\ InOnce(new[p])'
    BY <1>7, NoSpaceWhole, SlotIs, SpacesNext
  <2> QED BY <2>1, <2>2, <2>3 DEF LocalOK
<1>14. LocalOK(q)'
  <2>1. PlaceOK(q)'
    BY <1>5, <1>7, NoJobIs DEF PlaceOK
  <2>2. ChildOK(q)'
    BY <1>7, NoJobIs DEF ChildOK
  <2>3. InOnce(pgdir[q])' /\ InOnce(new[q])'
    BY <1>7, NoSpaceWhole, SpacesNext
  <2> QED BY <2>1, <2>2, <2>3 DEF LocalOK
<1>15. ASSUME ~ short'
       PROVE  HereOK(p)' /\ HereOK(q)'
  <2>1. Whole(pgdir[p]) /\ SizeOK(p) /\ InOnce(pgdir[p])
    BY <1>1, <1>15, SlotIs
  <2>2. Whole(pgdir[p])' /\ Whole(new[p])' /\ Whole(pgdir[q])' /\ Whole(new[q])'
    BY <2>1, <1>7, NoSpaceWhole, SpacesNext
  <2>3. SizeOK(p)'
    BY <2>1, <1>1, <1>3, <1>7 DEF SizeOK
  <2>4. SizeOK(q)'
    BY <1>7, NoJobIs DEF SizeOK
  <2> QED BY <2>2, <2>3, <2>4 DEF HereOK
<1>16. job'[q].child = 0 /\ job'[p].child = q
  BY <1>3, <1>7, NoJobIs
<1> QED BY <1>1, <1>8, <1>11, <1>12, <1>13, <1>14, <1>15, <1>16, MemStep
LEMMA WholeWith ==
  ASSUME NEW s \in SpaceType, Whole(s), NEW v \in Nat, ~ Missing(s, v), v * PGSIZE < KERNBASE,
         NEW t, t.tabs = s.tabs, DOMAIN t.map = DOMAIN s.map \cup {v}
  PROVE  Whole(t)
BY DEF Whole, Missing

LEMMA WholeTabled ==
  ASSUME NEW s \in SpaceType, Whole(s), NEW v \in Nat, DOMAIN s.map = 0..(v - 1),
         NEW t, DOMAIN t.tabs = DOMAIN s.tabs \cup {PDX(v)}, t.map = s.map
  PROVE  Whole(t) /\ ~ Missing(t, v)
<1>1. PDX(v) \in Nat
  BY PdxIs
<1>2. ASSUME NEW k \in 0..PDX(v), k # PDX(v)
      PROVE  k \in DOMAIN s.tabs
  <2>1. k \in Nat /\ k < PDX(v)
    BY <1>1, <1>2
  <2>2. v > 0
    <3> SUFFICES ASSUME v = 0
                 PROVE  FALSE
      OBVIOUS
    <3>1. 0 \div NPT = 0
      <4>1. NPT \in Nat \ {0} /\ NPT * 0 = 0
        BY MemConstants
      <4> DEFINE z == 0
      <4>2. z \in Int /\ z \in 0..(NPT - 1) /\ z = NPT * z + z
        BY <4>1
      <4> HIDE DEF z
      <4>3. z \div NPT = z
        BY <4>1, <4>2, DivisionIs
      <4> QED BY <4>3 DEF z
    <3> QED BY <3>1, <2>1 DEF PDX
  <2> DEFINE u == v - 1
  <2>3. u \in DOMAIN s.map /\ u \in Nat
    BY <2>2
  <2>4. PDX(v) <= PDX(u) + 1 /\ PDX(u) \in Nat
    BY <2>2, <2>3, PdxIs
  <2>5. PDX(u) \in DOMAIN s.tabs
    BY <2>3 DEF Whole
  <2> HIDE DEF u
  <2>6. k \in 0..PDX(u)
    BY <1>1, <2>1, <2>4
  <2> QED BY <2>5, <2>6 DEF Whole
<1>3. \A i \in DOMAIN t.tabs : \A k \in 0..i : k \in DOMAIN t.tabs
  BY <1>2 DEF Whole
<1>4. \A w \in DOMAIN t.map : PDX(w) \in DOMAIN t.tabs /\ w * PGSIZE < KERNBASE
  BY DEF Whole
<1> QED BY <1>3, <1>4 DEF Whole, Missing

\* The free pages and the one in hand are not in the page table.
LEMMA ApartIs ==
  ASSUME MemInv, NEW p \in Slots, free # {}
  PROVE  /\ ~ Within(Space(p), Min(free))
         /\ job[p].page # 0 => /\ job[p].page \in PageNos /\ ~ Within(Space(p), job[p].page)
                               /\ job[p].page # Min(free)
<1>0. PICK y \in Owners : y = SpaceOwner(p)
  BY SpaceOwnerIs
<1>1. /\ y # FreeList /\ y # Hand(p) /\ FreeList # Hand(p)
      /\ FreeList \in Owners /\ Hand(p) \in Owners
      /\ \A g : Owns(y, g) <=> Within(Space(p), g)
  BY <1>0, SpaceOwnerIs, OwnersApart, OwnersAre DEF SpaceOwner
<1>2. Owns(FreeList, Min(free)) /\ Min(free) \in Nat
  BY FreeIs, OwnsIs
<1>3. ~ Within(Space(p), Min(free))
  BY <1>1, <1>2, SlotIs DEF OneOwner
<1>4. ASSUME job[p].page # 0
      PROVE  /\ job[p].page \in PageNos /\ ~ Within(Space(p), job[p].page)
             /\ job[p].page # Min(free)
  <2>1. job[p].page \in Nat
    BY SlotIs DEF JobType
  <2>2. Owns(Hand(p), job[p].page)
    BY <1>4, OwnsIs
  <2>3. ~ Within(Space(p), job[p].page)
    BY <1>1, <2>1, <2>2, SlotIs DEF OneOwner
  <2>4. job[p].page # Min(free)
    BY <1>1, <1>2, <2>2, SlotIs DEF OneOwner
  <2> QED BY <1>4, <2>1, <2>3, <2>4 DEF PageNos
<1> QED BY <1>3, <1>4

\* mappages where there is a page table.
LEMMA MapPlain ==
  ASSUME MemInv, NEW p \in Slots, call[p] \in {"grow", "copy"}, NEW u \in BOOLEAN,
         free # {}, Kalloc, DOMAIN mem' = DOMAIN mem, ~ Missing(Space(p), job[p].a),
         Map(p, Space(p), Min(free), u), job[p].a * PGSIZE < job[p].end,
         job[p].end < KERNBASE, UNCHANGED <<call, kstack, sz, short>>
  PROVE  MemInv'
<1> DEFINE s == Space(p)
<1> DEFINE a == job[p].a
<1> DEFINE g == Min(free)
<1>1. /\ s \in SpaceType /\ InOnce(s) /\ g \in PageNos /\ g \in Nat /\ a \in Nat
      /\ job[p].end \in Nat
  BY SpaceOwnerIs, FreeIs, FinishedIs
<1>2. ~ Within(s, g) /\ job[p].page = 0
  BY ApartIs, SlotIs DEF PlaceOK
<1>3. PICK t : t = IF a \in DOMAIN s.map THEN s ELSE With(s, a, g, u)
  OBVIOUS
<1>4. /\ SetSpace(p, t) /\ halted' = (a \in DOMAIN s.map)
      /\ job' = [job EXCEPT ![p].a = @ + 1, ![p].page = 0]
  BY <1>3 DEF Map
<1>5. ~ short => DOMAIN s.map = 0..(a - 1) /\ a < PGROUNDUP(job[p].end) /\ Whole(s)
  <2>1. a < PGROUNDUP(job[p].end)
    BY <1>1, RoundIs
  <2> QED BY <2>1, SlotIs, SpaceOwnerIs DEF SizeOK
<1>6. a * PGSIZE < KERNBASE
  <2>1. KERNBASE \in Nat /\ a * PGSIZE \in Nat
    BY <1>1, MemConstants
  <2> QED BY <1>1, <2>1
<1>7. call' = [call EXCEPT ![p] = IF call[p] \in {"grow", "table"} THEN "grow" ELSE "copy"]
  <2>1. call \in [Slots -> MemPcs]
    BY DEF MemInv, MemTyped
  <2> QED BY <2>1
<1>8. ~ Missing(s, a)
  OBVIOUS
<1> HIDE DEF s, a, g
<1>9. a \notin DOMAIN s.map => /\ Adds(s, t, g) /\ Keeps(s, t) /\ t.tabs = s.tabs
                              /\ DOMAIN t.map = DOMAIN s.map \cup {a}
  BY <1>1, <1>3, WithIs
<1>10. /\ t \in SpaceType /\ InOnce(t) /\ (a \notin DOMAIN s.map => Within(t, g))
       /\ \A h \in Nat : Within(t, h) => Within(s, h) \/ h = g
  <2>1. CASE a \in DOMAIN s.map
    <3>1. t = s
      BY <1>3, <2>1
    <3> QED BY <1>1, <2>1, <3>1
  <2>2. CASE a \notin DOMAIN s.map
    BY <1>1, <1>2, <1>9, <2>2 DEF Adds
  <2> QED BY <2>1, <2>2
<1>11. ASSUME ~ short
       PROVE  ~ halted' /\ Whole(t) /\ DOMAIN t.map = 0..a /\ Keeps(s, t) /\ Within(t, g)
  <2>1. a \notin DOMAIN s.map /\ DOMAIN t.map = 0..a
    <3>1. a \notin DOMAIN s.map
      BY <1>1, <1>5, <1>11
    <3>2. DOMAIN t.map = DOMAIN s.map \cup {a} /\ DOMAIN s.map = 0..(a - 1)
      BY <1>5, <1>9, <1>11, <3>1
    <3> QED BY <1>1, <3>1, <3>2
  <2>2. Whole(t)
    BY <1>1, <1>5, <1>6, <1>8, <1>9, <1>11, <2>1, WholeWith
  <2> QED BY <1>4, <1>9, <1>10, <2>1, <2>2
<1>12. halted' \in BOOLEAN
  BY <1>4
<1>13. /\ \A h \in Nat : Within(t, h) => \/ Within(Space(p), h) \/ h = Min(free)
                                          \/ (h = job[p].page /\ h # 0)
       /\ ~ short => /\ ~ halted' /\ Whole(t) /\ DOMAIN t.map = 0..job[p].a
                     /\ job[p].a < PGROUNDUP(job[p].end) /\ job[p].end < KERNBASE
                     /\ Keeps(Space(p), t) /\ Within(t, Min(free))
  BY <1>5, <1>10, <1>11 DEF s, a, g
<1> QED BY <1>2, <1>4, <1>7, <1>10, <1>12, <1>13, Mapping

\* mappages with a page table of its own.
LEMMA MapTabled ==
  ASSUME MemInv, NEW p \in Slots, call[p] \in {"table", "copytable"}, NEW u \in BOOLEAN,
         free # {}, Kalloc, DOMAIN mem' = DOMAIN mem,
         Map(p, Tabled(Space(p), job[p].a), job[p].page, u),
         call' = [call EXCEPT ![p] = IF call[p] \in {"grow", "table"} THEN "grow" ELSE "copy"],
         UNCHANGED <<kstack, sz, short>>
  PROVE  MemInv'
<1> DEFINE s == Space(p)
<1> DEFINE a == job[p].a
<1> DEFINE b == job[p].page
<1> DEFINE g == Min(free)
<1>1. /\ s \in SpaceType /\ InOnce(s) /\ g \in PageNos /\ g \in Nat /\ a \in Nat
      /\ job[p].end \in Nat /\ job[p].page # 0
      /\ a * PGSIZE < job[p].end /\ job[p].end < KERNBASE /\ Missing(s, a)
  BY SpaceOwnerIs, FreeIs, FinishedIs, SlotIs DEF PlaceOK
<1>2. ~ Within(s, g) /\ b \in PageNos /\ ~ Within(s, b) /\ b # g
  BY <1>1, ApartIs
<1>3. PICK w : w = Tabled(s, a)
  OBVIOUS
<1>4. PICK t : t = IF a \in DOMAIN w.map THEN w ELSE With(w, a, b, u)
  OBVIOUS
<1>5. /\ SetSpace(p, t) /\ halted' = (a \in DOMAIN w.map)
      /\ job' = [job EXCEPT ![p].a = @ + 1, ![p].page = 0]
  BY <1>3, <1>4 DEF Map
<1>6. ~ short => DOMAIN s.map = 0..(a - 1) /\ a < PGROUNDUP(job[p].end) /\ Whole(s)
  <2>1. a < PGROUNDUP(job[p].end)
    BY <1>1, RoundIs
  <2> QED BY <2>1, SlotIs, SpaceOwnerIs DEF SizeOK
<1>7. a * PGSIZE < KERNBASE
  <2>1. KERNBASE \in Nat /\ a * PGSIZE \in Nat
    BY <1>1, MemConstants
  <2> QED BY <1>1, <2>1
<1>8. free \subseteq PageNos
  BY SlotIs
<1> HIDE DEF s, a
<1>9. /\ Adds(s, w, g) /\ Keeps(s, w) /\ w.map = s.map
      /\ DOMAIN w.tabs = DOMAIN s.tabs \cup {PDX(a)}
  BY <1>1, <1>3, <1>8, TabledIs
<1> HIDE DEF b, g
<1>10. /\ w \in SpaceType /\ InOnce(w) /\ Within(w, g) /\ ~ Within(w, b)
       /\ \A h \in Nat : Within(w, h) => Within(s, h) \/ h = g
  BY <1>1, <1>2, <1>9 DEF Adds, PageNos
<1>11. a \notin DOMAIN w.map => /\ Adds(w, t, b) /\ Keeps(w, t) /\ t.tabs = w.tabs
                               /\ DOMAIN t.map = DOMAIN w.map \cup {a}
  BY <1>1, <1>2, <1>4, <1>10, WithIs
<1>12. /\ t \in SpaceType /\ InOnce(t) /\ (a \notin DOMAIN w.map => Within(t, b))
       /\ \A h \in Nat : Within(t, h) => Within(s, h) \/ h = g \/ h = b
  <2>1. CASE a \in DOMAIN w.map
    <3>1. t = w
      BY <1>4, <2>1
    <3> QED BY <1>10, <2>1, <3>1
  <2>2. CASE a \notin DOMAIN w.map
    BY <1>1, <1>2, <1>10, <1>11, <2>2 DEF Adds
  <2> QED BY <2>1, <2>2
<1>13. ASSUME ~ short
       PROVE  /\ ~ halted' /\ Whole(t) /\ DOMAIN t.map = 0..a /\ Keeps(s, t)
              /\ Within(t, g) /\ Within(t, b)
  <2>1. a \notin DOMAIN s.map /\ DOMAIN t.map = 0..a
    <3>1. a \notin DOMAIN s.map /\ w.map = s.map
      BY <1>1, <1>6, <1>9, <1>13
    <3>2. DOMAIN t.map = DOMAIN s.map \cup {a} /\ DOMAIN s.map = 0..(a - 1)
      BY <1>6, <1>11, <1>13, <3>1
    <3> QED BY <1>1, <3>1, <3>2
  <2>2. Whole(w) /\ ~ Missing(w, a)
    BY <1>1, <1>6, <1>9, <1>13, WholeTabled
  <2>3. Whole(t)
    BY <1>1, <1>7, <1>9, <1>10, <1>11, <2>1, <2>2, WholeWith
  <2>4. Keeps(w, t)
    BY <2>1, <1>9, <1>11
  <2>5. Keeps(s, t) /\ Within(t, g)
    BY <2>4, <1>1, <1>9, <1>10 DEF Keeps
  <2>6. Within(t, b)
    BY <1>9, <1>12, <2>1
  <2> QED BY <1>5, <1>9, <2>1, <2>3, <2>5, <2>6
<1>14. halted' \in BOOLEAN
  BY <1>5
<1>15. /\ \A h \in Nat : Within(t, h) => \/ Within(Space(p), h) \/ h = Min(free)
                                          \/ (h = job[p].page /\ h # 0)
       /\ ~ short => /\ ~ halted' /\ Whole(t) /\ DOMAIN t.map = 0..job[p].a
                     /\ job[p].a < PGROUNDUP(job[p].end) /\ job[p].end < KERNBASE
                     /\ Keeps(Space(p), t) /\ Within(t, Min(free)) /\ Within(t, job[p].page)
  BY <1>1, <1>6, <1>12, <1>13 DEF s, a, b, g
<1> QED BY <1>5, <1>12, <1>14, <1>15, Mapping
\* fork and exec give back the page table they were making.
LEMMA FailNew ==
  ASSUME MemInv, NEW p \in Slots,
         call[p] \in {"setup", "copy", "copytable"} \/ (call[p] = "grow" /\ job[p].op = "exec"),
         NEW S, Fail(p, S), UNCHANGED <<pgdir, sz, halted>>, short' \in BOOLEAN, short => short',
         \A h \in S : h \in Nat /\ Within(new[p], h),
         ~ short' => job[p].page = 0 /\ \A h \in Nat : Within(new[p], h) => h \in S
  PROVE  MemInv'
<1>1. PICK t : t = pgdir[p]
  OBVIOUS
<1>2. pgdir' = [pgdir EXCEPT ![p] = t]
  <2>1. pgdir \in [Slots -> SpaceType]
    BY DEF MemInv, MemTyped
  <2> QED BY <1>1, <2>1
<1>3. t \in SpaceType /\ InOnce(t)
  BY <1>1, SlotIs
<1>4. ~ short' => Whole(t) /\ DOMAIN t.map = 0..(PGROUNDUP(sz[p]) - 1)
  BY <1>1, SlotIs DEF SizeOK
<1> QED BY <1>1, <1>2, <1>3, <1>4, FailKeeps

LEMMA FailAll ==
  ASSUME MemInv, NEW p \in Slots, job[p].page = 0,
         call[p] \in {"setup", "copy"} \/ (call[p] = "grow" /\ job[p].op = "exec"),
         Fail(p, All(new[p])), UNCHANGED <<pgdir, sz, halted, short>>
  PROVE  MemInv'
<1>1. new[p] \in SpaceType /\ (~ short => Whole(new[p])) /\ short \in BOOLEAN
  BY SlotIs
<1>2. PICK S : S = All(new[p])
  OBVIOUS
<1>3. /\ \A h \in S : h \in Nat /\ Within(new[p], h)
      /\ ~ short => \A h \in Nat : Within(new[p], h) => h \in S
  BY <1>1, <1>2, AllIs
<1>4. Fail(p, S) /\ short' \in BOOLEAN /\ (short <=> short')
  BY <1>1, <1>2
<1> QED BY <1>3, <1>4, FailNew

\* A panic, which there is only after a page table page has been missing.
LEMMA PanicKeeps ==
  ASSUME MemInv, NEW p \in Slots, call[p] # "embryo", short, halted' \in BOOLEAN,
         UNCHANGED <<free, kstack, pgdir, new, call, job, sz, short>>, DOMAIN mem' = DOMAIN mem
  PROVE  MemInv'
<1>1. \A r \in Slots : SameSlot(r)
  BY DEF SameSlot
<1>2. MemTyped'
  BY DEF MemInv, MemTyped
<1>3. PlaceOK(p)' /\ ChildOK(p)'
  BY <1>1, SlotIs, SameSlotIs DEF ChildOK
<1> QED BY <1>1, <1>2, <1>3, QuietStep

\* setupkvm gets a page.
SetupSpace(s, g) ==
  IF s.dir = 0 THEN [s EXCEPT !.dir = g] ELSE [s EXCEPT !.ktabs = s.ktabs \cup {g}]

LEMMA SetupSpaceIs ==
  ASSUME NEW s \in SpaceType, NEW g \in PageNos
  PROVE  /\ Adds(s, SetupSpace(s, g), g) /\ Keeps(s, SetupSpace(s, g))
         /\ SetupSpace(s, g).tabs = s.tabs /\ SetupSpace(s, g).map = s.map
         /\ SetupSpace(s, g).dir # 0
<1>1. g # 0
  BY DEF PageNos
<1>2. CASE s.dir = 0
  BY <1>1, <1>2, SetupIs DEF SetupSpace
<1>3. CASE s.dir # 0
  BY <1>1, <1>3, SetupIs DEF SetupSpace
<1> QED BY <1>2, <1>3

LEMMA SetupKeeps ==
  ASSUME MemInv, NEW p \in Slots, Setup(p)
  PROVE  MemInv'
<1>1. call[p] = "setup" /\ ~ halted /\ UNCHANGED <<pgdir, sz, halted>>
  BY DEF Setup, At
<1>2. /\ job[p].op \in {"fork", "exec"} /\ job[p].a = 0 /\ job[p].page = 0
      /\ new[p].tabs = NoMap /\ new[p].map = NoMap /\ (new[p].dir = 0 => new[p].ktabs = {})
      /\ new[p] \in SpaceType
  BY <1>1, SlotIs DEF PlaceOK
<1>3. ASSUME free = {}
      PROVE  MemInv'
  <2>1. Fail(p, {}) /\ short' = (short \/ new[p].dir # 0)
    BY <1>3 DEF Setup
  <2>2. short' \in BOOLEAN /\ (short => short') /\ (~ short' => new[p].dir = 0)
    BY <2>1, SlotIs
  <2>3. ASSUME new[p].dir = 0
        PROVE  \A h : ~ Within(new[p], h)
    <3>1. DOMAIN new[p].tabs = {} /\ DOMAIN new[p].map = {} /\ new[p].ktabs = {}
      BY <1>2, <2>3, NoSpaceIs
    <3> QED BY <2>3, <3>1 DEF Within, In
  <2>4. PICK S : S = {}
    OBVIOUS
  <2> QED BY <1>1, <1>2, <2>1, <2>2, <2>3, <2>4, FailNew
<1>4. ASSUME free # {}
      PROVE  MemInv'
  <2> DEFINE g == Min(free)
  <2>1. PICK t : t = SetupSpace(new[p], g)
    OBVIOUS
  <2>2. /\ free' = free \ {g} /\ DOMAIN mem' = DOMAIN mem /\ UNCHANGED <<kstack, job, short>>
        /\ new' = [new EXCEPT ![p] = t]
    BY <1>4, <2>1 DEF Setup, Kalloc, Got, SetupSpace
  <2>3. PICK c \in {"setup", "copy", "grow"} :
          /\ call' = [call EXCEPT ![p] = c]
          /\ c = "copy" => job[p].op = "fork"
          /\ c = "grow" => job[p].op # "fork"
    BY <1>4 DEF Setup, GoTo
  <2>4. g \in free /\ g \in PageNos /\ g \in Nat /\ ~ Within(new[p], g)
    <3>1. Space(p) = new[p]
      BY <1>2 DEF Space
    <3> QED BY <1>4, <3>1, FreeIs, ApartIs
  <2> HIDE DEF g
  <2>5. /\ Adds(new[p], t, g) /\ Keeps(new[p], t) /\ t.tabs = NoMap /\ t.map = NoMap
        /\ t.dir # 0
    BY <1>2, <2>1, <2>4, SetupSpaceIs
  <2>6. t \in SpaceType /\ InOnce(t) /\ Within(t, g)
        /\ \A h \in Nat : Within(t, h) => Within(new[p], h) \/ h = g
    BY <2>4, <2>5, SlotIs DEF Adds
  <2>7. /\ new \in [Slots -> SpaceType] /\ call \in [Slots -> MemPcs]
    BY DEF MemInv, MemTyped
  <2>8. /\ new'[p] = t /\ call'[p] = c /\ \A r \in Slots \ {p} : SameSlot(r)
    BY <1>1, <2>2, <2>3, <2>7 DEF SameSlot
  <2>9. MemTyped'
    <3>1. free' \subseteq DOMAIN mem'
      BY <2>2, SlotIs
    <3>2. new' \in [Slots -> SpaceType] /\ call' \in [Slots -> MemPcs]
      BY <2>2, <2>3, <2>6, <2>7 DEF MemPcs
    <3> QED BY <1>1, <2>2, <3>1, <3>2 DEF MemInv, MemTyped
  <2>10. /\ \A h : Owns(FreeList, h) <=> h \in free
         /\ \A h : Owns(FreeList, h)' <=> h \in free \ {g}
         /\ \A h : Owns(New(p), h) <=> Within(new[p], h)
         /\ \A h : Owns(New(p), h)' <=> Within(t, h)
         /\ FreeList \in Owners /\ New(p) \in Owners
    BY <2>2, <2>8, OwnsIs, OwnsNext, OwnersAre
  <2>11. ASSUME NEW o, o = Stack(p) \/ o = Hand(p) \/ o = Own(p)
         PROVE  \A h : Owns(o, h)' <=> Owns(o, h)
    <3>1. kstack'[p] = kstack[p] /\ job'[p] = job[p] /\ pgdir'[p] = pgdir[p]
      BY <1>1, <2>2
    <3> QED BY <2>11, <3>1, OwnsIs, OwnsNext
  <2>12. OneOwner' /\ NoneMore' /\ (~ short' => NoneLost')
    <3>1. \A o \in Few(p, p), h \in Nat : o # New(p) /\ Owns(o, h)' => Owns(o, h)
      BY <2>10, <2>11 DEF Few
    <3>2. ASSUME NEW h \in Nat, Owns(New(p), h)', ~ Owns(New(p), h)
          PROVE  \E x \in Owners : Owns(x, h) /\ ~ Owns(x, h)'
      BY <3>2, <2>4, <2>6, <2>10
    <3>3. ASSUME NEW o \in Few(p, p), NEW h \in Nat, Owns(o, h)
          PROVE  \E r \in Owners : Owns(r, h)'
      <4>1. CASE o = FreeList
        <5>1. Owns(FreeList, h)' \/ Owns(New(p), h)'
          BY <3>3, <4>1, <2>6, <2>10
        <5> QED BY <5>1, <2>10
      <4>2. CASE o = New(p)
        <5>1. Owns(New(p), h)'
          BY <3>3, <4>2, <2>5, <2>10 DEF Keeps
        <5> QED BY <5>1, <2>10
      <4>3. CASE o = Stack(p) \/ o = Hand(p) \/ o = Own(p)
        <5>1. Owns(o, h)'
          BY <3>3, <4>3, <2>11
        <5> QED BY <4>3, <5>1, OwnersAre
      <4> QED BY <4>1, <4>2, <4>3 DEF Few
    <3> QED BY <3>1, <3>2, <3>3, <2>2, <2>8, <2>10, FewMove
  <2>13. LocalOK(p)'
    <3>1. PlaceOK(p)'
      BY <1>1, <1>2, <2>2, <2>3, <2>5, <2>8, SlotIs DEF PlaceOK
    <3>2. ChildOK(p)'
      <4>1. job[p].child # p \/ job[p].child = 0
        BY <1>1, SlotIs DEF ChildOK
      <4> QED BY <4>1, <2>2, <2>3, <2>7, SlotIs DEF ChildOK
    <3>3. pgdir'[p] = pgdir[p]
      BY <1>1
    <3>4. InOnce(pgdir[p])' /\ InOnce(new[p])'
      BY <2>6, <2>8, <3>3, SlotIs, SpacesNext
    <3> QED BY <3>1, <3>2, <3>4 DEF LocalOK
  <2>14. ASSUME ~ short'
         PROVE  HereOK(p)'
    <3>1. Whole(pgdir[p]) /\ SizeOK(p) /\ InOnce(pgdir[p]) /\ pgdir'[p] = pgdir[p]
      BY <1>1, <2>2, <2>14, SlotIs
    <3>2. Whole(t)
      BY <2>5, NoSpaceIs DEF Whole
    <3>3. Whole(pgdir[p])' /\ Whole(new[p])'
      BY <2>6, <2>8, <3>1, <3>2, SpacesNext
    <3>4. Space(p)' = t
      BY <1>2, <2>2, <2>8 DEF Space
    <3>5. DOMAIN t.map = {}
      BY <2>5, NoSpaceIs
    <3>6. job[p].op = "fork" => job[p].end = sz[p] /\ sz[p] \in 0..(KERNBASE - 1)
      BY SlotIs DEF PlaceOK
    <3>7. PGROUNDUP(job[p].end) \in Nat /\ KERNBASE \in Nat
      BY FinishedIs, MemConstants
    <3>8. SizeOK(p)'
      BY <1>1, <1>2, <2>2, <2>3, <2>8, <3>1, <3>4, <3>5, <3>6, <3>7 DEF SizeOK
    <3> QED BY <3>3, <3>8 DEF HereOK
  <2>15. job'[p].child = job[p].child
    BY <2>2
  <2> QED BY <1>1, <2>2, <2>8, <2>9, <2>12, <2>13, <2>14, <2>15, SlotIs, MemStep
<1> QED BY <1>3, <1>4
LEMMA GrowFails ==
  ASSUME MemInv, NEW p \in Slots, Grow(p), free = {} \/ job[p].end >= KERNBASE
  PROVE  MemInv'
<1> DEFINE s == Space(p)
<1>1. /\ call[p] = "grow" /\ UNCHANGED <<sz, short, halted>>
      /\ Fail(p, Behind(s, Undone(p, s)) \cup IF job[p].op = "exec" THEN All(s) ELSE {})
      /\ pgdir' = IF job[p].op = "exec" THEN pgdir
                  ELSE [pgdir EXCEPT ![p] = Unmapped(s, Undone(p, s))]
  BY DEF Grow, At
<1>2. job[p].op \in {"sbrk", "exec"} /\ job[p].page = 0 /\ short \in BOOLEAN
  BY <1>1, SlotIs DEF PlaceOK
<1>3. PICK U : U = Undone(p, s)
  OBVIOUS
<1>4. s \in SpaceType /\ U \in SUBSET DOMAIN s.map
  BY <1>3, SpaceOwnerIs, VisitedIn DEF Undone
<1>5. CASE job[p].op = "exec"
  <2>1. s = new[p] /\ pgdir' = pgdir /\ (~ short => Whole(s))
    BY <1>1, <1>5, SlotIs DEF Space
  <2>2. PICK S : S = Behind(s, U) \cup All(s)
    OBVIOUS
  <2>3. Fail(p, S)
    BY <1>1, <1>3, <1>5, <2>2
  <2> HIDE DEF s
  <2>4. /\ \A h \in S : h \in Nat /\ Within(s, h)
        /\ ~ short => \A h \in Nat : Within(s, h) => h \in S
    BY <1>4, <2>1, <2>2, AllIs, BehindIs
  <2> QED BY <1>1, <1>2, <1>5, <2>1, <2>3, <2>4, FailNew
<1>6. CASE job[p].op = "sbrk"
  <2>1. s = pgdir[p] /\ (~ short => Whole(s) /\ SizeOK(p))
    BY <1>6, SlotIs DEF Space
  <2>2. PICK S : S = Behind(s, U)
    OBVIOUS
  <2>3. PICK t : t = Unmapped(s, U)
    OBVIOUS
  <2>4. Fail(p, S) /\ pgdir' = [pgdir EXCEPT ![p] = t]
    <3>1. S \cup {} = S
      OBVIOUS
    <3> QED BY <1>1, <1>3, <1>6, <2>2, <2>3, <3>1
  <2>5. InOnce(s)
    BY SpaceOwnerIs
  <2> HIDE DEF s
  <2>6. /\ t \in SpaceType /\ t.tabs = s.tabs /\ DOMAIN t.map = DOMAIN s.map \ U /\ InOnce(t)
        /\ \A h \in Nat : Within(t, h) => Within(s, h)
        /\ \A h \in Nat : Within(s, h) => Within(t, h) \/ h \in S
        /\ \A h \in Nat : h \in S => ~ Within(t, h)
    BY <1>4, <2>2, <2>3, <2>5, UnmappedIs
  <2>7. \A h \in S : h \in Nat /\ Within(s, h)
    BY <1>4, <2>2, BehindIs
  <2>8. \A h \in S : h \in Nat /\ (Within(new[p], h) \/ (Within(pgdir[p], h) /\ ~ Within(t, h)))
    BY <2>1, <2>6, <2>7
  <2>9. ASSUME ~ short
        PROVE  /\ Whole(t) /\ DOMAIN t.map = 0..(PGROUNDUP(sz[p]) - 1)
               /\ \A h \in Nat : Within(new[p], h) => h \in S
               /\ \A h \in Nat : Within(pgdir[p], h) => Within(t, h) \/ h \in S
    <3>1. \A h \in Nat : ~ Within(new[p], h)
      BY <1>1, <1>6, SlotIs, NoSpaceWhole DEF PlaceOK
    <3>2. Whole(t)
      BY <2>1, <2>6, <2>9 DEF Whole
    <3>3. /\ DOMAIN s.map = 0..(job[p].a - 1) /\ job[p].a <= PGROUNDUP(job[p].end)
          /\ job[p].end < KERNBASE /\ job[p].old = sz[p] /\ PGROUNDUP(sz[p]) <= job[p].a
      BY <1>1, <1>6, <2>1, <2>9 DEF SizeOK, Space, s
    <3>4. /\ job[p].a \in Nat /\ job[p].end \in Nat /\ sz[p] \in 0..(KERNBASE - 1)
          /\ KERNBASE \in Nat /\ sz[p] \in Nat /\ PGROUNDUP(sz[p]) \in Nat
          /\ PGROUNDUP(job[p].end) \in Nat
      <4>1. sz[p] \in Nat /\ sz[p] \in 0..(KERNBASE - 1) /\ KERNBASE \in Nat
        BY SlotIs, MemConstants
      <4> QED BY <4>1, FinishedIs, RoundIs
    <3>5. U = {v \in DOMAIN s.map : PGROUNDUP(sz[p]) <= v /\ v * PGSIZE < job[p].end}
      <4>1. U = Visited(s, sz[p], job[p].end)
        BY <1>3, <3>3 DEF Undone
      <4>2. sz[p] <= KERNBASE /\ job[p].end <= KERNBASE
        BY <3>3, <3>4
      <4> QED BY <1>4, <2>1, <2>9, <3>4, <4>1, <4>2, VisitedIs
    <3>6. \A v \in DOMAIN s.map : v \in Nat /\ v * PGSIZE < job[p].end
      <4> SUFFICES ASSUME NEW v \in DOMAIN s.map
                   PROVE  v \in Nat /\ v * PGSIZE < job[p].end
        OBVIOUS
      <4>1. v \in Nat /\ v < PGROUNDUP(job[p].end)
        BY <3>3, <3>4
      <4> QED BY <3>4, <4>1, RoundIs
    <3>7. DOMAIN t.map = 0..(PGROUNDUP(sz[p]) - 1)
      BY <2>6, <3>3, <3>4, <3>5, <3>6
    <3> QED BY <2>1, <2>6, <3>1, <3>2, <3>7
  <2> QED BY <1>1, <1>2, <2>1, <2>4, <2>6, <2>8, <2>9, FailKeeps
<1> QED BY <1>2, <1>5, <1>6

LEMMA GrowKeeps ==
  ASSUME MemInv, NEW p \in Slots, Grow(p)
  PROVE  MemInv'
<1>1. CASE free = {} \/ job[p].end >= KERNBASE
  BY <1>1, GrowFails
<1>2. CASE ~ (free = {} \/ job[p].end >= KERNBASE)
  <2>1. /\ call[p] = "grow" /\ ~ Finished(p) /\ free # {} /\ job[p].end < KERNBASE
        /\ Kalloc /\ DOMAIN mem' = DOMAIN mem /\ UNCHANGED <<kstack, sz, short>>
    BY <1>2, FinishedIs, MemConstants DEF Grow, At, Got
  <2>2. job[p].a * PGSIZE < job[p].end
    BY <2>1, FinishedIs
  <2>3. CASE Missing(Space(p), job[p].a)
    <3>1. /\ job' = [job EXCEPT ![p].page = Min(free)]
          /\ call' = [call EXCEPT ![p] = "table"] /\ UNCHANGED <<pgdir, new, halted>>
      BY <1>2, <2>3 DEF Grow, GoTo
    <3> QED BY <2>1, <2>2, <2>3, <3>1, Taking
  <2>4. CASE ~ Missing(Space(p), job[p].a)
    <3>1. Map(p, Space(p), Min(free), TRUE) /\ UNCHANGED call
      BY <1>2, <2>4 DEF Grow
    <3> QED BY <2>1, <2>2, <2>4, <3>1, MapPlain
  <2> QED BY <2>3, <2>4
<1> QED BY <1>1, <1>2

LEMMA GrowTableKeeps ==
  ASSUME MemInv, NEW p \in Slots, GrowTable(p)
  PROVE  MemInv'
<1>1. CASE free = {}
  BY <1>1, Shorter
<1>2. CASE free # {}
  <2>1. /\ call[p] = "table" /\ call' = [call EXCEPT ![p] = "grow"] /\ Kalloc
        /\ DOMAIN mem' = DOMAIN mem /\ UNCHANGED <<kstack, sz, short>>
        /\ Map(p, Tabled(Space(p), job[p].a), job[p].page, TRUE)
    BY <1>2 DEF GrowTable, At, GoTo, Got
  <2> QED BY <1>2, <2>1, MapTabled
<1> QED BY <1>1, <1>2

\* A copy is at a page the process has.
LEMMA CopyAt ==
  ASSUME MemInv, NEW p \in Slots, call[p] = "copy", ~ Finished(p)
  PROVE  /\ job[p].op = "fork" /\ Space(p) = new[p] /\ job[p].page = 0
         /\ job[p].end < KERNBASE /\ job[p].a * PGSIZE < job[p].end
         /\ ~ short => job[p].a \in DOMAIN pgdir[p].map
<1>1. job[p].op = "fork" /\ job[p].end = sz[p] /\ job[p].page = 0
  BY SlotIs DEF PlaceOK
<1>2. job[p].end < KERNBASE /\ sz[p] \in Nat
  BY <1>1, SlotIs, MemConstants
<1>3. job[p].a \in Nat /\ job[p].a < PGROUNDUP(sz[p]) /\ job[p].a * PGSIZE < job[p].end
      /\ PGROUNDUP(sz[p]) \in Nat
  BY <1>1, <1>2, FinishedIs
<1>4. ~ short => DOMAIN pgdir[p].map = 0..(PGROUNDUP(sz[p]) - 1)
  BY SlotIs DEF SizeOK
<1> QED BY <1>1, <1>2, <1>3, <1>4 DEF Space

LEMMA CopyKeeps ==
  ASSUME MemInv, NEW p \in Slots, Copy(p)
  PROVE  MemInv'
<1>1. call[p] = "copy" /\ ~ Finished(p) /\ UNCHANGED <<sz, short>>
  BY DEF Copy, At
<1>2. /\ job[p].op = "fork" /\ Space(p) = new[p] /\ job[p].page = 0
      /\ job[p].end < KERNBASE /\ job[p].a * PGSIZE < job[p].end
      /\ ~ short => job[p].a \in DOMAIN pgdir[p].map
  BY <1>1, CopyAt
<1>3. CASE job[p].a \notin DOMAIN pgdir[p].map
  <2>1. halted' \in BOOLEAN /\ UNCHANGED <<free, mem, kstack, pgdir, call, new, job>>
    BY <1>3 DEF Copy
  <2> QED BY <1>1, <1>2, <1>3, <2>1, PanicKeeps
<1>4. CASE job[p].a \in DOMAIN pgdir[p].map /\ free = {}
  <2>1. Fail(p, All(new[p])) /\ UNCHANGED <<pgdir, halted>>
    BY <1>4 DEF Copy
  <2> QED BY <1>1, <1>2, <2>1, FailAll
<1>5. CASE job[p].a \in DOMAIN pgdir[p].map /\ free # {}
  <2>1. Kalloc /\ DOMAIN mem' = DOMAIN mem /\ UNCHANGED kstack
    BY <1>5 DEF Copy, Got
  <2>2. CASE Missing(new[p], job[p].a)
    <3>1. /\ job' = [job EXCEPT ![p].page = Min(free)]
          /\ call' = [call EXCEPT ![p] = "copytable"] /\ UNCHANGED <<pgdir, new, halted>>
      BY <1>5, <2>2 DEF Copy, GoTo
    <3> QED BY <1>1, <1>2, <1>5, <2>1, <2>2, <3>1, Taking
  <2>3. CASE ~ Missing(new[p], job[p].a)
    <3>1. Map(p, new[p], Min(free), pgdir[p].map[job[p].a].user) /\ UNCHANGED call
      BY <1>5, <2>3 DEF Copy
    <3>2. PICK u \in BOOLEAN : u = pgdir[p].map[job[p].a].user
      <4>1. pgdir[p] \in SpaceType
        BY SlotIs
      <4> QED BY <1>5, <4>1, SpaceIs
    <3> QED BY <1>1, <1>2, <1>5, <2>1, <2>3, <3>1, <3>2, MapPlain
  <2> QED BY <2>2, <2>3
<1> QED BY <1>3, <1>4, <1>5

LEMMA CopyTableKeeps ==
  ASSUME MemInv, NEW p \in Slots, CopyTable(p)
  PROVE  MemInv'
<1>1. call[p] = "copytable" /\ UNCHANGED sz
  BY DEF CopyTable, At
<1>2. /\ job[p].op = "fork" /\ Space(p) = new[p] /\ job[p].a \in DOMAIN pgdir[p].map
      /\ pgdir[p] \in SpaceType /\ new[p] \in SpaceType
  BY <1>1, SlotIs DEF PlaceOK, Space
<1>3. CASE free = {}
  <2>1. PICK S : S = All(new[p])
    OBVIOUS
  <2>2. Fail(p, S) /\ short' = TRUE /\ UNCHANGED <<pgdir, halted>>
    BY <1>3, <2>1 DEF CopyTable
  <2>3. \A h \in S : h \in Nat /\ Within(new[p], h)
    BY <1>2, <2>1, AllIs
  <2> QED BY <1>1, <2>2, <2>3, FailNew
<1>4. CASE free # {}
  <2>1. PICK u \in BOOLEAN : u = pgdir[p].map[job[p].a].user
    BY <1>2, SpaceIs
  <2>2. /\ Kalloc /\ DOMAIN mem' = DOMAIN mem /\ UNCHANGED <<kstack, short>>
        /\ Map(p, Tabled(Space(p), job[p].a), job[p].page, u)
        /\ call' = [call EXCEPT ![p] = "copy"]
    BY <1>2, <1>4, <2>1 DEF CopyTable, GoTo, Got
  <2> QED BY <1>1, <1>4, <2>2, MapTabled
<1> QED BY <1>3, <1>4
LEMMA MaxOfTwo ==
  ASSUME NEW x \in Nat, NEW y \in Nat
  PROVE  /\ Max({x, y}) \in Nat /\ x <= Max({x, y}) /\ y <= Max({x, y})
         /\ Max({x, y}) \in {x, y}
<1>1. \E m \in {x, y} : \A k \in {x, y} : m >= k
  <2>1. CASE x >= y
    BY <2>1
  <2>2. CASE ~ (x >= y)
    <3>1. y >= x /\ y >= y
      BY <2>2
    <3> QED BY <3>1
  <2> QED BY <2>1, <2>2
<1>2. Max({x, y}) \in {x, y} /\ \A k \in {x, y} : Max({x, y}) >= k
  BY <1>1, Zenon DEF Max
<1> DEFINE m == Max({x, y})
<1>3. m \in {x, y} /\ m >= x /\ m >= y
  BY <1>2
<1> HIDE DEF m
<1>4. m \in Nat /\ x <= m /\ y <= m
  BY <1>3
<1> QED BY <1>2, <1>4 DEF m

LEMMA RoundWhole ==
  ASSUME NEW n \in Nat
  PROVE  n * PGSIZE \in Nat /\ PGROUNDUP(n * PGSIZE) = n
<1> DEFINE x == n * PGSIZE
<1>0. PGSIZE \in Nat \ {0} /\ x \in Nat
  BY MemConstants
<1>1. PGROUNDUP(x) \in Nat /\ \A v \in Nat : v < PGROUNDUP(x) <=> v * PGSIZE < x
  BY <1>0, RoundIs
<1>2. \A v \in Nat : v * PGSIZE < x <=> v < n
  <2> SUFFICES ASSUME NEW v \in Nat
               PROVE  v * PGSIZE < n * PGSIZE <=> v < n
    OBVIOUS
  <2>1. v < n => PGSIZE * (v + 1) <= PGSIZE * n
    BY <1>0, Times
  <2>2. ~ (v < n) => PGSIZE * n <= PGSIZE * v
    BY <1>0, Times
  <2>3. /\ PGSIZE * (v + 1) = v * PGSIZE + PGSIZE /\ PGSIZE * n = n * PGSIZE
        /\ PGSIZE * v = v * PGSIZE /\ v * PGSIZE \in Nat /\ n * PGSIZE \in Nat
    BY <1>0
  <2> QED BY <1>0, <2>1, <2>2, <2>3
<1> HIDE DEF x
<1>3. ~ (PGROUNDUP(x) < n) /\ ~ (n < PGROUNDUP(x))
  BY <1>1, <1>2
<1>4. PGROUNDUP(x) = n
  BY <1>1, <1>3
<1> QED BY <1>0, <1>4 DEF x

LEMMA TwoMore ==
  ASSUME NEW n \in Nat
  PROVE  /\ (n * PGSIZE + 2 * PGSIZE) % PGSIZE = 0
         /\ n * PGSIZE + 2 * PGSIZE >= 2 * PGSIZE
<1> DEFINE x == n * PGSIZE + 2 * PGSIZE
<1> DEFINE q == n + 2
<1> DEFINE z == 0
<1>1. PGSIZE \in Nat \ {0} /\ n * PGSIZE \in Nat /\ 2 * PGSIZE \in Nat
  BY MemConstants
<1>2. x \in Int /\ q \in Int /\ z \in 0..(PGSIZE - 1)
  BY <1>1
<1>3. x = PGSIZE * q + z
  BY <1>1
<1>4. x >= 2 * PGSIZE
  BY <1>1
<1> HIDE DEF q, x, z
<1>5. x % PGSIZE = z
  BY <1>1, <1>2, <1>3, DivisionIs
<1> QED BY <1>4, <1>5 DEF x, z

\* The pages of a segment are below its end.
LEMMA SegPages ==
  ASSUME NEW at \in Nat, NEW n \in Nat, NEW m \in Nat, n <= m, NEW end \in Nat,
         at * PGSIZE + m <= end, NEW v \in at..(at + PGROUNDUP(n) - 1)
  PROVE  v \in 0..(PGROUNDUP(end) - 1)
<1> DEFINE i == v - at
<1>1. PGROUNDUP(n) \in Nat /\ PGROUNDUP(end) \in Nat /\ PGSIZE \in Nat
  BY RoundIs, MemConstants
<1>2. v \in Nat /\ i \in Nat /\ i < PGROUNDUP(n) /\ v = at + i
  BY <1>1
<1> HIDE DEF i
<1>3. i * PGSIZE < n
  BY <1>2, RoundIs
<1>4. i * PGSIZE \in Nat /\ at * PGSIZE \in Nat
  BY <1>1, <1>2
<1>5. v * PGSIZE = at * PGSIZE + i * PGSIZE
  BY <1>1, <1>2
<1>6. v * PGSIZE < end
  BY <1>3, <1>4, <1>5
<1>7. v < PGROUNDUP(end)
  BY <1>2, <1>6, RoundIs
<1> QED BY <1>1, <1>2, <1>7

\* Where exec is when the pages of a segment are there.
LEMMA ExecAt ==
  ASSUME MemInv, NEW p \in Slots, call[p] = "grow", job[p].op = "exec", Finished(p)
  PROVE  /\ job[p].prog \in Programs /\ job[p].seg \in 1..(Len(job[p].prog.segs) + 1)
         /\ Len(job[p].prog.segs) \in Nat /\ job[p].page = 0 /\ Space(p) = new[p]
         /\ job[p].a \in Nat /\ job[p].end \in Nat /\ job[p].end < KERNBASE
         /\ job[p].end <= job[p].a * PGSIZE
         /\ ~ short => /\ job[p].a = PGROUNDUP(job[p].end)
                       /\ DOMAIN new[p].map = 0..(job[p].a - 1)
                       /\ DOMAIN pgdir[p].map = 0..(PGROUNDUP(sz[p]) - 1)
<1>1. /\ job[p].prog \in Programs /\ job[p].seg \in 1..(Len(job[p].prog.segs) + 1)
      /\ job[p].page = 0 /\ Space(p) = new[p]
  BY SlotIs DEF PlaceOK, Space
<1>2. Len(job[p].prog.segs) \in Nat
  BY <1>1, SegsAre
<1>3. /\ job[p].a \in Nat /\ job[p].end \in Nat /\ PGROUNDUP(job[p].end) \in Nat
      /\ job[p].end < KERNBASE /\ PGROUNDUP(job[p].end) <= job[p].a
  BY FinishedIs
<1>4. job[p].end <= job[p].a * PGSIZE
  <2>1. ~ (job[p].a * PGSIZE < job[p].end) /\ job[p].a * PGSIZE \in Nat
    BY <1>3, RoundIs, MemConstants
  <2> QED BY <1>3, <2>1
<1>5. ~ short => /\ job[p].a = PGROUNDUP(job[p].end)
                 /\ DOMAIN new[p].map = 0..(job[p].a - 1)
                 /\ DOMAIN pgdir[p].map = 0..(PGROUNDUP(sz[p]) - 1)
  BY <1>1, <1>3, SlotIs DEF SizeOK
<1> QED BY <1>1, <1>2, <1>3, <1>4, <1>5

LEMMA LoadKeeps ==
  ASSUME MemInv, NEW p \in Slots, Load(p)
  PROVE  MemInv'
<1>0. PICK j : j = job[p]
  OBVIOUS
<1> DEFINE segs  == j.prog.segs
<1> DEFINE seg   == segs[j.seg]
<1> DEFINE Into  == seg.at..(seg.at + PGROUNDUP(seg.filesz) - 1)
<1> DEFINE last  == j.seg = Len(segs)
<1> DEFINE old   == IF last THEN PGROUNDUP(j.end) * PGSIZE ELSE j.end
<1> DEFINE newsz == IF last THEN old + 2 * PGSIZE ELSE Max({old, SegEnd(segs[j.seg + 1])})
<1> DEFINE k == [j EXCEPT !.seg = j.seg + 1, !.old = old, !.end = newsz, !.a = PGROUNDUP(old)]
<1>1. /\ call[p] = "grow" /\ ~ halted /\ job[p].op = "exec" /\ Finished(p)
      /\ j.seg <= Len(segs) /\ UNCHANGED <<pgdir, sz, short>>
  BY <1>0 DEF Load, At
<1>2. CASE ~ j.prog.reads
  <2>1. Fail(p, All(new[p])) /\ UNCHANGED halted
    BY <1>0, <1>2 DEF Load
  <2> QED BY <1>1, <2>1, ExecAt, FailAll
<1>3. CASE j.prog.reads
  <2>1. /\ halted' = ~ (Into \subseteq DOMAIN new[p].map) /\ DOMAIN mem' = DOMAIN mem
        /\ job' = [job EXCEPT ![p] = k] /\ UNCHANGED <<free, kstack, call, new>>
    BY <1>0, <1>3 DEF Load
  <2>2. /\ j.prog \in Programs /\ j.seg \in 1..Len(segs) /\ Len(segs) \in Nat /\ j.seg \in Nat
        /\ j.page = 0 /\ Space(p) = new[p] /\ j.a \in Nat /\ j.end \in Nat /\ j.end < KERNBASE
        /\ j.end <= j.a * PGSIZE /\ PGROUNDUP(j.end) \in Nat
        /\ ~ short => /\ j.a = PGROUNDUP(j.end) /\ DOMAIN new[p].map = 0..(j.a - 1)
                      /\ DOMAIN pgdir[p].map = 0..(PGROUNDUP(sz[p]) - 1)
    <3>1. j.seg \in 1..(Len(segs) + 1) /\ Len(segs) \in Nat
      BY <1>0, <1>1, ExecAt
    <3>2. PGROUNDUP(job[p].end) \in Nat
      BY FinishedIs
    <3> QED BY <1>0, <1>1, <3>1, <3>2, ExecAt
  <2>3. j \in JobType /\ job \in [Slots -> JobType] /\ j.child = 0
    BY <1>0, <1>1, SlotIs DEF MemInv, MemTyped, ChildOK
  <2>4. PGSIZE \in Nat /\ KERNBASE \in Nat /\ PGROUNDUP(j.end) * PGSIZE \in Nat
    BY <2>2, MemConstants
  <2>5. /\ seg.at \in Nat /\ seg.filesz \in Nat /\ seg.memsz \in Nat /\ seg.filesz <= seg.memsz
        /\ ~ last => SegEnd(segs[j.seg + 1]) \in Nat
    <3>1. ~ last => j.seg + 1 \in 1..Len(segs)
      BY <2>2
    <3> QED BY <2>2, <3>1, SegsAre
  <2>6. old \in Nat /\ PGROUNDUP(old) = PGROUNDUP(j.end)
    BY <2>2, <2>4, RoundWhole
  <2>7. newsz \in Nat /\ old <= newsz /\ (~ last => SegEnd(segs[j.seg + 1]) <= newsz)
    <3>1. CASE last
      BY <2>4, <2>6, <3>1
    <3>2. CASE ~ last
      <4> DEFINE x == SegEnd(segs[j.seg + 1])
      <4>1. x \in Nat /\ newsz = Max({old, x})
        BY <2>5, <3>2
      <4> HIDE DEF x, old, newsz
      <4>2. newsz \in Nat /\ old <= newsz /\ x <= newsz
        BY <2>6, <4>1, MaxOfTwo
      <4> QED BY <4>2 DEF x
    <3> QED BY <3>1, <3>2
  <2>8. last => /\ newsz % PGSIZE = 0 /\ newsz >= 2 * PGSIZE
    <3> HAVE last
    <3>1. newsz = PGROUNDUP(j.end) * PGSIZE + 2 * PGSIZE
      OBVIOUS
    <3> DEFINE n == PGROUNDUP(j.end)
    <3>2. n \in Nat
      BY <2>2
    <3> HIDE DEF n
    <3>3. (n * PGSIZE + 2 * PGSIZE) % PGSIZE = 0 /\ n * PGSIZE + 2 * PGSIZE >= 2 * PGSIZE
      BY <3>2, TwoMore
    <3> QED BY <3>1, <3>3 DEF n
  <2> HIDE DEF old, newsz
  <2>9. PICK b \in Nat : b = j.seg + 1
    BY <2>2
  <2>10. PICK a \in Nat : a = PGROUNDUP(old)
    BY <2>2, <2>6
  <2>11. k = [j EXCEPT !.seg = b, !.old = old, !.end = newsz, !.a = a]
    BY <2>9, <2>10
  <2> HIDE DEF k, segs
  <2>12. k \in JobType
    BY <2>3, <2>6, <2>7, <2>11 DEF JobType
  <2>13. /\ k.seg = b /\ k.old = old /\ k.end = newsz /\ k.a = a
    BY <2>3, <2>11 DEF JobType
  <2>14. /\ k.op = j.op /\ k.page = j.page /\ k.child = j.child /\ k.prog = j.prog
    BY <2>3, <2>11 DEF JobType
  <2>15. /\ job'[p] = k /\ job' \in [Slots -> JobType] /\ \A r \in Slots \ {p} : SameSlot(r)
    BY <1>1, <2>1, <2>3, <2>12 DEF SameSlot
  <2>16. halted' \in BOOLEAN
    BY <2>1
  <2>17. MemTyped'
    BY <1>1, <2>1, <2>15, <2>16 DEF MemInv, MemTyped
  <2>18. PlaceOK(p)'
    <3>1. b \in 1..(Len(k.prog.segs) + 1)
      BY <2>2, <2>9, <2>14 DEF segs
    <3> QED BY <1>0, <1>1, <2>1, <2>2, <2>13, <2>14, <2>15, <3>1, SlotIs DEF PlaceOK
  <2>19. ChildOK(p)'
    BY <1>0, <1>1, <2>3, <2>14, <2>15 DEF ChildOK
  <2>20. ASSUME ~ short
         PROVE  ~ halted' /\ SizeOK(p)'
    <3>1. j.a = PGROUNDUP(j.end) /\ DOMAIN new[p].map = 0..(j.a - 1) /\ a = j.a
      BY <2>2, <2>6, <2>10, <2>20
    <3>2. SegEnd(seg) <= j.end
      BY <1>0, <1>1, <2>20, SlotIs DEF SizeOK, segs
    <3>3. Into \subseteq DOMAIN new[p].map
      <4> SUFFICES ASSUME NEW v \in Into
                   PROVE  v \in 0..(j.a - 1)
        BY <3>1
      <4> DEFINE at == seg.at
      <4> DEFINE n == seg.filesz
      <4> DEFINE m == seg.memsz
      <4> DEFINE e == j.end
      <4>1. at \in Nat /\ n \in Nat /\ m \in Nat /\ n <= m /\ e \in Nat
        BY <2>2, <2>5
      <4>2. at * PGSIZE + m <= e /\ v \in at..(at + PGROUNDUP(n) - 1)
        BY <3>2 DEF SegEnd
      <4> HIDE DEF at, n, m, e
      <4>3. v \in 0..(PGROUNDUP(e) - 1)
        BY <4>1, <4>2, SegPages
      <4> QED BY <3>1, <4>3 DEF e
    <3>4. newsz < KERNBASE => a <= PGROUNDUP(newsz)
      BY <2>6, <2>7, <2>10, RoundOrder
    <3>5. a * PGSIZE <= KERNBASE
      <4>1. PGROUNDUP(j.end) <= Top /\ Top \in Nat
        BY <2>2, <2>4, RoundOrder, TopIs
      <4>2. PGSIZE * a <= PGSIZE * Top
        BY <2>4, <3>1, <4>1, Times
      <4> QED BY <2>4, <4>1, <4>2, TopIs
    <3>6. b <= Len(segs) => SegEnd(segs[b]) <= newsz
      BY <2>2, <2>7, <2>9
    <3>7. b > Len(segs) => last
      BY <1>1, <2>2, <2>9
    <3>8. Space(p)' = new[p]
      BY <1>0, <1>1, <2>1, <2>14, <2>15 DEF Space
    <3>9. SizeOK(p)'
      <4>1. k.prog.segs = segs /\ k.op = "exec"
        BY <1>0, <1>1, <2>14 DEF segs
      <4>2. DOMAIN pgdir'[p].map = 0..(PGROUNDUP(sz'[p]) - 1)
        BY <1>1, <2>2, <2>20
      <4> QED BY <1>1, <2>1, <2>8, <2>13, <2>15, <3>1, <3>4, <3>5, <3>6, <3>7, <3>8,
                 <4>1, <4>2 DEF SizeOK
    <3> QED BY <2>1, <3>3, <3>9
  <2>21. job'[p].page = job[p].page /\ job'[p].child = job[p].child
    BY <1>0, <2>14, <2>15
  <2> QED BY <1>1, <2>1, <2>15, <2>17, <2>18, <2>19, <2>20, <2>21, QuietStep
<1> QED BY <1>2, <1>3
\* The pages y had go to x, and those z had to y.
LEMMA Handed ==
  ASSUME OneOwner, NoneMore, DOMAIN mem' = DOMAIN mem,
         NEW x \in Owners, NEW y \in Owners, NEW z \in Owners,
         \A o \in Owners, g \in Nat : o \notin {x, y, z} /\ Owns(o, g)' => Owns(o, g),
         \A g \in Nat : Owns(x, g)' => Owns(x, g) \/ Owns(y, g),
         \A g \in Nat : Owns(y, g)' => Owns(z, g),
         \A g \in Nat : ~ Owns(z, g)', x # z, y # z
  PROVE  OneOwner' /\ NoneMore'
<1>1. ASSUME NEW o \in Owners, NEW g \in Nat, Owns(o, g)'
      PROVE  /\ o # z
             /\ o = x => Owns(x, g) \/ Owns(y, g)
             /\ o = y => Owns(z, g)
             /\ o \notin {x, y, z} => Owns(o, g)
  BY <1>1
<1>2. ASSUME NEW o \in Owners, NEW g \in Nat, Owns(o, g)'
      PROVE  g \in DOMAIN mem'
  BY <1>1, <1>2 DEF NoneMore
<1>3. ASSUME NEW o \in Owners, NEW r \in Owners, NEW g \in Nat, Owns(o, g)', Owns(r, g)'
      PROVE  o = r
  <2>1. \A u, w \in Owners : Owns(u, g) /\ Owns(w, g) => u = w
    BY DEF OneOwner
  <2>2. CASE o = x
    BY <1>1, <1>3, <2>1, <2>2
  <2>3. CASE o = y /\ o # x
    BY <1>1, <1>3, <2>1, <2>3
  <2>4. CASE o \notin {x, y}
    BY <1>1, <1>3, <2>1, <2>4
  <2> QED BY <2>2, <2>3, <2>4
<1>4. OneOwner'
  BY <1>3 DEF OneOwner
<1>5. NoneMore'
  BY <1>2 DEF NoneMore
<1> QED BY <1>4, <1>5

\* The same pages at the same places.
LEMMA ImageIs ==
  ASSUME NEW s \in SpaceType, NEW f \in [DOMAIN s.map -> EntryType],
         \A v \in DOMAIN s.map : f[v].page = s.map[v].page
  PROVE  LET t == [s EXCEPT !.map = f]
         IN  /\ t \in SpaceType /\ t.tabs = s.tabs /\ DOMAIN t.map = DOMAIN s.map
             /\ InOnce(s) => InOnce(t)
             /\ \A h : Within(t, h) <=> Within(s, h)
<1> DEFINE t == [s EXCEPT !.map = f]
<1>1. DOMAIN f = DOMAIN s.map /\ DOMAIN s.map \subseteq Nat
  BY SpaceIs
<1>2. f \in Maps(EntryType)
  BY <1>1, MapsAre
<1>3. t.map = f /\ t.dir = s.dir /\ t.ktabs = s.ktabs /\ t.tabs = s.tabs
  BY DEF SpaceType
<1>4. t \in SpaceType
  BY <1>2 DEF SpaceType
<1> HIDE DEF t
<1>5. \A h, k : In(t, h, k) <=> In(s, h, k)
  BY <1>1, <1>3 DEF In
<1>6. (InOnce(s) => InOnce(t)) /\ \A h : Within(t, h) <=> Within(s, h)
  BY <1>5 DEF InOnce, Within
<1> QED BY <1>1, <1>3, <1>4, <1>6 DEF t

\* The pages of the stack, when none is missing.
LEMMA StackIs ==
  ASSUME MemInv, NEW p \in Slots, call[p] = "grow", job[p].op = "exec", Finished(p),
         job[p].seg > Len(job[p].prog.segs), ~ short,
         NEW stack, stack = job[p].end \div PGSIZE - 1
  PROVE  /\ stack \in DOMAIN new[p].map /\ stack - 1 \in DOMAIN new[p].map
         /\ ~ Missing(new[p], stack) /\ ~ Missing(new[p], stack - 1)
         /\ DOMAIN new[p].map = 0..(PGROUNDUP(job[p].end) - 1)
<1>1. PICK e : e = job[p].end
  OBVIOUS
<1>2. e \in Nat /\ e % PGSIZE = 0 /\ e >= 2 * PGSIZE
  <2>1. job[p].end \in Nat
    BY ExecAt
  <2>2. SizeOK(p)
    BY SlotIs
  <2> QED BY <1>1, <2>1, <2>2 DEF SizeOK
<1>3. PICK n : n = e \div PGSIZE
  OBVIOUS
<1>4. PGSIZE \in Nat \ {0}
  BY MemConstants
<1>5. e = PGSIZE * n + (e % PGSIZE) /\ n \in Int
  BY <1>2, <1>3, <1>4, Division
<1>6. n >= 2
  <2> DEFINE i == 2
  <2> DEFINE z == 0
  <2>1. i \in Int /\ z \in 0..(PGSIZE - 1)
    BY <1>4
  <2>2. PGSIZE * i + z <= PGSIZE * n + z
    <3>1. PGSIZE * n \in Int
      BY <1>4, <1>5
    <3> QED BY <1>2, <1>4, <1>5, <3>1
  <2> HIDE DEF i, z
  <2>3. i <= n
    BY <1>4, <1>5, <2>1, <2>2, QuotientOrder
  <2> QED BY <1>5, <2>3 DEF i
<1>7. n \in Nat /\ PGROUNDUP(e) = n
  <2>1. n \in Nat
    BY <1>5, <1>6
  <2>2. e = n * PGSIZE
    BY <1>2, <1>4, <1>5, <2>1
  <2> QED BY <2>1, <2>2, RoundWhole
<1>8. DOMAIN new[p].map = 0..(PGROUNDUP(job[p].end) - 1)
  BY ExecAt
<1>9. DOMAIN new[p].map = 0..(n - 1) /\ stack = n - 1
  BY <1>1, <1>3, <1>7, <1>8
<1>10. stack \in DOMAIN new[p].map /\ stack - 1 \in DOMAIN new[p].map
  BY <1>6, <1>7, <1>9
<1>11. Whole(new[p])
  BY SlotIs
<1>12. ~ Missing(new[p], stack) /\ ~ Missing(new[p], stack - 1)
  BY <1>10, <1>11 DEF Whole, Missing
<1> QED BY <1>8, <1>10, <1>12

LEMMA CommitKeeps ==
  ASSUME MemInv, NEW p \in Slots, Commit(p)
  PROVE  MemInv'
<1>0. PICK j : j = job[p]
  OBVIOUS
<1> DEFINE stack == j.end \div PGSIZE - 1
<1> DEFINE guard == stack - 1
<1> DEFINE map   == new[p].map
<1> DEFINE f == [v \in DOMAIN map |-> [map[v] EXCEPT !.user = v # guard /\ map[v].user]]
<1>1. /\ call[p] = "grow" /\ ~ halted /\ j.op = "exec" /\ Finished(p)
      /\ j.seg > Len(j.prog.segs) /\ UNCHANGED short
  BY <1>0 DEF Commit, At
<1>2. ~ short => /\ stack \in DOMAIN map /\ ~ Missing(new[p], stack) /\ ~ Missing(new[p], guard)
                 /\ DOMAIN map = 0..(PGROUNDUP(j.end) - 1)
  BY <1>0, <1>1, StackIs
<1>3. CASE Missing(new[p], guard) \/ Missing(new[p], stack)
  <2>1. halted' = TRUE /\ UNCHANGED <<free, mem, kstack, pgdir, sz, call, new, job>>
    BY <1>0, <1>3 DEF Commit
  <2>2. short
    BY <1>2, <1>3
  <2> QED BY <1>1, <2>1, <2>2, PanicKeeps
<1>4. CASE ~ (Missing(new[p], guard) \/ Missing(new[p], stack))
           /\ (~ j.prog.fits \/ stack \notin DOMAIN new[p].map)
  <2>1. Fail(p, All(new[p])) /\ UNCHANGED <<pgdir, sz, halted>>
    BY <1>0, <1>4 DEF Commit
  <2> QED BY <1>0, <1>1, <2>1, ExecAt, FailAll
<1>5. CASE ~ (Missing(new[p], guard) \/ Missing(new[p], stack))
           /\ ~ (~ j.prog.fits \/ stack \notin DOMAIN new[p].map)
  <2>1. PICK t : t = [new[p] EXCEPT !.map = f]
    OBVIOUS
  <2>2. PICK e : e = j.end
    OBVIOUS
  <2>3. /\ free' = free \cup All(pgdir[p]) /\ DOMAIN mem' = DOMAIN mem
        /\ pgdir' = [pgdir EXCEPT ![p] = t] /\ sz' = [sz EXCEPT ![p] = e]
        /\ call' = [call EXCEPT ![p] = "user"] /\ new' = [new EXCEPT ![p] = NoSpace]
        /\ job' = [job EXCEPT ![p] = NoJob] /\ UNCHANGED <<kstack, halted, short>>
    BY <1>0, <1>5, <2>1, <2>2 DEF Commit, GoTo
  <2>4. /\ pgdir[p] \in SpaceType /\ new[p] \in SpaceType /\ InOnce(new[p])
        /\ e \in Nat /\ e < KERNBASE /\ job[p].page = 0
    BY <1>0, <1>1, <2>2, SlotIs, ExecAt
  <2>5. f \in [DOMAIN map -> EntryType] /\ \A v \in DOMAIN map : f[v].page = map[v].page
    <3>1. ASSUME NEW v \in DOMAIN map
          PROVE  f[v] \in EntryType /\ f[v].page = map[v].page
      <4>1. map[v] \in EntryType
        <5>1. map \in Maps(EntryType)
          BY <2>4, SpaceIs
        <5> QED BY <3>1, <5>1, MapsAre
      <4>2. PICK m \in EntryType : m = map[v]
        BY <4>1
      <4>3. f[v] = [m EXCEPT !.user = v # guard /\ m.user]
        BY <3>1, <4>2
      <4>4. PICK b \in BOOLEAN : b = (v # guard /\ m.user)
        BY DEF EntryType
      <4>5. f[v] = [m EXCEPT !.user = b]
        BY <4>3, <4>4
      <4> QED BY <4>2, <4>5 DEF EntryType
    <3> QED BY <3>1
  <2> HIDE DEF f
  <2>6. /\ t \in SpaceType /\ t.tabs = new[p].tabs /\ DOMAIN t.map = DOMAIN map /\ InOnce(t)
        /\ \A h : Within(t, h) <=> Within(new[p], h)
    BY <2>1, <2>4, <2>5, ImageIs
  <2> HIDE DEF stack, guard, map
  <2>7. /\ pgdir \in [Slots -> SpaceType] /\ call \in [Slots -> MemPcs]
        /\ new \in [Slots -> SpaceType] /\ job \in [Slots -> JobType]
        /\ sz \in [Slots -> 0..(KERNBASE - 1)]
    BY DEF MemInv, MemTyped
  <2>8. /\ pgdir'[p] = t /\ new'[p] = NoSpace /\ job'[p] = NoJob /\ call'[p] = "user"
        /\ sz'[p] = e /\ \A r \in Slots \ {p} : SameSlot(r)
    BY <2>3, <2>7 DEF SameSlot
  <2>9. /\ \A g : Owns(FreeList, g) <=> g \in free
        /\ \A g : Owns(FreeList, g)' <=> g \in free \/ g \in All(pgdir[p])
        /\ \A g : Owns(Own(p), g) <=> Within(pgdir[p], g)
        /\ \A g : Owns(Own(p), g)' <=> Within(new[p], g)
        /\ \A g : Owns(New(p), g) <=> Within(new[p], g)
        /\ \A g : ~ Owns(New(p), g)'
        /\ \A g : ~ Owns(Hand(p), g)' /\ ~ Owns(Hand(p), g)
        /\ \A g : Owns(Stack(p), g)' <=> Owns(Stack(p), g)
    BY <2>3, <2>4, <2>6, <2>8, NoJobIs, NoSpaceWhole, OwnsIs, OwnsNext
  <2>10. FreeList \in Owners /\ Own(p) \in Owners /\ New(p) \in Owners
    BY OwnersAre
  <2>11. ASSUME NEW o \in Owners, NEW g, o \notin {FreeList, Own(p), New(p)}
         PROVE  Owns(o, g)' <=> Owns(o, g)
    <3>1. PICK r \in Slots : o = Stack(r) \/ o = Hand(r) \/ o = Own(r) \/ o = New(r)
      BY <2>11, OwnersAre
    <3>2. CASE r # p
      BY <3>1, <3>2, <2>8, OthersOwn
    <3>3. CASE r = p
      BY <2>11, <3>1, <3>3, <2>9
    <3> QED BY <3>2, <3>3
  <2>12. OneOwner' /\ NoneMore'
    <3>1. \A g \in Nat : Owns(FreeList, g)' => Owns(FreeList, g) \/ Owns(Own(p), g)
      BY <2>4, <2>9, AllIs
    <3>2. FreeList # New(p) /\ Own(p) # New(p)
      BY OwnersApart
    <3>3. OneOwner /\ NoneMore
      BY SlotIs
    <3> QED BY <2>3, <2>9, <2>10, <2>11, <3>1, <3>2, <3>3, Handed
  <2>13. ~ short' => NoneLost'
    <3> HAVE ~ short'
    <3>1. DOMAIN mem \subseteq Nat /\ NoneLost /\ NoneMore /\ Whole(pgdir[p])
      BY <2>3, SlotIs DEF PageNos
    <3>2. ASSUME NEW o \in Owners, NEW g \in Nat, Owns(o, g)
          PROVE  \E r \in Owners : Owns(r, g)'
      <4>1. CASE o = FreeList
        BY <3>2, <4>1, <2>9, <2>10
      <4>2. CASE o = Own(p)
        <5>1. g \in All(pgdir[p])
          BY <3>1, <3>2, <4>2, <2>4, <2>9, AllIs
        <5> QED BY <5>1, <2>9, <2>10
      <4>3. CASE o = New(p)
        BY <3>2, <4>3, <2>9, <2>10
      <4>4. CASE o \notin {FreeList, Own(p), New(p)}
        BY <3>2, <4>4, <2>11
      <4> QED BY <4>1, <4>2, <4>3, <4>4
    <3> QED BY <2>3, <3>1, <3>2, AllKept
  <2>14. MemTyped'
    <3>1. free' \subseteq DOMAIN mem
      <4> SUFFICES ASSUME NEW g \in free'
                   PROVE  g \in DOMAIN mem
        OBVIOUS
      <4>1. CASE g \in free
        BY <4>1, SlotIs
      <4>2. CASE g \in All(pgdir[p])
        <5>1. g \in Nat /\ Owns(Own(p), g)
          BY <4>2, <2>4, <2>9, AllIs
        <5> QED BY <5>1, <2>10, SlotIs DEF NoneMore
      <4> QED BY <2>3, <4>1, <4>2
    <3>2. /\ pgdir' \in [Slots -> SpaceType] /\ call' \in [Slots -> MemPcs]
          /\ new' \in [Slots -> SpaceType] /\ job' \in [Slots -> JobType]
      BY <2>3, <2>6, <2>7, NoSpaceIs, NoJobIs DEF MemPcs
    <3>3. sz' \in [Slots -> 0..(KERNBASE - 1)]
      <4>1. e \in 0..(KERNBASE - 1)
        BY <2>4, MemConstants
      <4> QED BY <2>3, <2>7, <4>1
    <3> QED BY <2>3, <3>1, <3>2, <3>3 DEF MemInv, MemTyped
  <2>15. LocalOK(p)'
    <3>1. PlaceOK(p)'
      <4>1. kstack'[p] = kstack[p] /\ kstack[p] # 0
        BY <1>1, <2>3, SlotIs DEF PlaceOK
      <4> QED BY <2>8, <4>1, NoJobIs DEF PlaceOK
    <3>2. ChildOK(p)'
      BY <2>8, NoJobIs DEF ChildOK
    <3>3. InOnce(pgdir[p])' /\ InOnce(new[p])'
      BY <2>6, <2>8, NoSpaceWhole, SpacesNext
    <3> QED BY <3>1, <3>2, <3>3 DEF LocalOK
  <2>16. ASSUME ~ short
         PROVE  HereOK(p)'
    <3>1. Whole(t)
      <4>1. Whole(new[p])
        BY <2>16, SlotIs
      <4> QED BY <4>1, <2>6 DEF Whole, map
    <3>2. Whole(pgdir[p])' /\ Whole(new[p])'
      BY <2>6, <2>8, <3>1, NoSpaceWhole, SpacesNext
    <3>3. DOMAIN t.map = 0..(PGROUNDUP(e) - 1)
      BY <1>2, <2>2, <2>6, <2>16
    <3>4. SizeOK(p)'
      BY <2>8, <3>3, NoJobIs DEF SizeOK
    <3> QED BY <3>2, <3>4 DEF HereOK
  <2>17. job'[p].child = 0
    BY <2>8, NoJobIs
  <2> QED BY <1>1, <2>3, <2>8, <2>12, <2>13, <2>14, <2>15, <2>16, <2>17, SlotIs, MemStep
<1> QED BY <1>3, <1>4, <1>5
LEMMA ForkedKeeps ==
  ASSUME MemInv, NEW p \in Slots, Forked(p)
  PROVE  MemInv'
<1>0. PICK q : q = job[p].child
  OBVIOUS
<1>1. PICK t : t = new[p]
  OBVIOUS
<1>2. PICK e : e = sz[p]
  OBVIOUS
<1>3. /\ call[p] = "copy" /\ ~ halted /\ Finished(p)
      /\ pgdir' = [pgdir EXCEPT ![q] = t] /\ new' = [new EXCEPT ![p] = NoSpace]
      /\ sz' = [sz EXCEPT ![q] = e] /\ call' = [call EXCEPT ![p] = "user", ![q] = "user"]
      /\ job' = [job EXCEPT ![p] = NoJob] /\ UNCHANGED <<free, mem, kstack, short, halted>>
  BY <1>0, <1>1, <1>2 DEF Forked, At
<1>4. /\ job[p].op = "fork" /\ job[p].end = e /\ job[p].page = 0 /\ kstack[p] # 0
      /\ e \in 0..(KERNBASE - 1) /\ t \in SpaceType /\ InOnce(t)
  BY <1>1, <1>2, <1>3, SlotIs DEF PlaceOK
<1>5. q \in Slots /\ call[q] = "embryo" /\ q # p
  BY <1>0, <1>3, <1>4, SlotIs DEF ChildOK
<1>6. pgdir[q] = NoSpace /\ new[q] = NoSpace /\ job[q] = NoJob /\ kstack[q] # 0
  BY <1>5, SlotIs DEF PlaceOK
<1>7. /\ pgdir \in [Slots -> SpaceType] /\ call \in [Slots -> MemPcs]
      /\ new \in [Slots -> SpaceType] /\ job \in [Slots -> JobType]
      /\ sz \in [Slots -> 0..(KERNBASE - 1)]
  BY DEF MemInv, MemTyped
<1>8. /\ pgdir'[p] = pgdir[p] /\ new'[p] = NoSpace /\ job'[p] = NoJob /\ call'[p] = "user"
      /\ sz'[p] = e /\ kstack'[p] = kstack[p]
  BY <1>2, <1>3, <1>5, <1>7
<1>9. /\ pgdir'[q] = t /\ new'[q] = NoSpace /\ job'[q] = NoJob /\ call'[q] = "user"
      /\ sz'[q] = e /\ kstack'[q] = kstack[q]
  BY <1>3, <1>5, <1>6, <1>7
<1>10. \A r \in Slots \ {p, q} : SameSlot(r)
  BY <1>3, <1>7 DEF SameSlot
<1>11. /\ \A g : Owns(New(p), g) <=> Within(t, g)
       /\ \A g : Owns(Own(q), g)' <=> Within(t, g)
       /\ \A g : ~ Owns(New(p), g)' /\ ~ Owns(Own(q), g)
       /\ \A g : ~ Owns(Hand(p), g)' /\ ~ Owns(Hand(p), g)
       /\ \A g : ~ Owns(New(q), g)' /\ ~ Owns(New(q), g)
       /\ \A g : ~ Owns(Hand(q), g)' /\ ~ Owns(Hand(q), g)
  BY <1>1, <1>4, <1>6, <1>8, <1>9, NoJobIs, NoSpaceWhole, OwnsIs, OwnsNext
<1>12. ASSUME NEW o, o \in {FreeList, Stack(p), Own(p), Stack(q)}
       PROVE  \A g : Owns(o, g)' <=> Owns(o, g)
  BY <1>3, <1>8, <1>9, <1>12, OwnsIs, OwnsNext
<1>13. Own(q) \in Owners /\ New(p) \in Owners
  BY <1>5, OwnersAre
<1>14. OneOwner' /\ NoneMore' /\ (~ short' => NoneLost')
  <2>1. \A o \in Few(p, q), g \in Nat : o # Own(q) /\ Owns(o, g)' => Owns(o, g)
    BY <1>11, <1>12 DEF Few
  <2>2. \A g \in Nat : Owns(Own(q), g)' => \E x \in Owners : Owns(x, g) /\ ~ Owns(x, g)'
    BY <1>11, <1>13
  <2>3. ASSUME NEW o \in Few(p, q), NEW g \in Nat, Owns(o, g)
        PROVE  \E r \in Owners : Owns(r, g)'
    <3>1. CASE o = New(p)
      BY <2>3, <3>1, <1>11, <1>13
    <3>2. CASE o # New(p)
      <4>1. o \in {FreeList, Stack(p), Own(p), Stack(q)}
        BY <2>3, <3>2, <1>11 DEF Few
      <4>2. Owns(o, g)'
        BY <2>3, <4>1, <1>12
      <4> QED BY <4>1, <4>2, <1>5, OwnersAre
    <3> QED BY <3>1, <3>2
  <2> QED BY <2>1, <2>2, <2>3, <1>3, <1>5, <1>10, <1>13, FewMove
<1>15. MemTyped'
  <2>1. /\ pgdir' \in [Slots -> SpaceType] /\ call' \in [Slots -> MemPcs]
        /\ new' \in [Slots -> SpaceType] /\ job' \in [Slots -> JobType]
    BY <1>3, <1>4, <1>7, NoSpaceIs, NoJobIs DEF MemPcs
  <2>2. sz' \in [Slots -> 0..(KERNBASE - 1)]
    BY <1>3, <1>4, <1>7
  <2> QED BY <1>3, <2>1, <2>2 DEF MemInv, MemTyped
<1>16. LocalOK(p)' /\ LocalOK(q)'
  <2>1. PlaceOK(p)' /\ PlaceOK(q)'
    BY <1>4, <1>6, <1>8, <1>9, NoJobIs DEF PlaceOK
  <2>2. ChildOK(p)' /\ ChildOK(q)'
    BY <1>8, <1>9, NoJobIs DEF ChildOK
  <2>3. InOnce(pgdir[p])' /\ InOnce(new[p])'
    BY <1>8, NoSpaceWhole, SlotIs, SpacesNext
  <2>4. InOnce(pgdir[q])' /\ InOnce(new[q])'
    BY <1>4, <1>9, NoSpaceWhole, SpacesNext
  <2> QED BY <2>1, <2>2, <2>3, <2>4 DEF LocalOK
<1>17. ASSUME ~ short
       PROVE  HereOK(p)' /\ HereOK(q)'
  <2>1. Whole(pgdir[p]) /\ Whole(t) /\ SizeOK(p)
    BY <1>1, <1>17, SlotIs
  <2>2. Whole(pgdir[p])' /\ Whole(new[p])'
    BY <2>1, <1>8, NoSpaceWhole, SlotIs, SpacesNext
  <2>3. Whole(pgdir[q])' /\ Whole(new[q])'
    BY <2>1, <1>4, <1>9, NoSpaceWhole, SpacesNext
  <2>4. Space(p) = t
    BY <1>1, <1>4 DEF Space
  <2>5. /\ DOMAIN pgdir[p].map = 0..(PGROUNDUP(e) - 1)
        /\ DOMAIN t.map = 0..(job[p].a - 1) /\ job[p].a <= PGROUNDUP(e)
    BY <1>2, <1>3, <1>4, <2>1, <2>4 DEF SizeOK
  <2>6. job[p].a = PGROUNDUP(e)
    <3>1. PGROUNDUP(e) \in Nat /\ job[p].a \in Nat /\ PGROUNDUP(e) <= job[p].a
      BY <1>3, <1>4, FinishedIs
    <3> QED BY <2>5, <3>1
  <2>7. SizeOK(p)'
    BY <1>8, <2>5, NoJobIs DEF SizeOK
  <2>8. SizeOK(q)'
    BY <1>9, <2>5, <2>6, NoJobIs DEF SizeOK
  <2> QED BY <2>2, <2>3, <2>7, <2>8 DEF HereOK
<1>18. job'[p].child = 0 /\ job'[q].child = 0
  BY <1>8, <1>9, NoJobIs
<1> QED BY <1>0, <1>3, <1>5, <1>10, <1>14, <1>15, <1>16, <1>17, <1>18, SlotIs, MemStep

\* sbrk with a negative argument.
LEMMA SbrkLessKeeps ==
  ASSUME MemInv, NEW p \in Slots, NEW n \in Sbrks, SbrkLess(p, n)
  PROVE  MemInv'
<1>1. PICK z : z = (sz[p] + n) % UINT
  OBVIOUS
<1>2. PICK s : s = pgdir[p]
  OBVIOUS
<1>3. PICK S : S = Visited(s, z, sz[p])
  OBVIOUS
<1>4. PICK t : t = Unmapped(s, S)
  OBVIOUS
<1>5. PICK e : e = IF z = 0 THEN sz[p] ELSE z
  OBVIOUS
<1>6. PICK c : c = IF z = 0 THEN "fault" ELSE "user"
  OBVIOUS
<1>7. pgdir \in [Slots -> SpaceType] /\ sz \in [Slots -> 0..(KERNBASE - 1)]
  BY DEF MemInv, MemTyped
<1>8. /\ call[p] = "user" /\ ~ halted /\ z < sz[p]
      /\ free' = free \cup Behind(s, S) /\ DOMAIN mem' = DOMAIN mem
      /\ pgdir' = [pgdir EXCEPT ![p] = t] /\ sz' = [sz EXCEPT ![p] = e]
      /\ call' = [call EXCEPT ![p] = c] /\ UNCHANGED <<kstack, new, job, short, halted>>
  BY <1>1, <1>2, <1>3, <1>4, <1>5, <1>6, <1>7 DEF SbrkLess, At, GoTo, Kfree
<1>9. z \in Nat /\ z <= KERNBASE /\ sz[p] \in Nat /\ sz[p] <= KERNBASE /\ KERNBASE \in Nat
  <2>1. KERNBASE \in Nat /\ KERNBASE > 0 /\ sz[p] \in 0..(KERNBASE - 1) /\ n \in Int
    BY SlotIs, MemConstants, MemoryAssumption
  <2>2. UINT \in Nat \ {0} /\ sz[p] + n \in Int
    BY <2>1 DEF UINT
  <2>3. z \in 0..(UINT - 1)
    BY <1>1, <2>2, Division
  <2> QED BY <1>8, <2>1, <2>2, <2>3
<1>10. /\ s \in SpaceType /\ InOnce(s) /\ new[p] = NoSpace /\ job[p] = NoJob /\ kstack[p] # 0
       /\ call \in [Slots -> MemPcs]
  BY <1>2, <1>8, UserIs, SlotIs DEF PlaceOK, MemTyped
<1>11. S \in SUBSET DOMAIN s.map
  BY <1>3, VisitedIn
<1>12. /\ t \in SpaceType /\ t.tabs = s.tabs /\ DOMAIN t.map = DOMAIN s.map \ S /\ InOnce(t)
       /\ \A h \in Nat : Within(t, h) => Within(s, h)
       /\ \A h \in Nat : Within(s, h) => Within(t, h) \/ h \in Behind(s, S)
       /\ \A h \in Nat : h \in Behind(s, S) => ~ Within(t, h)
  BY <1>4, <1>10, <1>11, UnmappedIs
<1>13. \A h \in Behind(s, S) : h \in Nat /\ Within(s, h)
  BY <1>10, <1>11, BehindIs
<1>14. /\ pgdir'[p] = t /\ new'[p] = NoSpace /\ job'[p] = NoJob /\ call'[p] = c /\ sz'[p] = e
       /\ kstack'[p] = kstack[p] /\ \A r \in Slots \ {p} : SameSlot(r)
  BY <1>7, <1>8, <1>10 DEF SameSlot
<1>15. /\ \A g : Owns(FreeList, g) <=> g \in free
       /\ \A g : Owns(FreeList, g)' <=> g \in free \/ g \in Behind(s, S)
       /\ \A g : Owns(Own(p), g) <=> Within(s, g)
       /\ \A g : Owns(Own(p), g)' <=> Within(t, g)
       /\ \A g : ~ Owns(New(p), g)' /\ ~ Owns(New(p), g)
       /\ \A g : ~ Owns(Hand(p), g)' /\ ~ Owns(Hand(p), g)
       /\ \A g : Owns(Stack(p), g)' <=> Owns(Stack(p), g)
  BY <1>2, <1>8, <1>10, <1>14, NoJobIs, NoSpaceWhole, OwnsIs, OwnsNext
<1>16. FreeList \in Owners /\ Own(p) \in Owners /\ Stack(p) \in Owners
  BY OwnersAre
<1>17. OneOwner' /\ NoneMore' /\ (~ short' => NoneLost')
  <2>1. \A o \in Few(p, p), g \in Nat : o # FreeList /\ Owns(o, g)' => Owns(o, g)
    BY <1>12, <1>15 DEF Few
  <2>2. \A g \in Nat : Owns(FreeList, g)' =>
          Owns(FreeList, g) \/ \E x \in Owners : Owns(x, g) /\ ~ Owns(x, g)'
    BY <1>12, <1>13, <1>15, <1>16
  <2>3. ASSUME NEW o \in Few(p, p), NEW g \in Nat, Owns(o, g)
        PROVE  \E r \in Owners : Owns(r, g)'
    <3>1. Owns(FreeList, g)' \/ Owns(Own(p), g)' \/ Owns(Stack(p), g)'
      BY <2>3, <1>12, <1>15 DEF Few
    <3> QED BY <3>1, <1>16
  <2> QED BY <2>1, <2>2, <2>3, <1>8, <1>14, <1>16, FewMove
<1>18. MemTyped'
  <2>1. free' \subseteq DOMAIN mem
    <3> SUFFICES ASSUME NEW g \in free'
                 PROVE  g \in DOMAIN mem
      OBVIOUS
    <3>1. CASE g \in free
      BY <3>1, SlotIs
    <3>2. CASE g \in Behind(s, S)
      <4>1. g \in Nat /\ Owns(Own(p), g)
        BY <3>2, <1>13, <1>15
      <4> QED BY <4>1, <1>16, SlotIs DEF NoneMore
    <3> QED BY <1>8, <3>1, <3>2
  <2>2. pgdir' \in [Slots -> SpaceType] /\ call' \in [Slots -> MemPcs]
    BY <1>6, <1>7, <1>8, <1>10, <1>12 DEF MemPcs
  <2>3. sz' \in [Slots -> 0..(KERNBASE - 1)]
    <3>1. e \in 0..(KERNBASE - 1)
      <4>1. sz[p] \in 0..(KERNBASE - 1)
        BY <1>7
      <4> QED BY <1>5, <1>8, <1>9, <4>1
    <3> QED BY <1>7, <1>8, <3>1
  <2> QED BY <1>8, <2>1, <2>2, <2>3 DEF MemInv, MemTyped
<1>19. LocalOK(p)'
  <2>1. PlaceOK(p)'
    BY <1>6, <1>10, <1>14, NoJobIs DEF PlaceOK
  <2>2. ChildOK(p)'
    BY <1>14, NoJobIs DEF ChildOK
  <2>3. InOnce(pgdir[p])' /\ InOnce(new[p])'
    BY <1>12, <1>14, NoSpaceWhole, SpacesNext
  <2> QED BY <2>1, <2>2, <2>3 DEF LocalOK
<1>20. ASSUME ~ short
       PROVE  HereOK(p)'
  <2>1. Whole(s) /\ DOMAIN s.map = 0..(PGROUNDUP(sz[p]) - 1)
    BY <1>2, <1>8, <1>20, SlotIs DEF SizeOK
  <2>2. Whole(t)
    BY <1>12, <2>1 DEF Whole
  <2>3. Whole(pgdir[p])' /\ Whole(new[p])'
    BY <1>12, <1>14, <2>2, NoSpaceWhole, SpacesNext
  <2>4. S = {v \in DOMAIN s.map : PGROUNDUP(z) <= v /\ v * PGSIZE < sz[p]}
    BY <1>3, <1>9, <1>10, <2>1, VisitedIs
  <2>5. /\ PGROUNDUP(sz[p]) \in Nat /\ PGROUNDUP(z) \in Nat
        /\ \A v \in Nat : v < PGROUNDUP(sz[p]) <=> v * PGSIZE < sz[p]
        /\ PGROUNDUP(z) <= PGROUNDUP(sz[p])
    BY <1>8, <1>9, RoundIs, RoundOrder
  <2>6. DOMAIN t.map = 0..(PGROUNDUP(z) - 1)
    <3>1. \A v \in DOMAIN s.map : v \in S <=> PGROUNDUP(z) <= v
      BY <2>1, <2>4, <2>5
    <3> QED BY <1>12, <2>1, <2>5, <3>1
  <2>7. SizeOK(p)'
    <3>1. CASE z = 0
      BY <1>6, <1>14, <3>1, NoJobIs DEF SizeOK
    <3>2. CASE z # 0
      <4>1. sz'[p] = z
        BY <1>5, <1>14, <3>2
      <4>2. DOMAIN pgdir'[p].map = 0..(PGROUNDUP(sz'[p]) - 1)
        BY <1>14, <2>6, <4>1
      <4>3. call'[p] = "user" /\ job'[p].op = "none"
        BY <1>6, <1>14, <3>2, NoJobIs
      <4> QED BY <4>2, <4>3 DEF SizeOK
    <3> QED BY <3>1, <3>2
  <2> QED BY <2>3, <2>7 DEF HereOK
<1>21. job'[p].child = 0
  BY <1>14, NoJobIs
<1> QED BY <1>8, <1>14, <1>17, <1>18, <1>19, <1>20, <1>21, SlotIs, MemStep
\* userinit.
LEMMA FirstSpaceIs ==
  /\ FirstSpace \in SpaceType /\ InOnce(FirstSpace) /\ Whole(FirstSpace)
  /\ DOMAIN FirstSpace.map = {0} /\ FirstTable \in Nat /\ FirstTable >= 4
  /\ \A g \in Nat : Within(FirstSpace, g) <=> g \in 2..(FirstTable + 1)
<1>1. KTabs \in Nat /\ FirstTable = 3 + KTabs /\ FirstTable \in Nat /\ FirstTable >= 4
  BY MemConstants DEF FirstTable
<1>2. PICK tabs : tabs = Put(NoMap, 0, FirstTable)
  OBVIOUS
<1>3. PICK e : e = [page |-> FirstTable + 1, user |-> TRUE]
  OBVIOUS
<1>4. PICK map : map = Put(NoMap, 0, e)
  OBVIOUS
<1>5. PICK ktabs : ktabs = 3..(2 + KTabs)
  OBVIOUS
<1>6. PICK s : s = [dir |-> 2, ktabs |-> ktabs, tabs |-> tabs, map |-> map]
  OBVIOUS
<1>7. s = FirstSpace
  BY <1>2, <1>3, <1>4, <1>5, <1>6 DEF FirstSpace
<1>8. FirstTable \in PageNos /\ e \in EntryType /\ e.page = FirstTable + 1
  BY <1>1, <1>3 DEF PageNos, EntryType
<1>9. tabs \in Maps(PageNos) /\ DOMAIN tabs = {0} /\ tabs[0] = FirstTable
  <2>1. Puts(PageNos, NoMap, 0, FirstTable, tabs)
    BY <1>2, <1>8, NoSpaceIs, PutIs
  <2> QED BY <2>1, NoSpaceIs DEF Puts
<1>10. map \in Maps(EntryType) /\ DOMAIN map = {0} /\ map[0] = e
  <2>1. Puts(EntryType, NoMap, 0, e, map)
    BY <1>4, <1>8, NoSpaceIs, PutIs
  <2> QED BY <2>1, NoSpaceIs DEF Puts
<1>11. ktabs \in SUBSET PageNos /\ \A g : g \in ktabs <=> g \in Nat /\ 3 <= g /\ g <= 2 + KTabs
  BY <1>1, <1>5 DEF PageNos
<1>12. s \in SpaceType /\ s.dir = 2 /\ s.ktabs = ktabs /\ s.tabs = tabs /\ s.map = map
  BY <1>6, <1>9, <1>10, <1>11 DEF SpaceType
<1>13. ASSUME NEW g \in Nat, NEW k \in Int
       PROVE  In(s, g, k) <=> \/ k = -1 /\ g = 2
                              \/ k = -2 /\ 3 <= g /\ g <= 2 + KTabs
                              \/ k = -3 /\ g = FirstTable
                              \/ k = 0 /\ g = FirstTable + 1
  <2>1. -3 - k = 0 <=> k = -3
    OBVIOUS
  <2>2. -3 - k \in {0} /\ g = tabs[-3 - k] <=> k = -3 /\ g = FirstTable
    BY <1>9, <2>1
  <2>3. k \in {0} /\ g = map[k].page <=> k = 0 /\ g = FirstTable + 1
    BY <1>8, <1>10
  <2> QED BY <1>9, <1>10, <1>11, <1>12, <2>1, <2>2, <2>3 DEF In
<1>14. \A g \in Nat : Within(s, g) <=> g \in 2..(FirstTable + 1)
  <2>1. ASSUME NEW g \in Nat, g \in 2..(FirstTable + 1)
        PROVE  \E k \in Int : In(s, g, k)
    <3>1. g = 2 \/ (3 <= g /\ g <= 2 + KTabs) \/ g = FirstTable \/ g = FirstTable + 1
      BY <1>1, <2>1
    <3>2. -1 \in Int /\ -2 \in Int /\ -3 \in Int /\ 0 \in Int
      OBVIOUS
    <3> QED BY <1>13, <3>1, <3>2
  <2>2. ASSUME NEW g \in Nat, NEW k \in Int, In(s, g, k)
        PROVE  g \in 2..(FirstTable + 1)
    BY <1>1, <1>13, <2>2
  <2> QED BY <2>1, <2>2 DEF Within
<1>15. InOnce(s)
  <2> SUFFICES ASSUME NEW g \in Nat, NEW k \in Int, NEW m \in Int, In(s, g, k), In(s, g, m)
               PROVE  k = m
    BY DEF InOnce
  <2> QED BY <1>1, <1>13
<1>16. Whole(s)
  <2>1. PDX(0) = 0
    <3> DEFINE z == 0
    <3>1. NPT \in Nat \ {0} /\ z \in Int /\ z \in 0..(NPT - 1) /\ z = NPT * z + z
      BY MemConstants
    <3> HIDE DEF z
    <3>2. z \div NPT = z
      BY <3>1, DivisionIs
    <3> QED BY <3>2 DEF PDX, z
  <2>2. 0 * PGSIZE < KERNBASE
    BY MemConstants
  <2> QED BY <1>9, <1>10, <1>12, <2>1, <2>2 DEF Whole
<1> QED BY <1>1, <1>7, <1>10, <1>12, <1>14, <1>15, <1>16

LEMMA InitMem == MemInit => MemInv
<1> SUFFICES ASSUME MemInit
             PROVE  MemInv
  OBVIOUS
<1>1. PICK n \in Sizes : free = (FirstTable + 2)..n /\ DOMAIN mem = 1..n
  BY DEF MemInit
<1>2. PICK s : s = FirstSpace
  OBVIOUS
<1>3. /\ s \in SpaceType /\ InOnce(s) /\ Whole(s) /\ DOMAIN s.map = {0}
      /\ FirstTable \in Nat /\ FirstTable >= 4
      /\ \A g \in Nat : Within(s, g) <=> g \in 2..(FirstTable + 1)
  BY <1>2, FirstSpaceIs
<1>4. n \in Nat /\ n >= FirstTable + 1
  BY MemoryAssumption DEF FirstTable
<1>5. Init1 \in Slots /\ \A p \in Slots : p \in Nat /\ p # 0
  BY MemConstants
<1>6. /\ kstack = [p \in Slots |-> IF p = Init1 THEN 1 ELSE 0]
      /\ pgdir = [p \in Slots |-> IF p = Init1 THEN s ELSE NoSpace]
      /\ sz = [p \in Slots |-> IF p = Init1 THEN PGSIZE ELSE 0]
      /\ call = [p \in Slots |-> IF p = Init1 THEN "user" ELSE "unused"]
      /\ new = [p \in Slots |-> NoSpace]
      /\ job = [p \in Slots |-> NoJob]
      /\ short = FALSE /\ halted = FALSE
  BY <1>2 DEF MemInit
<1>7. MemTyped
  <2>1. DOMAIN mem \subseteq PageNos /\ free \subseteq DOMAIN mem
    BY <1>1, <1>3, <1>4 DEF PageNos
  <2>2. PGSIZE \in 0..(KERNBASE - 1) /\ 0 \in 0..(KERNBASE - 1)
    BY MemoryAssumption
  <2>3. kstack \in [Slots -> Nat] /\ sz \in [Slots -> 0..(KERNBASE - 1)]
    BY <1>6, <2>2
  <2>4. pgdir \in [Slots -> SpaceType] /\ new \in [Slots -> SpaceType]
    BY <1>3, <1>6, NoSpaceIs
  <2>5. call \in [Slots -> MemPcs] /\ job \in [Slots -> JobType]
    BY <1>6, NoJobIs DEF MemPcs
  <2> QED BY <1>6, <2>1, <2>3, <2>4, <2>5 DEF MemTyped
<1>8. OneParent
  BY <1>6, NoJobIs DEF OneParent
<1>9. ASSUME NEW p \in Slots, NEW g \in Nat
      PROVE  /\ ~ Owns(Hand(p), g) /\ ~ Owns(New(p), g)
             /\ Owns(Stack(p), g) => p = Init1 /\ g = 1
             /\ Owns(Own(p), g) => p = Init1 /\ g \in 2..(FirstTable + 1)
  BY <1>3, <1>6, NoJobIs, NoSpaceWhole, OwnsIs
<1>10. \A g \in Nat : Owns(FreeList, g) <=> g \in (FirstTable + 2)..n
  BY <1>1, OwnsIs
<1>11. ASSUME NEW o \in Owners, NEW g \in Nat, Owns(o, g)
       PROVE  \/ o = FreeList /\ g \in (FirstTable + 2)..n
              \/ o = Stack(Init1) /\ g = 1
              \/ o = Own(Init1) /\ g \in 2..(FirstTable + 1)
  <2>1. CASE o = FreeList
    BY <2>1, <1>10, <1>11
  <2>2. CASE o # FreeList
    <3>1. PICK p \in Slots : o = Stack(p) \/ o = Hand(p) \/ o = Own(p) \/ o = New(p)
      BY <2>2, OwnersAre
    <3> QED BY <3>1, <1>9, <1>11
  <2> QED BY <2>1, <2>2
<1>12. OneOwner
  <2> SUFFICES ASSUME NEW o \in Owners, NEW r \in Owners, NEW g \in Nat, Owns(o, g), Owns(r, g)
               PROVE  o = r
    BY DEF OneOwner
  <2> QED BY <1>3, <1>4, <1>11
<1>13. NoneMore
  <2> SUFFICES ASSUME NEW g \in Nat, NEW o \in Owners, Owns(o, g)
               PROVE  g \in DOMAIN mem
    BY DEF NoneMore
  <2> QED BY <1>1, <1>3, <1>4, <1>11
<1>14. NoneLost
  <2> SUFFICES ASSUME NEW g \in DOMAIN mem
               PROVE  \E o \in Owners : Owns(o, g)
    BY DEF NoneLost
  <2>1. g \in Nat /\ (g = 1 \/ g \in 2..(FirstTable + 1) \/ g \in (FirstTable + 2)..n)
    BY <1>1, <1>3, <1>4
  <2>2. g = 1 => Owns(Stack(Init1), g)
    BY <1>5, <1>6, OwnsIs
  <2>3. g \in 2..(FirstTable + 1) => Owns(Own(Init1), g)
    BY <1>3, <1>5, <1>6, <2>1, OwnsIs
  <2> QED BY <1>5, <1>10, <2>1, <2>2, <2>3, OwnersAre
<1>15. ASSUME NEW p \in Slots
       PROVE  LocalOK(p) /\ HereOK(p)
  <2>1. new[p] = NoSpace /\ job[p] = NoJob /\ InOnce(new[p]) /\ Whole(new[p])
    BY <1>6, NoSpaceWhole
  <2>2. InOnce(pgdir[p]) /\ Whole(pgdir[p])
    <3>1. pgdir[p] = s \/ pgdir[p] = NoSpace
      BY <1>6
    <3> QED BY <3>1, <1>3, NoSpaceWhole
  <2>3. ChildOK(p)
    BY <2>1, NoJobIs DEF ChildOK
  <2>4. PlaceOK(p)
    <3>1. CASE p = Init1
      BY <2>1, <3>1, <1>5, <1>6, NoJobIs DEF PlaceOK
    <3>2. CASE p # Init1
      BY <2>1, <3>2, <1>6, NoJobIs DEF PlaceOK
    <3> QED BY <3>1, <3>2
  <2>5. SizeOK(p)
    <3>1. CASE p = Init1
      <4>1. PGROUNDUP(PGSIZE) = 1
        <5> DEFINE i == 1
        <5>1. i \in Nat /\ i * PGSIZE = PGSIZE
          BY MemConstants
        <5> HIDE DEF i
        <5>2. PGROUNDUP(PGSIZE) = i
          BY <5>1, RoundWhole
        <5> QED BY <5>2 DEF i
      <4>2. call[p] = "user" /\ sz[p] = PGSIZE /\ pgdir[p] = s
        BY <3>1, <1>5, <1>6
      <4>3. DOMAIN pgdir[p].map = 0..(PGROUNDUP(sz[p]) - 1)
        BY <1>3, <4>1, <4>2
      <4> QED BY <2>1, <4>2, <4>3, NoJobIs DEF SizeOK
    <3>2. CASE p # Init1
      BY <2>1, <3>2, <1>6, NoJobIs DEF SizeOK
    <3> QED BY <3>1, <3>2
  <2> QED BY <2>1, <2>2, <2>3, <2>4, <2>5 DEF LocalOK, HereOK
<1> QED BY <1>6, <1>7, <1>8, <1>12, <1>13, <1>14, <1>15 DEF MemInv
\* Every action, and a step that changes nothing, keeps the invariant.
LEMMA StepMem == MemInv /\ [MemNext]_memVars => MemInv'
<1> SUFFICES ASSUME MemInv, [MemNext]_memVars
             PROVE  MemInv'
  OBVIOUS
<1>1. ASSUME NEW p \in Slots, NEW v \in Stores, NEW x \in MemVals, Write(p, v, x)
      PROVE  MemInv'
  BY <1>1, WriteKeeps
<1>2. ASSUME NEW p \in Slots, NEW n \in Sbrks, SbrkMore(p, n) \/ SbrkLess(p, n)
      PROVE  MemInv'
  BY <1>2, SbrkMoreKeeps, SbrkLessKeeps
<1>3. ASSUME NEW p \in Slots, NEW q \in Slots, Fork(p, q)
      PROVE  MemInv'
  BY <1>3, ForkKeeps
<1>4. ASSUME NEW p \in Slots, NEW prog \in Programs, Exec(p, prog)
      PROVE  MemInv'
  BY <1>4, ExecKeeps
<1>5. ASSUME NEW p \in Slots, Setup(p) \/ Grow(p) \/ GrowTable(p) \/ Grown(p)
      PROVE  MemInv'
  BY <1>5, SetupKeeps, GrowKeeps, GrowTableKeeps, GrownKeeps
<1>6. ASSUME NEW p \in Slots, Copy(p) \/ CopyTable(p) \/ Forked(p)
      PROVE  MemInv'
  BY <1>6, CopyKeeps, CopyTableKeeps, ForkedKeeps
<1>7. ASSUME NEW p \in Slots, Load(p) \/ Commit(p)
      PROVE  MemInv'
  BY <1>7, LoadKeeps, CommitKeeps
<1>8. ASSUME NEW p \in Slots, Exit(p) \/ Reap(p)
      PROVE  MemInv'
  BY <1>8, ExitKeeps, ReapKeeps
<1>9. ASSUME UNCHANGED memVars
      PROVE  MemInv'
  <2>1. UNCHANGED <<free, mem, kstack, pgdir, sz, call, new, job, short, halted>>
    BY <1>9 DEF memVars
  <2>2. \A r \in Slots : SameSlot(r)
    BY <2>1 DEF SameSlot
  <2>3. (OneOwner => OneOwner') /\ (NoneMore => NoneMore') /\ (NoneLost => NoneLost')
    BY <2>1, SameOwners
  <2>4. MemTyped' /\ OneParent'
    BY <2>1 DEF MemInv, MemTyped, OneParent
  <2>5. ASSUME NEW r \in Slots
        PROVE  LocalOK(r)' /\ (HereOK(r) => HereOK(r)')
    <3>1. ChildOK(r)'
      BY <2>1, SlotIs DEF ChildOK
    <3> QED BY <2>2, <3>1, SlotIs, SameSlotIs DEF LocalOK
  <2> QED BY <2>1, <2>3, <2>4, <2>5 DEF MemInv
<1> QED BY <1>1, <1>2, <1>3, <1>4, <1>5, <1>6, <1>7, <1>8, <1>9 DEF MemNext

-----------------------------------------------------------------------------
(* Uses and owners.                                                        *)

LEMMA UsesOfIs ==
  ASSUME NEW s \in SpaceType, NEW p, NEW part
  PROVE  \A u : u \in UsesOf(s, p, part) <=>
                  \E g \in Nat, k \in Int : u = <<g, p, part, k>> /\ In(s, g, k)
<1>1. /\ s.dir \in Nat /\ s.ktabs \subseteq Nat /\ DOMAIN s.tabs \subseteq Nat
      /\ \A i \in DOMAIN s.tabs : s.tabs[i] \in Nat
      /\ DOMAIN s.map \subseteq Nat /\ \A v \in DOMAIN s.map : s.map[v].page \in Nat
  BY SpaceIs DEF PageNos
<1>2. ASSUME NEW u \in UsesOf(s, p, part)
      PROVE  \E g \in Nat, k \in Int : u = <<g, p, part, k>> /\ In(s, g, k)
  <2>1. CASE s.dir # 0 /\ u = <<s.dir, p, part, -1>>
    <3>1. -1 \in Int /\ In(s, s.dir, -1)
      BY <2>1 DEF In
    <3> QED BY <2>1, <3>1, <1>1
  <2>2. CASE \E g \in s.ktabs : u = <<g, p, part, -2>>
    <3>1. PICK g \in s.ktabs : u = <<g, p, part, -2>>
      BY <2>2
    <3>2. -2 \in Int /\ In(s, g, -2)
      BY DEF In
    <3> QED BY <3>1, <3>2, <1>1
  <2>3. CASE \E i \in DOMAIN s.tabs : u = <<s.tabs[i], p, part, -3 - i>>
    <3>1. PICK i \in DOMAIN s.tabs : u = <<s.tabs[i], p, part, -3 - i>>
      BY <2>3
    <3>2. PICK k : k = -3 - i
      OBVIOUS
    <3>3. i \in Nat /\ k \in Int /\ k + 3 <= 0 /\ -3 - k = i
      BY <1>1, <3>2
    <3>4. In(s, s.tabs[i], k)
      BY <3>3 DEF In
    <3> QED BY <3>1, <3>2, <3>3, <3>4, <1>1
  <2>4. CASE \E v \in DOMAIN s.map : u = <<s.map[v].page, p, part, v>>
    <3>1. PICK v \in DOMAIN s.map : u = <<s.map[v].page, p, part, v>>
      BY <2>4
    <3>2. v \in Int /\ In(s, s.map[v].page, v)
      BY <1>1 DEF In
    <3> QED BY <3>1, <3>2, <1>1
  <2> QED BY <2>1, <2>2, <2>3, <2>4 DEF UsesOf
<1>3. ASSUME NEW g \in Nat, NEW k \in Int, In(s, g, k)
      PROVE  <<g, p, part, k>> \in UsesOf(s, p, part)
  <2>1. CASE k = -1 /\ g = s.dir /\ g # 0
    BY <2>1 DEF UsesOf
  <2>2. CASE k = -2 /\ g \in s.ktabs
    BY <2>2 DEF UsesOf
  <2>3. CASE k + 3 <= 0 /\ -3 - k \in DOMAIN s.tabs /\ g = s.tabs[-3 - k]
    <3>1. PICK i \in DOMAIN s.tabs : i = -3 - k
      BY <2>3
    <3>2. k = -3 - i /\ g = s.tabs[i]
      BY <1>1, <2>3, <3>1
    <3> QED BY <3>2 DEF UsesOf
  <2>4. CASE k \in DOMAIN s.map /\ g = s.map[k].page
    BY <2>4 DEF UsesOf
  <2> QED BY <1>3, <2>1, <2>2, <2>3, <2>4 DEF In
<1> QED BY <1>2, <1>3

\* The use of page g by owner o, at place k.
UseOf(o, g, k) ==
  /\ Owns(o, g)
  /\ o[2] \in {"free", "kstack", "hand"} => k = 0
  /\ o[2] = "own" => In(pgdir[o[1]], g, k)
  /\ o[2] = "new" => In(new[o[1]], g, k)

LEMMA UsesAre ==
  ASSUME MemInv
  PROVE  \A u : u \in Uses <=>
           \E o \in Owners, g \in Nat, k \in Int : u = <<g, o[1], o[2], k>> /\ UseOf(o, g, k)
<1>1. free \subseteq Nat
  BY DEF MemInv, MemTyped, PageNos
<1>2. ASSUME NEW u \in Uses
      PROVE  \E o \in Owners, g \in Nat, k \in Int : u = <<g, o[1], o[2], k>> /\ UseOf(o, g, k)
  <2>1. CASE \E g \in free : u = <<g, 0, "free", 0>>
    <3>1. PICK g \in free : u = <<g, 0, "free", 0>>
      BY <2>1
    <3>2. UseOf(FreeList, g, 0) /\ FreeList[1] = 0 /\ FreeList[2] = "free"
      BY DEF UseOf, Owns, FreeList
    <3> QED BY <1>1, <3>1, <3>2, OwnersAre
  <2>2. ASSUME NEW p \in Slots, u = <<kstack[p], p, "kstack", 0>>, u[1] # 0
        PROVE  \E o \in Owners, g \in Nat, k \in Int : u = <<g, o[1], o[2], k>> /\ UseOf(o, g, k)
    <3>1. kstack[p] \in Nat /\ kstack[p] # 0
      BY <2>2, SlotIs
    <3>2. UseOf(Stack(p), kstack[p], 0) /\ Stack(p)[1] = p /\ Stack(p)[2] = "kstack"
      BY <3>1 DEF UseOf, Owns, Stack
    <3> QED BY <2>2, <3>1, <3>2, OwnersAre
  <2>3. ASSUME NEW p \in Slots, u = <<job[p].page, p, "hand", 0>>, u[1] # 0
        PROVE  \E o \in Owners, g \in Nat, k \in Int : u = <<g, o[1], o[2], k>> /\ UseOf(o, g, k)
    <3>1. job[p].page \in Nat /\ job[p].page # 0
      BY <2>3, SlotIs DEF JobType
    <3>2. UseOf(Hand(p), job[p].page, 0) /\ Hand(p)[1] = p /\ Hand(p)[2] = "hand"
      BY <3>1 DEF UseOf, Owns, Hand
    <3> QED BY <2>3, <3>1, <3>2, OwnersAre
  <2>4. ASSUME NEW p \in Slots, u \in UsesOf(pgdir[p], p, "own")
        PROVE  \E o \in Owners, g \in Nat, k \in Int : u = <<g, o[1], o[2], k>> /\ UseOf(o, g, k)
    <3>1. PICK g \in Nat, k \in Int : u = <<g, p, "own", k>> /\ In(pgdir[p], g, k)
      BY <2>4, SlotIs, UsesOfIs
    <3>2. UseOf(Own(p), g, k) /\ Own(p)[1] = p /\ Own(p)[2] = "own"
      BY <3>1 DEF UseOf, Owns, Own, Within
    <3> QED BY <3>1, <3>2, OwnersAre
  <2>5. ASSUME NEW p \in Slots, u \in UsesOf(new[p], p, "new")
        PROVE  \E o \in Owners, g \in Nat, k \in Int : u = <<g, o[1], o[2], k>> /\ UseOf(o, g, k)
    <3>1. PICK g \in Nat, k \in Int : u = <<g, p, "new", k>> /\ In(new[p], g, k)
      BY <2>5, SlotIs, UsesOfIs
    <3>2. UseOf(New(p), g, k) /\ New(p)[1] = p /\ New(p)[2] = "new"
      BY <3>1 DEF UseOf, Owns, New, Within
    <3> QED BY <3>1, <3>2, OwnersAre
  <2>6. \/ \E g \in free : u = <<g, 0, "free", 0>>
        \/ \E p \in Slots : \/ u = <<kstack[p], p, "kstack", 0>> /\ u[1] # 0
                            \/ u = <<job[p].page, p, "hand", 0>> /\ u[1] # 0
                            \/ u \in UsesOf(pgdir[p], p, "own")
                            \/ u \in UsesOf(new[p], p, "new")
    BY DEF Uses
  <2> QED BY <2>1, <2>2, <2>3, <2>4, <2>5, <2>6
<1>3. ASSUME NEW o \in Owners, NEW g \in Nat, NEW k \in Int, UseOf(o, g, k)
      PROVE  <<g, o[1], o[2], k>> \in Uses
  <2>1. CASE o = FreeList
    <3>1. o[1] = 0 /\ o[2] = "free" /\ g \in free /\ k = 0
      BY <1>3, <2>1 DEF UseOf, Owns, FreeList
    <3> QED BY <3>1 DEF Uses
  <2>2. ASSUME NEW p \in Slots, o = Stack(p)
        PROVE  <<g, o[1], o[2], k>> \in Uses
    <3>1. o[1] = p /\ o[2] = "kstack" /\ g = kstack[p] /\ g # 0 /\ k = 0
      BY <1>3, <2>2 DEF UseOf, Owns, Stack
    <3>2. <<g, p, "kstack", 0>>[1] # 0
      BY <3>1
    <3> QED BY <3>1, <3>2 DEF Uses
  <2>3. ASSUME NEW p \in Slots, o = Hand(p)
        PROVE  <<g, o[1], o[2], k>> \in Uses
    <3>1. o[1] = p /\ o[2] = "hand" /\ g = job[p].page /\ g # 0 /\ k = 0
      BY <1>3, <2>3 DEF UseOf, Owns, Hand
    <3>2. <<g, p, "hand", 0>>[1] # 0
      BY <3>1
    <3> QED BY <3>1, <3>2 DEF Uses
  <2>4. ASSUME NEW p \in Slots, o = Own(p)
        PROVE  <<g, o[1], o[2], k>> \in Uses
    <3>1. o[1] = p /\ o[2] = "own" /\ In(pgdir[p], g, k)
      BY <1>3, <2>4 DEF UseOf, Own
    <3>2. <<g, p, "own", k>> \in UsesOf(pgdir[p], p, "own")
      BY <3>1, SlotIs, UsesOfIs
    <3> QED BY <3>1, <3>2 DEF Uses
  <2>5. ASSUME NEW p \in Slots, o = New(p)
        PROVE  <<g, o[1], o[2], k>> \in Uses
    <3>1. o[1] = p /\ o[2] = "new" /\ In(new[p], g, k)
      BY <1>3, <2>5 DEF UseOf, New
    <3>2. <<g, p, "new", k>> \in UsesOf(new[p], p, "new")
      BY <3>1, SlotIs, UsesOfIs
    <3> QED BY <3>1, <3>2 DEF Uses
  <2> QED BY <2>1, <2>2, <2>3, <2>4, <2>5, OwnersAre
<1> QED BY <1>2, <1>3

LEMMA OwnedPages == MemInv => PagesOwned
<1> SUFFICES ASSUME MemInv
             PROVE  PagesOwned
  OBVIOUS
<1>1. UsedOnce
  <2> SUFFICES ASSUME NEW u \in Uses, NEW w \in Uses, u[1] = w[1]
               PROVE  u = w
    BY DEF UsedOnce
  <2>1. PICK o \in Owners, g \in Nat, k \in Int : u = <<g, o[1], o[2], k>> /\ UseOf(o, g, k)
    BY UsesAre
  <2>2. PICK r \in Owners, h \in Nat, m \in Int : w = <<h, r[1], r[2], m>> /\ UseOf(r, h, m)
    BY UsesAre
  <2>3. g = h
    BY <2>1, <2>2
  <2>4. o = r
    BY <2>1, <2>2, <2>3 DEF UseOf, OneOwner, MemInv
  <2>5. k = m
    <3>1. CASE o[2] \in {"free", "kstack", "hand"}
      BY <3>1, <2>1, <2>2, <2>4 DEF UseOf
    <3>2. ASSUME NEW p \in Slots, o = Own(p)
          PROVE  k = m
      <4>1. In(pgdir[p], g, k) /\ In(pgdir[p], g, m)
        BY <3>2, <2>1, <2>2, <2>3, <2>4 DEF UseOf, Own
      <4> QED BY <4>1, SlotIs DEF InOnce
    <3>3. ASSUME NEW p \in Slots, o = New(p)
          PROVE  k = m
      <4>1. In(new[p], g, k) /\ In(new[p], g, m)
        BY <3>3, <2>1, <2>2, <2>3, <2>4 DEF UseOf, New
      <4> QED BY <4>1, SlotIs DEF InOnce
    <3>4. \/ o[2] \in {"free", "kstack", "hand"}
          \/ \E p \in Slots : o = Own(p) \/ o = New(p)
      BY OwnersAre DEF FreeList, Stack, Hand
    <3> QED BY <3>1, <3>2, <3>3, <3>4
  <2> QED BY <2>1, <2>2, <2>3, <2>4, <2>5
<1>2. NothingLost
  <2> SUFFICES ASSUME ~ short
               PROVE  Used = DOMAIN mem
    BY DEF NothingLost
  <2>1. ASSUME NEW u \in Uses
        PROVE  u[1] \in DOMAIN mem
    <3>1. PICK o \in Owners, g \in Nat, k \in Int : u = <<g, o[1], o[2], k>> /\ UseOf(o, g, k)
      BY UsesAre
    <3>2. g \in DOMAIN mem
      BY <3>1 DEF UseOf, NoneMore, MemInv
    <3> QED BY <3>1, <3>2
  <2>2. ASSUME NEW g \in DOMAIN mem
        PROVE  \E u \in Uses : u[1] = g
    <3>1. PICK o \in Owners : Owns(o, g)
      BY DEF MemInv, NoneLost
    <3>2. g \in Nat
      BY DEF MemInv, MemTyped, PageNos
    <3>3. PICK k \in Int : UseOf(o, g, k)
      <4>1. CASE o[2] \in {"free", "kstack", "hand"}
        <5>1. 0 \in Int /\ UseOf(o, g, 0)
          BY <3>1, <4>1 DEF UseOf
        <5> QED BY <5>1
      <4>2. CASE o[2] = "own"
        BY <3>1, <4>2 DEF UseOf, Owns, Within
      <4>3. CASE o[2] = "new"
        BY <3>1, <4>3 DEF UseOf, Owns, Within
      <4> QED BY <3>1, <4>1, <4>2, <4>3 DEF Owns
    <3>4. PICK u \in Uses : u = <<g, o[1], o[2], k>>
      BY <3>2, <3>3, UsesAre
    <3> QED BY <3>4
  <2> QED BY <2>1, <2>2 DEF Used
<1>3. SizeMapped
  <2>1. ~ short => ~ halted
    BY DEF MemInv
  <2>2. ASSUME ~ short, NEW p \in Slots, call[p] = "user"
        PROVE  DOMAIN pgdir[p].map = 0..(PGROUNDUP(sz[p]) - 1)
    <3>1. SizeOK(p)
      BY <2>2, SlotIs
    <3> QED BY <2>2, <3>1 DEF SizeOK
  <2> QED BY <2>1, <2>2 DEF SizeMapped
<1> QED BY <1>1, <1>2, <1>3 DEF PagesOwned

\* A page has one use: it is free, a kernel stack, in the hand of one call, or in one
\* place of one page table, whatever fails and whatever is freed.  Until an allocation of a
\* page table page fails none is lost, the pages of a process are those below its size, and
\* nothing panics (kalloc and kfree; setupkvm, allocuvm, deallocuvm, freevm and copyuvm; exec;
\* fork, growproc and wait).
THEOREM PageOwners == MemSpec => []PagesOwned
<1>1. MemInit => MemInv
  BY InitMem
<1>2. MemInv /\ [MemNext]_memVars => MemInv'
  BY StepMem
<1>3. MemInv => PagesOwned
  BY OwnedPages
<1> QED BY <1>1, <1>2, <1>3, PTL DEF MemSpec
-----------------------------------------------------------------------------
(* What is in the pages.                                                   *)

\* exec has put the file into page v, with the first k segments.
Filled(prog, k, v) ==
  \E i \in 1..k :
    LET seg == prog.segs[i] IN v \in seg.at..(seg.at + PGROUNDUP(seg.filesz) - 1)

\* e is the end of the first k segments.
EndsAt(prog, k, e) ==
  /\ \E i \in 1..k : e = SegEnd(prog.segs[i])
  /\ \A i \in 1..k : SegEnd(prog.segs[i]) <= e

\* A fork has copied the pages up to the one it is at.
CopyOK(p) ==
  LET old == pgdir[p].map
      map == new[p].map
  IN  /\ DOMAIN map = 0..(job[p].a - 1)
      /\ \A v \in DOMAIN map : /\ v \in DOMAIN old /\ map[v].user = old[v].user
                               /\ mem[map[v].page] = mem[old[v].page]

\* An exec has the segments up to seg - 1 in its pages, and then zeroes.
ImageOK(p) ==
  LET j   == job[p]
      map == new[p].map
  IN  /\ \A v \in DOMAIN map :
           /\ v < j.a /\ v * PGSIZE < j.end /\ v * PGSIZE < KERNBASE /\ map[v].user
           /\ mem[map[v].page] = IF Filled(j.prog, j.seg - 1, v) THEN Text ELSE Zero
      /\ \A v \in Nat : Filled(j.prog, j.seg - 1, v) => v < j.a
      /\ j.seg > 1 => j.prog.reads
      /\ j.seg <= Len(j.prog.segs) => EndsAt(j.prog, j.seg, j.end)
      /\ j.seg > Len(j.prog.segs) =>
           \E e \in Nat : /\ EndsAt(j.prog, Len(j.prog.segs), e)
                          /\ j.end = (PGROUNDUP(e) + 2) * PGSIZE

DataOK(p) ==
  /\ \A v \in DOMAIN pgdir[p].map : v * PGSIZE < KERNBASE
  /\ call[p] = "table" => mem[job[p].page] = Zero
  /\ call[p] = "copytable" => mem[job[p].page] = mem[pgdir[p].map[job[p].a].page]
  /\ job[p].op = "fork" => CopyOK(p)
  /\ job[p].op = "exec" => ImageOK(p)

DataInv == \A p \in Slots : DataOK(p)

\* What o has keeps its content.
Kept(o) == \A g \in Nat : Owns(o, g) => mem'[g] = mem[g]

LEMMA KeptIs ==
  ASSUME MemInv, NEW S, \A g \in DOMAIN mem \ S : mem'[g] = mem[g], NEW o \in Owners,
         \A g \in Nat : g \in S => \E x \in Owners : x # o /\ Owns(x, g)
  PROVE  Kept(o)
<1>1. ASSUME NEW g \in Nat, Owns(o, g)
      PROVE  mem'[g] = mem[g]
  <2>1. g \in DOMAIN mem
    BY <1>1 DEF MemInv, NoneMore
  <2>2. g \notin S
    BY <1>1 DEF MemInv, OneOwner
  <2> QED BY <2>1, <2>2
<1> QED BY <1>1 DEF Kept

LEMMA PageIs ==
  ASSUME NEW s \in SpaceType, NEW v \in DOMAIN s.map
  PROVE  s.map[v].page \in Nat /\ s.map[v].page \in PageNos /\ Within(s, s.map[v].page) /\ v \in Nat
<1>1. v \in Nat /\ v \in Int /\ s.map[v].page \in PageNos /\ s.map[v].page \in Nat
  BY SpaceIs DEF PageNos
<1>2. In(s, s.map[v].page, v)
  BY DEF In
<1> QED BY <1>1, <1>2 DEF Within

LEMMA KeptPages ==
  ASSUME MemInv, NEW r \in Slots
  PROVE  /\ Kept(Own(r)) => \A v \in DOMAIN pgdir[r].map :
                              mem'[pgdir[r].map[v].page] = mem[pgdir[r].map[v].page]
         /\ Kept(New(r)) => \A v \in DOMAIN new[r].map :
                              mem'[new[r].map[v].page] = mem[new[r].map[v].page]
         /\ Kept(Hand(r)) => (job[r].page # 0 => mem'[job[r].page] = mem[job[r].page])
<1>1. pgdir[r] \in SpaceType /\ new[r] \in SpaceType /\ job[r].page \in Nat
  BY SlotIs DEF JobType
<1>2. \A v \in DOMAIN pgdir[r].map : pgdir[r].map[v].page \in Nat
                                     /\ Owns(Own(r), pgdir[r].map[v].page)
  BY <1>1, PageIs, OwnsIs
<1>3. \A v \in DOMAIN new[r].map : new[r].map[v].page \in Nat /\ Owns(New(r), new[r].map[v].page)
  BY <1>1, PageIs, OwnsIs
<1>4. job[r].page # 0 => Owns(Hand(r), job[r].page)
  BY OwnsIs
<1> QED BY <1>1, <1>2, <1>3, <1>4 DEF Kept

\* Nothing happens to a slot and its pages.
LEMMA DataKept ==
  ASSUME MemInv, NEW r \in Slots, DataOK(r), SameSlot(r),
         Kept(Own(r)), Kept(New(r)), Kept(Hand(r))
  PROVE  DataOK(r)'
<1>1. /\ pgdir'[r] = pgdir[r] /\ new'[r] = new[r] /\ call'[r] = call[r] /\ job'[r] = job[r]
  BY DEF SameSlot
<1>2. /\ \A v \in DOMAIN pgdir[r].map : mem'[pgdir[r].map[v].page] = mem[pgdir[r].map[v].page]
      /\ \A v \in DOMAIN new[r].map : mem'[new[r].map[v].page] = mem[new[r].map[v].page]
      /\ job[r].page # 0 => mem'[job[r].page] = mem[job[r].page]
  BY KeptPages
<1>3. call[r] \in {"table", "copytable"} => job[r].page # 0
  BY SlotIs DEF PlaceOK
<1>4. call[r] = "copytable" => job[r].a \in DOMAIN pgdir[r].map
  BY SlotIs DEF PlaceOK
<1>5. CopyOK(r) => CopyOK(r)'
  BY <1>1, <1>2 DEF CopyOK
<1>6. ImageOK(r) => ImageOK(r)'
  BY <1>1, <1>2 DEF ImageOK
<1> QED BY <1>1, <1>2, <1>3, <1>4, <1>5, <1>6 DEF DataOK

\* What a process finds.
Seen ==
  [p \in Slots |-> IF call[p] \in {"unused", "embryo"} THEN Image(NoSpace) ELSE Image(pgdir[p])]

ImageIn(m, s) == [v \in DOMAIN s.map |-> [data |-> m[s.map[v].page], user |-> s.map[v].user]]

LEMMA SeenIs ==
  /\ MemInv => \A p \in Slots : Seen[p] = ImageIn(mem, pgdir[p])
  /\ MemInv' => \A p \in Slots : Seen'[p] = ImageIn(mem', pgdir'[p])
<1>1. ASSUME MemInv
      PROVE  \A p \in Slots : Seen[p] = ImageIn(mem, pgdir[p])
  <2>1. \A p \in Slots : call[p] \in {"unused", "embryo"} => pgdir[p] = NoSpace
    BY <1>1, SlotIs DEF PlaceOK
  <2> QED BY <2>1 DEF Seen, Image, ImageIn
<1>2. ASSUME MemInv'
      PROVE  \A p \in Slots : Seen'[p] = ImageIn(mem', pgdir'[p])
  <2>1. \A p \in Slots : call'[p] \in {"unused", "embryo"} => pgdir'[p] = NoSpace
    BY <1>2 DEF MemInv, LocalOK, PlaceOK
  <2> QED BY <2>1 DEF Seen, Image, ImageIn
<1> QED BY <1>1, <1>2

\* A process finds what it has found before.
LEMMA SeenKept ==
  ASSUME MemInv, MemInv', NEW r \in Slots, pgdir'[r] = pgdir[r], Kept(Own(r))
  PROVE  Seen'[r] = Seen[r]
<1>1. \A v \in DOMAIN pgdir[r].map : mem'[pgdir[r].map[v].page] = mem[pgdir[r].map[v].page]
  BY KeptPages
<1>2. ImageIn(mem', pgdir[r]) = ImageIn(mem, pgdir[r])
  BY <1>1 DEF ImageIn
<1> QED BY <1>2, SeenIs

LEMMA SeenStep ==
  ASSUME MemInv, MemInv', NEW p \in Slots, \A r \in Slots \ {p} : Seen'[r] = Seen[r]
  PROVE  Seen' = [Seen EXCEPT ![p] = ImageIn(mem', pgdir'[p])]
<1>1. Seen'[p] = ImageIn(mem', pgdir'[p])
  BY SeenIs
<1>2. /\ Seen' = [r \in Slots |-> Seen'[r]] /\ DOMAIN Seen = Slots
  BY DEF Seen
<1> QED BY <1>1, <1>2

LEMMA Stored ==
  ASSUME NEW p \in Slots, NEW v \in Vpns, NEW x \in MemVals, v \in DOMAIN Seen[p], Seen[p][v].user,
         Seen' = [Seen EXCEPT ![p] = [Seen[p] EXCEPT ![v] = [Seen[p][v] EXCEPT !.data = x]]]
  PROVE  Spaces!Next
<1>1. Spaces!Store(p, v, x)
  BY DEF Spaces!Store, Seen
<1> QED BY <1>1 DEF Spaces!Next

LEMMA Grew ==
  ASSUME NEW p \in Slots, NEW v \in Vpns, v \notin DOMAIN Seen[p],
         Seen' = [Seen EXCEPT ![p] =
                   [u \in DOMAIN Seen[p] \cup {v} |->
                      IF u = v THEN [data |-> Zero, user |-> TRUE] ELSE Seen[p][u]]]
  PROVE  Spaces!Next
<1>1. Spaces!Grow(p, v)
  BY DEF Spaces!Grow, Spaces!Fresh, Seen
<1> QED BY <1>1 DEF Spaces!Next

LEMMA Shrank ==
  ASSUME NEW p \in Slots, NEW gone \in SUBSET Vpns,
         Seen' = [Seen EXCEPT ![p] = [v \in DOMAIN Seen[p] \ gone |-> Seen[p][v]]]
  PROVE  Spaces!Next
<1>1. Spaces!Shrink(p, gone)
  BY DEF Spaces!Shrink, Seen
<1> QED BY <1>1 DEF Spaces!Next

LEMMA Copied ==
  ASSUME NEW p \in Slots, NEW q \in Slots, DOMAIN Seen[q] = {},
         NEW n \in {0} \cup {v + 1 : v \in Vpns},
         Seen' = [Seen EXCEPT ![q] = [v \in {u \in DOMAIN Seen[p] : u < n} |-> Seen[p][v]]]
  PROVE  Spaces!Next
<1>0. \A r \in Slots : Seen[r] = [v \in DOMAIN Seen[r] |-> Seen[r][v]]
  BY DEF Seen, Image
<1>1. Seen[q] = Spaces!Empty
  BY <1>0 DEF Spaces!Empty
<1>2. Spaces!Fork(p, q)
  BY <1>1 DEF Spaces!Fork, Seen
<1> QED BY <1>2 DEF Spaces!Next

LEMMA Replaced ==
  ASSUME NEW p \in Slots, NEW prog \in Programs, prog.reads, prog.fits,
         NEW S \in SUBSET DOMAIN LoadedImage(prog),
         Seen' = [Seen EXCEPT ![p] = [v \in S |-> LoadedImage(prog)[v]]]
  PROVE  Spaces!Next
<1>1. PICK i : i = LoadedImage(prog)
  OBVIOUS
<1>2. Spaces!Exec(p, i)
  BY <1>1 DEF Spaces!Exec, Seen
<1>3. i \in {LoadedImage(r) : r \in {r \in Programs : r.reads /\ r.fits}}
  BY <1>1
<1> QED BY <1>2, <1>3 DEF Spaces!Next

LEMMA BelowTop ==
  ASSUME NEW v \in Nat, v * PGSIZE < KERNBASE
  PROVE  v \in Vpns
<1>1. KERNBASE \in Nat /\ Top \in Nat /\ PGROUNDUP(KERNBASE) = Top
  BY MemConstants, TopIs
<1>2. v < Top
  BY <1>1, RoundIs
<1> QED BY <1>1, <1>2 DEF Vpns

Promised == Spaces!Next \/ Seen' = Seen

\* A slot and its pages stay as they are.
Untouched(r) == SameSlot(r) /\ Kept(Own(r)) /\ Kept(New(r)) /\ Kept(Hand(r))

LEMMA DataStep ==
  ASSUME MemInv, DataInv, NEW p \in Slots, NEW q \in Slots,
         \A r \in Slots \ {p, q} : Untouched(r), DataOK(p)', DataOK(q)'
  PROVE  DataInv'
<1>1. ASSUME NEW r \in Slots \ {p, q}
      PROVE  DataOK(r)'
  BY DataKept DEF Untouched, DataInv
<1> QED BY <1>1 DEF DataInv

\* A slot without a call.
LEMMA IdleData ==
  ASSUME MemInv', NEW r \in Slots, call'[r] \in {"unused", "embryo", "user", "fault", "zombie"},
         \A v \in DOMAIN pgdir'[r].map : v * PGSIZE < KERNBASE
  PROVE  DataOK(r)'
<1>1. job'[r] = NoJob
  BY DEF MemInv, LocalOK, PlaceOK
<1>2. NoJob.op = "none"
  BY NoJobIs
<1> QED BY <1>1, <1>2 DEF DataOK

LEMMA QuietSeen ==
  ASSUME MemInv, MemInv', \A r \in Slots : pgdir'[r] = pgdir[r] /\ Kept(Own(r))
  PROVE  Promised
<1>1. \A r \in Slots : Seen'[r] = Seen[r]
  BY SeenKept
<1>2. Seen' = [r \in Slots |-> Seen'[r]] /\ Seen = [r \in Slots |-> Seen[r]]
  BY DEF Seen
<1>3. Seen' = Seen
  BY <1>1, <1>2
<1> QED BY <1>3 DEF Promised

LEMMA AllKeep ==
  ASSUME UNCHANGED mem
  PROVE  \A o : Kept(o)
BY DEF Kept

\* kalloc changes a page that was free.
LEMMA GotKept ==
  ASSUME MemInv, free # {}, NEW c, Got(c)
  PROVE  /\ \A r \in Slots : Kept(Own(r)) /\ Kept(New(r)) /\ Kept(Hand(r))
         /\ mem'[Min(free)] = c
<1>1. Min(free) \in free /\ Min(free) \in Nat /\ Min(free) \in DOMAIN mem
  BY FreeIs, SlotIs DEF MemInv, MemTyped
<1>2. mem' = [mem EXCEPT ![Min(free)] = c]
  BY DEF Got
<1>3. \A g \in DOMAIN mem \ {Min(free)} : mem'[g] = mem[g]
  BY <1>2
<1>4. Owns(FreeList, Min(free)) /\ FreeList \in Owners
  BY <1>1, OwnsIs, OwnersAre
<1>5. ASSUME NEW o \in Owners, o # FreeList
      PROVE  Kept(o)
  <2>1. PICK S : S = {Min(free)}
    OBVIOUS
  <2>2. \A g \in Nat : g \in S => \E x \in Owners : x # o /\ Owns(x, g)
    BY <1>4, <1>5, <2>1
  <2> QED BY <1>3, <2>1, <2>2, KeptIs
<1>6. \A r \in Slots : Kept(Own(r)) /\ Kept(New(r)) /\ Kept(Hand(r))
  BY <1>5, OwnersAre, OwnersApart
<1> QED BY <1>1, <1>2, <1>6

LEMMA WriteRight ==
  ASSUME MemInv, MemInv', DataInv, NEW p \in Slots, NEW v \in Stores, NEW x \in MemVals,
         Write(p, v, x)
  PROVE  DataInv' /\ Promised
<1>1. PICK s : s = pgdir[p]
  OBVIOUS
<1>2. PICK g : g = s.map[v].page
  OBVIOUS
<1>3. /\ call[p] = "user" /\ v \in DOMAIN s.map /\ s.map[v].user
      /\ mem' = [mem EXCEPT ![g] = x]
      /\ UNCHANGED <<free, kstack, pgdir, sz, call, new, job, short, halted>>
  BY <1>1, <1>2 DEF Write, At
<1>4. s \in SpaceType /\ InOnce(s)
  BY <1>1, SlotIs
<1>5. g \in Nat /\ Within(s, g) /\ v \in Nat
  BY <1>2, <1>3, <1>4, PageIs
<1>6. Owns(Own(p), g) /\ Own(p) \in Owners
  BY <1>1, <1>5, OwnsIs, OwnersAre
<1>7. g \in DOMAIN mem
  BY <1>5, <1>6 DEF MemInv, NoneMore
<1>8. ASSUME NEW r \in Slots \ {p}
      PROVE  Untouched(r)
  <2>1. \A h \in DOMAIN mem \ {g} : mem'[h] = mem[h]
    BY <1>3
  <2>2. ASSUME NEW o \in Owners, o # Own(p)
        PROVE  Kept(o)
    <3>1. PICK S : S = {g}
      OBVIOUS
    <3>2. \A h \in Nat : h \in S => \E y \in Owners : y # o /\ Owns(y, h)
      BY <1>6, <2>2, <3>1
    <3> QED BY <2>1, <3>1, <3>2, KeptIs
  <2>3. Own(r) # Own(p) /\ New(r) # Own(p) /\ Hand(r) # Own(p)
    BY OwnersApart
  <2> QED BY <1>3, <2>2, <2>3, OwnersAre DEF Untouched, SameSlot
<1>9. DataOK(p)'
  <2>1. \A u \in DOMAIN s.map : u * PGSIZE < KERNBASE
    BY <1>1 DEF DataInv, DataOK
  <2> QED BY <1>1, <1>3, <2>1, IdleData
<1>10. DataInv'
  BY <1>8, <1>9, DataStep
<1>11. Spaces!Next
  <2>1. \A r \in Slots \ {p} : Seen'[r] = Seen[r]
    BY <1>3, <1>8, SeenKept DEF Untouched
  <2>2. Seen' = [Seen EXCEPT ![p] = ImageIn(mem', s)]
    BY <1>1, <1>3, <2>1, SeenStep
  <2>3. Seen[p] = ImageIn(mem, s)
    BY <1>1, SeenIs
  <2>4. ASSUME NEW u \in DOMAIN s.map, u # v
        PROVE  mem'[s.map[u].page] = mem[s.map[u].page]
    <3>1. s.map[u].page # g
      <4>1. u \in Int /\ v \in Int
        BY <1>4, <1>5, <2>4, PageIs
      <4>2. s.map[u].page = g => In(s, g, u) /\ In(s, g, v)
        BY <1>2, <1>3 DEF In
      <4> QED BY <1>4, <1>5, <2>4, <4>1, <4>2 DEF InOnce
    <3>2. s.map[u].page \in DOMAIN mem
      <4>1. s.map[u].page \in Nat /\ Owns(Own(p), s.map[u].page)
        BY <1>1, <1>4, PageIs, OwnsIs
      <4> QED BY <1>6, <4>1 DEF MemInv, NoneMore
    <3> QED BY <1>3, <3>1, <3>2
  <2>5. mem'[g] = x
    BY <1>3, <1>7
  <2>6. ImageIn(mem', s) =
          [ImageIn(mem, s) EXCEPT ![v] = [ImageIn(mem, s)[v] EXCEPT !.data = x]]
    BY <1>2, <1>3, <2>4, <2>5 DEF ImageIn
  <2>7. v \in Vpns
    <3>1. v * PGSIZE < KERNBASE
      BY <1>1, <1>3 DEF DataInv, DataOK
    <3> QED BY <1>5, <3>1, BelowTop
  <2>8. v \in DOMAIN Seen[p] /\ Seen[p][v].user
    BY <1>3, <2>3 DEF ImageIn
  <2> QED BY <2>2, <2>3, <2>6, <2>7, <2>8, Stored
<1> QED BY <1>10, <1>11 DEF Promised

\* Steps that change no page table and no page.
LEMMA SteadyRight ==
  ASSUME MemInv, MemInv', DataInv, NEW p \in Slots, NEW q \in Slots,
         UNCHANGED <<mem, pgdir>>, \A r \in Slots \ {p, q} : SameSlot(r),
         DataOK(p)', DataOK(q)'
  PROVE  DataInv' /\ Promised
<1>1. \A o : Kept(o)
  BY AllKeep
<1>2. DataInv'
  BY <1>1, DataStep DEF Untouched
<1>3. Promised
  BY <1>1, QuietSeen
<1> QED BY <1>2, <1>3

\* The pages of a process are below KERNBASE.
LEMMA OwnBelow ==
  ASSUME DataInv, NEW p \in Slots
  PROVE  \A v \in DOMAIN pgdir[p].map : v * PGSIZE < KERNBASE
BY DEF DataInv, DataOK

LEMMA SbrkMoreRight ==
  ASSUME MemInv, MemInv', DataInv, NEW p \in Slots, NEW n \in Sbrks, SbrkMore(p, n)
  PROVE  DataInv' /\ Promised
<1>1. /\ UNCHANGED <<mem, pgdir, kstack, sz, new>>
      /\ call' = [call EXCEPT ![p] = "grow"]
      /\ job' = [job EXCEPT ![p] = [NoJob EXCEPT !.op = "sbrk", !.old = sz[p],
                                   !.end = sz[p] + n, !.a = PGROUNDUP(sz[p])]]
  BY DEF SbrkMore, GoTo
<1>2. call \in [Slots -> MemPcs] /\ job \in [Slots -> JobType]
  BY DEF MemInv, MemTyped
<1>3. call'[p] = "grow" /\ job'[p].op = "sbrk" /\ \A r \in Slots \ {p} : SameSlot(r)
  BY <1>1, <1>2 DEF SameSlot, NoJob
<1>4. DataOK(p)'
  BY <1>1, <1>3, OwnBelow DEF DataOK
<1> QED BY <1>1, <1>3, <1>4, SteadyRight

LEMMA ExecRight ==
  ASSUME MemInv, MemInv', DataInv, NEW p \in Slots, NEW prog \in Programs, Exec(p, prog)
  PROVE  DataInv' /\ Promised
<1>1. /\ UNCHANGED <<mem, pgdir, kstack, sz, new>> /\ call[p] = "user"
      /\ call' = [call EXCEPT ![p] = "setup"]
      /\ job' = [job EXCEPT ![p] = [NoJob EXCEPT !.op = "exec", !.prog = prog, !.seg = 1,
                                                 !.end = SegEnd(prog.segs[1])]]
  BY DEF Exec, GoTo, At
<1>2. call \in [Slots -> MemPcs] /\ job \in [Slots -> JobType]
  BY DEF MemInv, MemTyped
<1>3. /\ call'[p] = "setup" /\ job'[p].op = "exec" /\ job'[p].prog = prog /\ job'[p].seg = 1
      /\ job'[p].end = SegEnd(prog.segs[1]) /\ job'[p].a = 0
      /\ \A r \in Slots \ {p} : SameSlot(r)
  BY <1>1, <1>2 DEF SameSlot, NoJob
<1>4. DOMAIN new'[p].map = {}
  <2>1. new[p] = NoSpace
    BY <1>1, UserIs
  <2> QED BY <1>1, <2>1, NoSpaceIs DEF NoSpace
<1>5. 1 <= Len(prog.segs) /\ Len(prog.segs) \in Nat /\ SegEnd(prog.segs[1]) \in Nat
  BY SegsAre
<1>6. \A v : ~ Filled(prog, 0, v)
  BY DEF Filled
<1>7. EndsAt(prog, 1, SegEnd(prog.segs[1]))
  BY <1>5 DEF EndsAt
<1>8. ImageOK(p)'
  <2>1. 1 - 1 = 0 /\ ~ (1 > Len(prog.segs))
    BY <1>5
  <2> QED BY <1>3, <1>4, <1>6, <1>7, <2>1 DEF ImageOK
<1>9. DataOK(p)'
  BY <1>1, <1>3, <1>8, OwnBelow DEF DataOK
<1> QED BY <1>1, <1>3, <1>9, SteadyRight

LEMMA ExitRight ==
  ASSUME MemInv, MemInv', DataInv, NEW p \in Slots, Exit(p)
  PROVE  DataInv' /\ Promised
<1>1. /\ UNCHANGED <<mem, pgdir, kstack, sz, new, job>>
      /\ call' = [call EXCEPT ![p] = "zombie"]
  BY DEF Exit, GoTo
<1>2. call \in [Slots -> MemPcs]
  BY DEF MemInv, MemTyped
<1>3. call'[p] = "zombie" /\ \A r \in Slots \ {p} : SameSlot(r)
  BY <1>1, <1>2 DEF SameSlot
<1>4. DataOK(p)'
  BY <1>1, <1>3, OwnBelow, IdleData
<1> QED BY <1>1, <1>3, <1>4, SteadyRight

LEMMA GrownRight ==
  ASSUME MemInv, MemInv', DataInv, NEW p \in Slots, Grown(p)
  PROVE  DataInv' /\ Promised
<1>1. /\ UNCHANGED <<mem, pgdir, kstack, new>> /\ sz' = [sz EXCEPT ![p] = job[p].end]
      /\ call' = [call EXCEPT ![p] = "user"] /\ job' = [job EXCEPT ![p] = NoJob]
  BY DEF Grown, GoTo
<1>2. call \in [Slots -> MemPcs] /\ job \in [Slots -> JobType] /\ DOMAIN sz = Slots
  BY DEF MemInv, MemTyped
<1>3. call'[p] = "user" /\ \A r \in Slots \ {p} : SameSlot(r)
  BY <1>1, <1>2 DEF SameSlot
<1>4. DataOK(p)'
  BY <1>1, <1>3, OwnBelow, IdleData
<1> QED BY <1>1, <1>3, <1>4, SteadyRight

LEMMA ForkRight ==
  ASSUME MemInv, MemInv', DataInv, NEW p \in Slots, NEW q \in Slots, Fork(p, q)
  PROVE  DataInv' /\ Promised
<1> DEFINE j == [NoJob EXCEPT !.op = "fork", !.child = q, !.end = sz[p]]
<1>1. /\ call[p] = "user" /\ call[q] = "unused" /\ free # {} /\ Got(Junk)
      /\ kstack' = [kstack EXCEPT ![q] = Min(free)]
      /\ call' = [call EXCEPT ![p] = "setup", ![q] = "embryo"]
      /\ job' = [job EXCEPT ![p] = j] /\ UNCHANGED <<pgdir, sz, new>>
  BY DEF Fork, At
<1>2. /\ call \in [Slots -> MemPcs] /\ job \in [Slots -> JobType] /\ kstack \in [Slots -> Nat]
  BY DEF MemInv, MemTyped
<1>3. /\ call'[p] = "setup" /\ call'[q] = "embryo" /\ p # q
      /\ job'[p].op = "fork" /\ job'[p].a = 0
      /\ \A r \in Slots \ {p, q} : SameSlot(r)
  BY <1>1, <1>2 DEF SameSlot, NoJob
<1>4. \A r \in Slots : Kept(Own(r)) /\ Kept(New(r)) /\ Kept(Hand(r))
  BY <1>1, GotKept
<1>5. DOMAIN new'[p].map = {}
  <2>1. new[p] = NoSpace
    BY <1>1, UserIs
  <2> QED BY <1>1, <2>1, NoSpaceIs DEF NoSpace
<1>6. DataOK(p)'
  <2>1. CopyOK(p)'
    BY <1>3, <1>5 DEF CopyOK
  <2> QED BY <1>1, <1>3, <2>1, OwnBelow DEF DataOK
<1>7. DataOK(q)'
  BY <1>1, <1>3, OwnBelow, IdleData
<1>8. DataInv'
  BY <1>3, <1>4, <1>6, <1>7, DataStep DEF Untouched
<1>9. Promised
  BY <1>1, <1>4, QuietSeen
<1> QED BY <1>8, <1>9

\* A process loses pages, and those it keeps are as they were.
LEMMA ShrinkSeen ==
  ASSUME MemInv, MemInv', DataInv, NEW p \in Slots,
         \A r \in Slots \ {p} : pgdir'[r] = pgdir[r] /\ Kept(Own(r)),
         DOMAIN pgdir'[p].map \subseteq DOMAIN pgdir[p].map,
         \A v \in DOMAIN pgdir'[p].map : /\ pgdir'[p].map[v] = pgdir[p].map[v]
                                         /\ mem'[pgdir[p].map[v].page] = mem[pgdir[p].map[v].page]
  PROVE  Promised
<1>1. PICK s : s = pgdir[p]
  OBVIOUS
<1>2. PICK t : t = pgdir'[p]
  OBVIOUS
<1>3. PICK gone : gone = DOMAIN s.map \ DOMAIN t.map
  OBVIOUS
<1>4. gone \in SUBSET Vpns
  <2>1. s \in SpaceType
    BY <1>1, SlotIs
  <2>2. \A v \in DOMAIN s.map : v \in Nat /\ v * PGSIZE < KERNBASE
    BY <1>1, <2>1, SpaceIs, OwnBelow
  <2> QED BY <1>3, <2>2, BelowTop
<1>5. Seen' = [Seen EXCEPT ![p] = ImageIn(mem', t)]
  <2>1. \A r \in Slots \ {p} : Seen'[r] = Seen[r]
    BY SeenKept
  <2> QED BY <1>2, <2>1, SeenStep
<1>6. Seen[p] = ImageIn(mem, s)
  BY <1>1, SeenIs
<1>7. DOMAIN t.map = DOMAIN s.map \ gone
  BY <1>1, <1>2, <1>3
<1>8. ImageIn(mem', t) = [v \in DOMAIN ImageIn(mem, s) \ gone |-> ImageIn(mem, s)[v]]
  BY <1>1, <1>2, <1>7 DEF ImageIn
<1>9. Spaces!Next
  <2>1. ImageIn(mem', t) = [v \in DOMAIN Seen[p] \ gone |-> Seen[p][v]]
    BY <1>6, <1>8, Zenon
  <2>2. Seen' = [Seen EXCEPT ![p] = [v \in DOMAIN Seen[p] \ gone |-> Seen[p][v]]]
    BY <1>5, <2>1, Zenon
  <2> QED BY <1>4, <2>2, Shrank
<1> QED BY <1>9 DEF Promised

\* kfree changes pages of p and of kernel stacks.
LEMMA FreedKept ==
  ASSUME MemInv, NEW p \in Slots, NEW S, \A g \in DOMAIN mem \ S : mem'[g] = mem[g],
         \A h \in Nat : h \in S => \/ Within(new[p], h) \/ Within(pgdir[p], h)
                                   \/ \E u \in Slots : Owns(Stack(u), h)
  PROVE  /\ \A r \in Slots \ {p} : Kept(Own(r)) /\ Kept(New(r)) /\ Kept(Hand(r))
         /\ (\A h \in Nat : h \in S => ~ Within(pgdir[p], h)) => Kept(Own(p))
<1>1. ASSUME NEW o \in Owners, NEW r \in Slots \ {p}, o = Own(r) \/ o = New(r) \/ o = Hand(r)
      PROVE  Kept(o)
  <2>1. o # New(p) /\ o # Own(p) /\ \A u \in Slots : o # Stack(u)
    BY <1>1, OwnersApart
  <2>2. \A h \in Nat : h \in S => \E x \in Owners : x # o /\ Owns(x, h)
    BY <2>1, OwnsIs, OwnersAre
  <2> QED BY <2>2, KeptIs
<1>2. ASSUME \A h \in Nat : h \in S => ~ Within(pgdir[p], h)
      PROVE  Kept(Own(p))
  <2>1. New(p) # Own(p) /\ \A u \in Slots : Stack(u) # Own(p)
    BY OwnersApart
  <2>2. \A h \in Nat : h \in S => \E x \in Owners : x # Own(p) /\ Owns(x, h)
    BY <1>2, <2>1, OwnsIs, OwnersAre
  <2> QED BY <2>2, KeptIs, OwnersAre
<1> QED BY <1>1, <1>2, OwnersAre

\* What the end of a call without success does.
LEMMA FailIs ==
  ASSUME MemInv, MemInv', DataInv, NEW p \in Slots, NEW S, Fail(p, S), UNCHANGED sz,
         \A r \in Slots \ {p} : pgdir'[r] = pgdir[r],
         \A h \in S : h \in Nat /\ (Within(new[p], h) \/ Within(pgdir[p], h)),
         \A v \in DOMAIN pgdir'[p].map : v * PGSIZE < KERNBASE
  PROVE  /\ DataInv' /\ \A r \in Slots \ {p} : Kept(Own(r))
         /\ \A g \in DOMAIN mem : g \notin S /\ Within(pgdir[p], g) => mem'[g] = mem[g]
<1>0. PICK q \in Nat : q = job[p].child
  BY SlotIs DEF JobType
<1>1. q # 0 => q \in Slots /\ call[q] = "embryo" /\ q # p
  <2>1. job[p].op = "fork" => call[p] # "embryo"
    BY SlotIs, NoJobIs DEF PlaceOK
  <2> QED BY <1>0, <2>1, SlotIs DEF ChildOK
<1>2. PICK T : T = S \cup IF q = 0 THEN {} ELSE {kstack[q]}
  OBVIOUS
<1>3. /\ mem' = [g \in DOMAIN mem |-> IF g \in T THEN Junk ELSE mem[g]]
      /\ kstack' = [r \in Slots |-> IF r = q THEN 0 ELSE kstack[r]]
      /\ call' = [r \in Slots |-> IF r = p THEN "user" ELSE IF r = q THEN "unused" ELSE call[r]]
      /\ new' = [new EXCEPT ![p] = NoSpace]
      /\ job' = [job EXCEPT ![p] = NoJob]
  BY <1>0, <1>2 DEF Fail, Kfree
<1>4. /\ new \in [Slots -> SpaceType] /\ job \in [Slots -> JobType] /\ call \in [Slots -> MemPcs]
      /\ kstack \in [Slots -> Nat]
  BY DEF MemInv, MemTyped
<1>5. \A h \in Nat : h \in T => \/ Within(new[p], h) \/ Within(pgdir[p], h)
                                \/ (q # 0 /\ Owns(Stack(q), h))
  <2>1. q # 0 => kstack[q] # 0
    BY <1>1, SlotIs DEF PlaceOK
  <2>2. q # 0 => Owns(Stack(q), kstack[q])
    BY <2>1, OwnsIs
  <2> QED BY <1>2, <2>2
<1>6. \A r \in Slots \ {p} : Kept(Own(r)) /\ Kept(New(r)) /\ Kept(Hand(r))
  <2>1. \A g \in DOMAIN mem \ T : mem'[g] = mem[g]
    BY <1>3
  <2>2. \A h \in Nat : h \in T => \/ Within(new[p], h) \/ Within(pgdir[p], h)
                                  \/ \E u \in Slots : Owns(Stack(u), h)
    BY <1>1, <1>5
  <2> QED BY <2>1, <2>2, FreedKept
<1>7. \A g \in DOMAIN mem : g \notin S /\ Within(pgdir[p], g) => mem'[g] = mem[g]
  <2> SUFFICES ASSUME NEW g \in DOMAIN mem, g \notin S, Within(pgdir[p], g)
               PROVE  mem'[g] = mem[g]
    OBVIOUS
  <2>1. g \in Nat /\ Owns(Own(p), g)
    BY SlotIs, OwnsIs DEF PageNos
  <2>2. ASSUME g \in T
        PROVE  FALSE
    <3>1. q # 0 /\ g = kstack[q] /\ g # 0
      BY <1>1, <1>2, <2>2, SlotIs DEF PlaceOK
    <3>2. Owns(Stack(q), g) /\ q \in Slots
      BY <1>1, <3>1, OwnsIs
    <3>3. Stack(q) # Own(p) /\ Stack(q) \in Owners /\ Own(p) \in Owners
      BY <3>2, OwnersApart, OwnersAre
    <3> QED BY <2>1, <3>2, <3>3 DEF MemInv, OneOwner
  <2> QED BY <1>3, <2>2
<1>8. call'[p] = "user" /\ (q # 0 => call'[q] = "unused")
  BY <1>1, <1>3
<1>9. DataOK(p)'
  BY <1>8, IdleData
<1>10. \A r \in Slots \ {p, q} : Untouched(r)
  BY <1>3, <1>4, <1>6 DEF Untouched, SameSlot
<1>11. DataInv'
  <2>1. CASE q = 0
    <3>1. \A r \in Slots \ {p, p} : Untouched(r)
      BY <1>10, <2>1 DEF Slots
    <3> QED BY <1>9, <3>1, DataStep
  <2>2. CASE q # 0
    <3>1. DataOK(q)'
      <4>1. \A v \in DOMAIN pgdir'[q].map : v * PGSIZE < KERNBASE
        BY <1>1, <2>2, OwnBelow
      <4> QED BY <1>1, <1>8, <2>2, <4>1, IdleData
    <3> QED BY <1>1, <1>9, <1>10, <2>2, <3>1, DataStep
  <2> QED BY <2>1, <2>2
<1> QED BY <1>6, <1>7, <1>11

\* fork and exec give back what they have made.
LEMMA FailRight ==
  ASSUME MemInv, MemInv', DataInv, NEW p \in Slots, NEW S, Fail(p, S), UNCHANGED <<pgdir, sz>>,
         \A h \in S : h \in Nat /\ Within(new[p], h)
  PROVE  DataInv' /\ Promised
<1>1. /\ DataInv' /\ \A r \in Slots \ {p} : Kept(Own(r))
      /\ \A g \in DOMAIN mem : g \notin S /\ Within(pgdir[p], g) => mem'[g] = mem[g]
  BY OwnBelow, FailIs
<1>2. Kept(Own(p))
  <2>1. ASSUME NEW g \in Nat, Owns(Own(p), g)
        PROVE  mem'[g] = mem[g]
    <3>1. g \in DOMAIN mem /\ Within(pgdir[p], g)
      BY <2>1, OwnsIs, OwnersAre DEF MemInv, NoneMore
    <3>2. g \notin S
      <4>1. g \in S => Owns(New(p), g)
        BY OwnsIs
      <4> QED BY <2>1, <4>1, OwnersAre, OwnersApart DEF MemInv, OneOwner
    <3> QED BY <1>1, <3>1, <3>2
  <2> QED BY <2>1 DEF Kept
<1>3. Promised
  BY <1>1, <1>2, QuietSeen
<1> QED BY <1>1, <1>3

\* growproc with n < 0.
LEMMA SbrkLessRight ==
  ASSUME MemInv, MemInv', DataInv, NEW p \in Slots, NEW n \in Sbrks, SbrkLess(p, n)
  PROVE  DataInv' /\ Promised
<1>1. PICK z : z = (sz[p] + n) % UINT
  OBVIOUS
<1>2. PICK s : s = pgdir[p]
  OBVIOUS
<1>3. PICK U : U = Visited(s, z, sz[p])
  OBVIOUS
<1>4. PICK c \in {"user", "fault"} : c = IF z = 0 THEN "fault" ELSE "user"
  OBVIOUS
<1>5. pgdir \in [Slots -> SpaceType] /\ call \in [Slots -> MemPcs] /\ DOMAIN sz = Slots
  BY DEF MemInv, MemTyped
<1>6. PICK B : B = Behind(s, U)
  OBVIOUS
<1>7. /\ mem' = [g \in DOMAIN mem |-> IF g \in B THEN Junk ELSE mem[g]]
      /\ pgdir' = [pgdir EXCEPT ![p] = Unmapped(s, U)]
      /\ sz' = [sz EXCEPT ![p] = IF z = 0 THEN @ ELSE z]
      /\ call' = [call EXCEPT ![p] = c] /\ UNCHANGED <<kstack, new, job>>
  BY <1>1, <1>2, <1>3, <1>4, <1>5, <1>6 DEF SbrkLess, GoTo, Kfree
<1>8. s \in SpaceType /\ InOnce(s) /\ U \in SUBSET DOMAIN s.map
  BY <1>2, <1>3, SlotIs, VisitedIn
<1>9. \A h \in B : h \in Nat /\ Within(s, h)
  BY <1>6, <1>8, BehindIs
<1>10. PICK t : t = Unmapped(s, U)
  OBVIOUS
<1>11. /\ t \in SpaceType /\ DOMAIN t.map = DOMAIN s.map \ U
       /\ \A v \in DOMAIN t.map : t.map[v] = s.map[v]
       /\ \A h \in Nat : h \in B => ~ Within(t, h)
  <2>1. /\ t \in SpaceType /\ DOMAIN t.map = DOMAIN s.map \ U
        /\ \A h \in Nat : h \in Behind(s, U) => ~ Within(t, h)
    BY <1>8, <1>10, UnmappedIs
  <2>2. t.map = [v \in DOMAIN s.map \ U |-> s.map[v]]
    BY <1>8, <1>10 DEF Unmapped, SpaceType
  <2> QED BY <1>6, <2>1, <2>2
<1>12. pgdir'[p] = t /\ call'[p] = c
  BY <1>5, <1>7, <1>10
<1>13. \A r \in Slots \ {p} : Kept(Own(r)) /\ Kept(New(r)) /\ Kept(Hand(r))
  <2>1. \A g \in DOMAIN mem \ B : mem'[g] = mem[g]
    BY <1>7
  <2>2. \A h \in Nat : h \in B => \/ Within(new[p], h) \/ Within(pgdir[p], h)
                                  \/ \E u \in Slots : Owns(Stack(u), h)
    BY <1>2, <1>9
  <2> QED BY <2>1, <2>2, FreedKept
<1>14. \A r \in Slots \ {p, p} : Untouched(r)
  BY <1>5, <1>7, <1>13 DEF Untouched, SameSlot
<1>15. DataOK(p)'
  <2>1. \A v \in DOMAIN pgdir'[p].map : v * PGSIZE < KERNBASE
    BY <1>2, <1>11, <1>12, OwnBelow
  <2> QED BY <1>4, <1>12, <2>1, IdleData
<1>16. DataInv'
  BY <1>14, <1>15, DataStep
<1>17. Promised
  <2>1. \A v \in DOMAIN t.map : mem'[s.map[v].page] = mem[s.map[v].page]
    <3> SUFFICES ASSUME NEW v \in DOMAIN t.map
                 PROVE  mem'[s.map[v].page] = mem[s.map[v].page]
      OBVIOUS
    <3>1. s.map[v].page \in Nat /\ Within(t, s.map[v].page) /\ Within(s, s.map[v].page)
      BY <1>8, <1>11, PageIs
    <3>2. s.map[v].page \in DOMAIN mem
      <4>1. Owns(Own(p), s.map[v].page)
        BY <1>2, <3>1, OwnsIs
      <4> QED BY <3>1, <4>1, OwnersAre DEF MemInv, NoneMore
    <3> QED BY <1>7, <1>11, <3>1, <3>2
  <2>2. \A r \in Slots \ {p} : pgdir'[r] = pgdir[r] /\ Kept(Own(r))
    BY <1>5, <1>7, <1>13
  <2> QED BY <1>2, <1>11, <1>12, <2>1, <2>2, ShrinkSeen
<1> QED BY <1>16, <1>17

\* wait.
LEMMA ReapRight ==
  ASSUME MemInv, MemInv', DataInv, NEW p \in Slots, Reap(p)
  PROVE  DataInv' /\ Promised
<1>1. PICK B : B = All(pgdir[p]) \cup {kstack[p]}
  OBVIOUS
<1>2. /\ call[p] = "zombie" /\ mem' = [g \in DOMAIN mem |-> IF g \in B THEN Junk ELSE mem[g]]
      /\ kstack' = [kstack EXCEPT ![p] = 0] /\ pgdir' = [pgdir EXCEPT ![p] = NoSpace]
      /\ call' = [call EXCEPT ![p] = "unused"] /\ UNCHANGED <<sz, new, job>>
  BY <1>1 DEF Reap, At, GoTo, Kfree
<1>3. /\ pgdir \in [Slots -> SpaceType] /\ call \in [Slots -> MemPcs] /\ kstack \in [Slots -> Nat]
      /\ pgdir[p] \in SpaceType
  BY DEF MemInv, MemTyped
<1>4. kstack[p] # 0 /\ Owns(Stack(p), kstack[p])
  <2>1. kstack[p] # 0
    BY <1>2, SlotIs DEF PlaceOK
  <2> QED BY <2>1, OwnsIs
<1>5. \A r \in Slots \ {p} : Kept(Own(r)) /\ Kept(New(r)) /\ Kept(Hand(r))
  <2>1. \A g \in DOMAIN mem \ B : mem'[g] = mem[g]
    BY <1>2
  <2>2. \A h \in Nat : h \in B => \/ Within(new[p], h) \/ Within(pgdir[p], h)
                                  \/ \E u \in Slots : Owns(Stack(u), h)
    BY <1>1, <1>3, <1>4, AllIs
  <2> QED BY <2>1, <2>2, FreedKept
<1>6. pgdir'[p] = NoSpace /\ call'[p] = "unused" /\ DOMAIN NoSpace.map = {}
  BY <1>2, <1>3, NoSpaceIs DEF NoSpace
<1>7. \A r \in Slots \ {p, p} : Untouched(r)
  BY <1>2, <1>3, <1>5 DEF Untouched, SameSlot
<1>8. DataOK(p)'
  BY <1>6, IdleData
<1>9. DataInv'
  BY <1>7, <1>8, DataStep
<1>10. Promised
  <2>1. \A r \in Slots \ {p} : pgdir'[r] = pgdir[r] /\ Kept(Own(r))
    BY <1>2, <1>3, <1>5
  <2> QED BY <1>6, <2>1, ShrinkSeen
<1> QED BY <1>9, <1>10

\* setupkvm.
LEMMA SetupRight ==
  ASSUME MemInv, MemInv', DataInv, NEW p \in Slots, Setup(p)
  PROVE  DataInv' /\ Promised
<1>1. call[p] = "setup" /\ UNCHANGED <<pgdir, sz>>
  BY DEF Setup, At
<1>2. CASE free = {}
  <2>1. PICK S : S = {}
    OBVIOUS
  <2>2. Fail(p, S)
    BY <1>2, <2>1 DEF Setup
  <2> QED BY <1>1, <2>1, <2>2, FailRight
<1>3. CASE free # {}
  <2>1. PICK t : t = SetupSpace(new[p], Min(free))
    OBVIOUS
  <2>2. Got(Zero) /\ UNCHANGED <<kstack, job>> /\ new' = [new EXCEPT ![p] = t]
    BY <1>3, <2>1 DEF Setup, SetupSpace
  <2>3. PICK c \in {"setup", "copy", "grow"} : call' = [call EXCEPT ![p] = c]
    BY <1>3 DEF Setup, GoTo
  <2>4. new \in [Slots -> SpaceType] /\ call \in [Slots -> MemPcs]
    BY DEF MemInv, MemTyped
  <2>5. new'[p] = t /\ call'[p] = c /\ \A r \in Slots \ {p} : SameSlot(r)
    BY <1>1, <2>2, <2>3, <2>4 DEF SameSlot
  <2>6. t.map = new[p].map /\ DOMAIN new[p].map = {}
    <3>1. new[p] \in SpaceType /\ new[p].map = NoMap /\ Min(free) \in PageNos
      BY <1>1, <1>3, SlotIs, FreeIs DEF PlaceOK
    <3> QED BY <2>1, <3>1, SetupSpaceIs, NoSpaceIs
  <2>7. \A r \in Slots : Kept(Own(r)) /\ Kept(New(r)) /\ Kept(Hand(r))
    BY <1>3, <2>2, GotKept
  <2>8. DataOK(p)'
    <3>1. CopyOK(p) => CopyOK(p)'
      BY <2>2, <2>5, <2>6 DEF CopyOK
    <3>2. ImageOK(p) => ImageOK(p)'
      BY <2>2, <2>5, <2>6 DEF ImageOK
    <3>3. DataOK(p)
      BY DEF DataInv
    <3> QED BY <1>1, <2>2, <2>3, <2>5, <3>1, <3>2, <3>3 DEF DataOK
  <2>9. DataInv'
    BY <2>5, <2>7, <2>8, DataStep DEF Untouched
  <2>10. Promised
    BY <1>1, <2>7, QuietSeen
  <2> QED BY <2>9, <2>10
<1> QED BY <1>2, <1>3

\* The entries after mappages.
LEMMA WithMap ==
  ASSUME NEW s \in SpaceType, NEW v \in Nat, NEW g, NEW u, NEW t, t = With(s, v, g, u)
  PROVE  /\ DOMAIN t.map = DOMAIN s.map \cup {v}
         /\ t.map[v].page = g /\ t.map[v].user = u
         /\ \A z \in DOMAIN s.map : z # v => t.map[z] = s.map[z]
<1>1. t.map = Put(s.map, v, [page |-> g, user |-> u])
  BY DEF With, SpaceType
<1> QED BY <1>1 DEF Put

\* A step leaves alone what a call has made so far.
LEMMA MadeKept ==
  ASSUME MemInv, NEW p \in Slots, pgdir'[p] = pgdir[p], new'[p] = new[p],
         Kept(Own(p)), Kept(New(p)),
         job'[p].prog = job[p].prog, job'[p].seg = job[p].seg, job'[p].end = job[p].end,
         job'[p].a \in {job[p].a, job[p].a + 1}
  PROVE  /\ job'[p].a = job[p].a /\ CopyOK(p) => CopyOK(p)'
         /\ ImageOK(p) => ImageOK(p)'
<1>1. /\ \A v \in DOMAIN pgdir[p].map : mem'[pgdir[p].map[v].page] = mem[pgdir[p].map[v].page]
      /\ \A v \in DOMAIN new[p].map : mem'[new[p].map[v].page] = mem[new[p].map[v].page]
  BY KeptPages
<1>2. /\ job[p].a \in Nat /\ \A v \in DOMAIN new[p].map : v \in Nat
  <2>1. new[p] \in SpaceType /\ job[p] \in JobType
    BY SlotIs
  <2> QED BY <2>1, SpaceIs DEF JobType
<1>3. job'[p].a = job[p].a /\ CopyOK(p) => CopyOK(p)'
  BY <1>1 DEF CopyOK
<1>4. ASSUME ImageOK(p)
      PROVE  ImageOK(p)'
  <2>1. \A v \in Nat : v < job[p].a => v < job'[p].a
    BY <1>2
  <2> QED BY <1>1, <1>2, <1>4, <2>1 DEF ImageOK
<1> QED BY <1>3, <1>4

\* An iteration up to the allocation of a page table page.
LEMMA TakingRight ==
  ASSUME MemInv, MemInv', DataInv, NEW p \in Slots, call[p] \in {"grow", "copy"}, free # {},
         NEW c, Got(c), job' = [job EXCEPT ![p].page = Min(free)],
         call' = [call EXCEPT ![p] = IF call[p] = "grow" THEN "table" ELSE "copytable"],
         UNCHANGED <<kstack, sz, pgdir, new>>,
         call[p] = "grow" => c = Zero,
         call[p] = "copy" => /\ job[p].a \in DOMAIN pgdir[p].map
                             /\ c = mem[pgdir[p].map[job[p].a].page]
  PROVE  DataInv' /\ Promised
<1>1. \A r \in Slots : Kept(Own(r)) /\ Kept(New(r)) /\ Kept(Hand(r))
  BY GotKept
<1>2. mem'[Min(free)] = c
  BY GotKept
<1>3. job \in [Slots -> JobType] /\ call \in [Slots -> MemPcs]
  BY DEF MemInv, MemTyped
<1>4. /\ job'[p].page = Min(free) /\ job'[p].a = job[p].a /\ job'[p].op = job[p].op
      /\ job'[p].end = job[p].end /\ job'[p].prog = job[p].prog /\ job'[p].seg = job[p].seg
  <2>1. job'[p] = [job[p] EXCEPT !.page = Min(free)] /\ job[p] \in JobType
    BY <1>3
  <2> QED BY <2>1 DEF JobType
<1>5. /\ call'[p] = IF call[p] = "grow" THEN "table" ELSE "copytable"
      /\ \A r \in Slots \ {p} : SameSlot(r)
  BY <1>3 DEF SameSlot
<1>6. DataOK(p)'
  <2>1. (CopyOK(p) => CopyOK(p)') /\ (ImageOK(p) => ImageOK(p)')
    BY <1>1, <1>4, MadeKept
  <2>2. call[p] = "copy" => c = mem'[pgdir[p].map[job[p].a].page]
    BY <1>1, KeptPages
  <2>3. DataOK(p)
    BY DEF DataInv
  <2> QED BY <1>2, <1>4, <1>5, <2>1, <2>2, <2>3 DEF DataOK
<1>7. DataInv'
  BY <1>1, <1>5, <1>6, DataStep DEF Untouched
<1>8. Promised
  BY <1>1, QuietSeen
<1> QED BY <1>7, <1>8

\* mappages for page g.
LEMMA MapRight ==
  ASSUME MemInv, MemInv', DataInv, NEW p \in Slots,
         call[p] \in {"grow", "table", "copy", "copytable"},
         NEW s \in SpaceType, s.map = Space(p).map, NEW g, NEW u, Map(p, s, g, u),
         \A r \in Slots : Kept(Own(r)) /\ Kept(New(r)) /\ Kept(Hand(r)),
         UNCHANGED <<kstack, sz>>, job[p].a * PGSIZE < job[p].end, job[p].end < KERNBASE,
         call' = [call EXCEPT ![p] = IF call[p] \in {"grow", "table"} THEN "grow" ELSE "copy"],
         call[p] \in {"grow", "table"} => u = TRUE /\ mem'[g] = Zero,
         call[p] \in {"copy", "copytable"} =>
           /\ job[p].a \in DOMAIN pgdir[p].map /\ u = pgdir[p].map[job[p].a].user
           /\ mem'[g] = mem[pgdir[p].map[job[p].a].page]
  PROVE  DataInv' /\ Promised
<1>1. PICK a \in Nat : a = job[p].a
  BY FinishedIs
<1>2. PICK t : t = IF a \in DOMAIN s.map THEN s ELSE With(s, a, g, u)
  OBVIOUS
<1>3. SetSpace(p, t) /\ job' = [job EXCEPT ![p].a = @ + 1, ![p].page = 0]
  BY <1>1, <1>2 DEF Map
<1>4. a \notin DOMAIN s.map => /\ DOMAIN t.map = DOMAIN s.map \cup {a}
                               /\ t.map[a].page = g /\ t.map[a].user = u
                               /\ \A z \in DOMAIN s.map : t.map[z] = s.map[z]
  BY <1>1, <1>2, WithMap
<1>5. /\ job \in [Slots -> JobType] /\ call \in [Slots -> MemPcs]
      /\ pgdir \in [Slots -> SpaceType] /\ new \in [Slots -> SpaceType] /\ job[p] \in JobType
  BY DEF MemInv, MemTyped
<1>6. /\ job'[p].page = 0 /\ job'[p].a = a + 1 /\ job'[p].op = job[p].op
      /\ job'[p].end = job[p].end /\ job'[p].prog = job[p].prog /\ job'[p].seg = job[p].seg
      /\ \A r \in Slots \ {p} : job'[r] = job[r]
  <2>1. job'[p] = [job[p] EXCEPT !.a = @ + 1, !.page = 0]
    BY <1>3, <1>5
  <2>2. job'[p].a = job[p].a + 1 /\ job'[p].page = 0
    BY <1>5, <2>1 DEF JobType
  <2>3. /\ job'[p].op = job[p].op /\ job'[p].end = job[p].end
        /\ job'[p].prog = job[p].prog /\ job'[p].seg = job[p].seg
    BY <1>5, <2>1 DEF JobType
  <2> QED BY <1>1, <1>3, <1>5, <2>2, <2>3
<1>7. call'[p] = IF call[p] \in {"grow", "table"} THEN "grow" ELSE "copy"
  BY <1>5
<1>8. /\ job[p].op = "sbrk" => pgdir' = [pgdir EXCEPT ![p] = t] /\ new' = new
      /\ job[p].op # "sbrk" => pgdir' = pgdir /\ new' = [new EXCEPT ![p] = t]
  BY <1>3 DEF SetSpace
<1>9. \A r \in Slots \ {p} : SameSlot(r)
  BY <1>5, <1>6, <1>8 DEF SameSlot
<1>10. a * PGSIZE < KERNBASE /\ a \in Vpns
  <2>1. a * PGSIZE \in Nat /\ job[p].end \in Nat /\ KERNBASE \in Nat
    BY <1>1, FinishedIs, MemConstants
  <2>2. a * PGSIZE < KERNBASE
    BY <1>1, <2>1
  <2> QED BY <2>2, BelowTop
<1>11. /\ \A v \in DOMAIN pgdir[p].map : mem'[pgdir[p].map[v].page] = mem[pgdir[p].map[v].page]
       /\ \A v \in DOMAIN new[p].map : mem'[new[p].map[v].page] = mem[new[p].map[v].page]
  BY KeptPages
<1>12. DataOK(p) /\ \A v \in DOMAIN pgdir[p].map : v * PGSIZE < KERNBASE
  BY OwnBelow DEF DataInv
<1>13. CASE job[p].op = "sbrk"
  <2>1. s.map = pgdir[p].map /\ pgdir'[p] = t /\ call'[p] = "grow" /\ call[p] \in {"grow", "table"}
    BY <1>5, <1>7, <1>8, <1>13, SlotIs DEF Space, PlaceOK
  <2>2. DataOK(p)'
    <3>1. \A v \in DOMAIN t.map : v * PGSIZE < KERNBASE
      BY <1>2, <1>4, <1>10, <1>12, <2>1
    <3> QED BY <1>6, <1>13, <2>1, <3>1 DEF DataOK
  <2>3. DataInv'
    BY <1>9, <2>2, DataStep DEF Untouched
  <2>4. \A r \in Slots \ {p} : pgdir'[r] = pgdir[r]
    BY <1>9 DEF SameSlot
  <2>5. CASE a \in DOMAIN s.map
    <3>1. \A r \in Slots : pgdir'[r].map = pgdir[r].map
      BY <1>2, <2>1, <2>4, <2>5
    <3>2. Promised
      BY <1>11, <2>1, <2>4, <3>1, ShrinkSeen
    <3> QED BY <2>3, <3>2
  <2>6. CASE a \notin DOMAIN s.map
    <3>1. Seen' = [Seen EXCEPT ![p] = ImageIn(mem', t)]
      <4>1. \A r \in Slots \ {p} : Seen'[r] = Seen[r]
        BY <2>4, SeenKept
      <4> QED BY <2>1, <4>1, SeenStep
    <3>2. Seen[p] = ImageIn(mem, pgdir[p])
      BY SeenIs
    <3>3. DOMAIN Seen[p] = DOMAIN s.map
      BY <2>1, <3>2 DEF ImageIn
    <3>4. ImageIn(mem', t) = [v \in DOMAIN Seen[p] \cup {a} |->
                                IF v = a THEN [data |-> Zero, user |-> TRUE] ELSE Seen[p][v]]
      <4>1. \A v \in DOMAIN s.map : v # a /\ Seen[p][v] = [data |-> mem'[t.map[v].page],
                                                          user |-> t.map[v].user]
        BY <1>4, <1>11, <2>1, <2>6, <3>2 DEF ImageIn
      <4>2. mem'[t.map[a].page] = Zero /\ t.map[a].user = TRUE
        BY <1>4, <2>1, <2>6
      <4> QED BY <1>4, <2>6, <3>3, <4>1, <4>2 DEF ImageIn
    <3>5. Spaces!Next
      BY <1>10, <2>6, <3>1, <3>3, <3>4, Grew
    <3> QED BY <2>3, <3>5 DEF Promised
  <2> QED BY <2>5, <2>6
<1>14. CASE job[p].op # "sbrk"
  <2>1. s.map = new[p].map /\ new'[p] = t /\ pgdir'[p] = pgdir[p]
    BY <1>5, <1>8, <1>14 DEF Space
  <2>2. job[p].op = "fork" => CopyOK(p)'
    <3> SUFFICES ASSUME job[p].op = "fork"
                 PROVE  CopyOK(p)'
      OBVIOUS
    <3>1. call[p] \in {"copy", "copytable"} /\ CopyOK(p)
      BY <1>12, SlotIs DEF PlaceOK, DataOK
    <3>2. DOMAIN s.map = 0..(a - 1)
      BY <1>1, <2>1, <3>1 DEF CopyOK
    <3>3. a \notin DOMAIN s.map /\ DOMAIN t.map = 0..(a + 1 - 1)
      <4>1. a \notin DOMAIN s.map
        BY <1>1, <3>2
      <4>2. DOMAIN t.map = (0..(a - 1)) \cup {a}
        BY <1>4, <3>2, <4>1
      <4> QED BY <1>1, <4>1, <4>2
    <3>4. \A v \in DOMAIN t.map : v = a \/ v \in DOMAIN s.map
      BY <1>4, <3>3
    <3>5. ASSUME NEW v \in DOMAIN t.map
          PROVE  /\ v \in DOMAIN pgdir[p].map /\ t.map[v].user = pgdir[p].map[v].user
                 /\ mem'[t.map[v].page] = mem'[pgdir[p].map[v].page]
      <4>1. CASE v = a
        BY <1>1, <1>4, <1>11, <3>1, <3>3, <4>1
      <4>2. CASE v \in DOMAIN s.map
        <5>1. /\ v \in DOMAIN pgdir[p].map /\ s.map[v].user = pgdir[p].map[v].user
              /\ mem[s.map[v].page] = mem[pgdir[p].map[v].page]
          BY <2>1, <3>1, <4>2 DEF CopyOK
        <5> QED BY <1>4, <1>11, <2>1, <3>3, <4>2, <5>1
      <4> QED BY <3>4, <4>1, <4>2
    <3> QED BY <1>6, <2>1, <3>3, <3>5 DEF CopyOK
  <2>3. job[p].op = "exec" => ImageOK(p)'
    <3> SUFFICES ASSUME job[p].op = "exec"
                 PROVE  ImageOK(p)'
      OBVIOUS
    <3>1. call[p] \in {"grow", "table"} /\ ImageOK(p)
      BY <1>12, SlotIs DEF PlaceOK, DataOK
    <3>2. \A v \in DOMAIN s.map : v \in Nat /\ v < a
      <4>1. \A v \in DOMAIN s.map : v \in Nat
        BY SpaceIs
      <4> QED BY <1>1, <2>1, <3>1, <4>1 DEF ImageOK
    <3>3. a \notin DOMAIN s.map
      BY <1>1, <3>2
    <3>4. ~ Filled(job[p].prog, job[p].seg - 1, a)
      BY <1>1, <3>1 DEF ImageOK
    <3>5. ASSUME NEW v \in DOMAIN t.map
          PROVE  /\ v < a + 1 /\ v * PGSIZE < job[p].end /\ v * PGSIZE < KERNBASE
                 /\ t.map[v].user
                 /\ mem'[t.map[v].page] =
                      IF Filled(job[p].prog, job[p].seg - 1, v) THEN Text ELSE Zero
      <4>1. CASE v = a
        BY <1>1, <1>4, <1>10, <3>1, <3>3, <3>4, <4>1
      <4>2. CASE v \in DOMAIN s.map
        <5>1. /\ v < a /\ v * PGSIZE < job[p].end /\ v * PGSIZE < KERNBASE /\ s.map[v].user
              /\ mem[s.map[v].page] =
                   IF Filled(job[p].prog, job[p].seg - 1, v) THEN Text ELSE Zero
          BY <1>1, <2>1, <3>1, <4>2 DEF ImageOK
        <5>2. v < a + 1
          BY <1>1, <3>2, <4>2
        <5> QED BY <1>4, <1>11, <2>1, <3>3, <4>2, <5>1, <5>2
      <4> QED BY <1>4, <3>3, <4>1, <4>2
    <3>6. \A v \in Nat : Filled(job[p].prog, job[p].seg - 1, v) => v < a + 1
      <4>1. \A v \in Nat : Filled(job[p].prog, job[p].seg - 1, v) => v < a
        BY <1>1, <3>1 DEF ImageOK
      <4> QED BY <1>1, <4>1
    <3> QED BY <1>6, <2>1, <3>1, <3>5, <3>6 DEF ImageOK
  <2>4. DataOK(p)'
    BY <1>6, <1>7, <1>12, <2>1, <2>2, <2>3 DEF DataOK
  <2>5. DataInv'
    BY <1>9, <2>4, DataStep DEF Untouched
  <2>6. Promised
    BY <1>8, <1>14, QuietSeen
  <2> QED BY <2>5, <2>6
<1> QED BY <1>13, <1>14

\* allocuvm fails.
LEMMA GrowFailsRight ==
  ASSUME MemInv, MemInv', DataInv, NEW p \in Slots, Grow(p),
         free = {} \/ job[p].end >= KERNBASE
  PROVE  DataInv' /\ Promised
<1>1. PICK s : s = Space(p)
  OBVIOUS
<1>2. PICK U : U = Undone(p, s)
  OBVIOUS
<1>3. PICK S : S = Behind(s, U) \cup IF job[p].op = "exec" THEN All(s) ELSE {}
  OBVIOUS
<1>4. /\ call[p] = "grow" /\ UNCHANGED sz /\ Fail(p, S)
      /\ pgdir' = IF job[p].op = "exec" THEN pgdir
                  ELSE [pgdir EXCEPT ![p] = Unmapped(s, U)]
  BY <1>1, <1>2, <1>3 DEF Grow, At
<1>5. job[p].op \in {"sbrk", "exec"}
  BY <1>4, SlotIs DEF PlaceOK
<1>6. s \in SpaceType /\ InOnce(s) /\ U \in SUBSET DOMAIN s.map
  BY <1>1, <1>2, SpaceOwnerIs, VisitedIn DEF Undone
<1>7. \A h \in S : h \in Nat /\ Within(s, h)
  BY <1>3, <1>6, AllIs, BehindIs
<1>8. CASE job[p].op = "exec"
  <2>1. s = new[p] /\ UNCHANGED <<pgdir, sz>>
    BY <1>1, <1>4, <1>8 DEF Space
  <2> QED BY <1>4, <1>7, <2>1, FailRight
<1>9. CASE job[p].op = "sbrk"
  <2>1. PICK t : t = Unmapped(s, U)
    OBVIOUS
  <2>2. s = pgdir[p] /\ pgdir' = [pgdir EXCEPT ![p] = t] /\ S = Behind(s, U)
    BY <1>1, <1>3, <1>4, <1>9, <2>1 DEF Space
  <2>3. pgdir \in [Slots -> SpaceType]
    BY DEF MemInv, MemTyped
  <2>4. /\ t \in SpaceType /\ DOMAIN t.map = DOMAIN s.map \ U
        /\ \A v \in DOMAIN t.map : t.map[v] = s.map[v]
        /\ \A h \in Nat : h \in S => ~ Within(t, h)
    <3>1. /\ t \in SpaceType /\ DOMAIN t.map = DOMAIN s.map \ U
          /\ \A h \in Nat : h \in Behind(s, U) => ~ Within(t, h)
      BY <1>6, <2>1, UnmappedIs
    <3>2. t.map = [v \in DOMAIN s.map \ U |-> s.map[v]]
      BY <1>6, <2>1 DEF Unmapped, SpaceType
    <3> QED BY <2>2, <3>1, <3>2
  <2>5. pgdir'[p] = t /\ \A r \in Slots \ {p} : pgdir'[r] = pgdir[r]
    BY <2>2, <2>3
  <2>6. \A v \in DOMAIN pgdir'[p].map : v * PGSIZE < KERNBASE
    BY <2>2, <2>4, <2>5, OwnBelow
  <2>7. /\ DataInv' /\ \A r \in Slots \ {p} : Kept(Own(r))
        /\ \A g \in DOMAIN mem : g \notin S /\ Within(pgdir[p], g) => mem'[g] = mem[g]
    <3>1. \A h \in S : h \in Nat /\ (Within(new[p], h) \/ Within(pgdir[p], h))
      BY <1>7, <2>2
    <3> QED BY <1>4, <2>5, <2>6, <3>1, FailIs
  <2>8. \A v \in DOMAIN t.map : mem'[s.map[v].page] = mem[s.map[v].page]
    <3> SUFFICES ASSUME NEW v \in DOMAIN t.map
                 PROVE  mem'[s.map[v].page] = mem[s.map[v].page]
      OBVIOUS
    <3>1. s.map[v].page \in Nat /\ Within(t, s.map[v].page) /\ Within(s, s.map[v].page)
      BY <1>6, <2>4, PageIs
    <3>2. s.map[v].page \in DOMAIN mem
      <4>1. Owns(Own(p), s.map[v].page)
        BY <2>2, <3>1, OwnsIs
      <4> QED BY <3>1, <4>1, OwnersAre DEF MemInv, NoneMore
    <3> QED BY <2>2, <2>4, <2>7, <3>1, <3>2
  <2>9. Promised
    BY <2>2, <2>4, <2>5, <2>7, <2>8, ShrinkSeen
  <2> QED BY <2>7, <2>9
<1> QED BY <1>5, <1>8, <1>9

LEMMA GrowRight ==
  ASSUME MemInv, MemInv', DataInv, NEW p \in Slots, Grow(p)
  PROVE  DataInv' /\ Promised
<1>1. CASE free = {} \/ job[p].end >= KERNBASE
  BY <1>1, GrowFailsRight
<1>2. CASE ~ (free = {} \/ job[p].end >= KERNBASE)
  <2>1. /\ call[p] = "grow" /\ ~ Finished(p) /\ free # {} /\ job[p].end < KERNBASE
        /\ Got(Zero) /\ UNCHANGED <<kstack, sz>>
    BY <1>2, FinishedIs, MemConstants DEF Grow, At
  <2>2. job[p].a * PGSIZE < job[p].end
    BY <2>1, FinishedIs
  <2>3. CASE Missing(Space(p), job[p].a)
    <3>1. /\ job' = [job EXCEPT ![p].page = Min(free)]
          /\ call' = [call EXCEPT ![p] = "table"] /\ UNCHANGED <<pgdir, new>>
      BY <1>2, <2>3 DEF Grow, GoTo
    <3> QED BY <2>1, <3>1, TakingRight
  <2>4. CASE ~ Missing(Space(p), job[p].a)
    <3>1. PICK s : s = Space(p)
      OBVIOUS
    <3>2. PICK g : g = Min(free)
      OBVIOUS
    <3>3. Map(p, s, g, TRUE) /\ UNCHANGED call
      BY <1>2, <2>4, <3>1, <3>2 DEF Grow
    <3>4. mem'[g] = Zero /\ \A r \in Slots : Kept(Own(r)) /\ Kept(New(r)) /\ Kept(Hand(r))
      BY <2>1, <3>2, GotKept
    <3>5. s \in SpaceType
      BY <3>1, SpaceOwnerIs
    <3>6. call' = [call EXCEPT ![p] = "grow"]
      <4>1. call \in [Slots -> MemPcs]
        BY DEF MemInv, MemTyped
      <4> QED BY <2>1, <3>3, <4>1
    <3> QED BY <2>1, <2>2, <3>1, <3>3, <3>4, <3>5, <3>6, MapRight
  <2> QED BY <2>3, <2>4
<1> QED BY <1>1, <1>2

\* With the page table page, the entries are still those there were.
LEMMA TabledMap ==
  ASSUME MemInv, NEW p \in Slots, free # {}
  PROVE  LET w == Tabled(Space(p), job[p].a)
         IN  w \in SpaceType /\ w.map = Space(p).map
<1>1. /\ Space(p) \in SpaceType /\ job[p].a \in Nat /\ free \subseteq PageNos /\ Min(free) \in PageNos
  BY SpaceOwnerIs, FinishedIs, FreeIs, SlotIs
<1>2. PDX(job[p].a) \in Nat
  BY <1>1, PdxIs
<1>3. PICK s : s = Space(p)
  OBVIOUS
<1>4. PICK f : f = Put(s.tabs, PDX(job[p].a), Min(free))
  OBVIOUS
<1>5. f \in Maps(PageNos)
  <2>1. s.tabs \in Maps(PageNos)
    BY <1>1, <1>3, SpaceIs
  <2> QED BY <1>1, <1>2, <1>4, <2>1, PutIs DEF Puts
<1>6. Tabled(s, job[p].a) = [s EXCEPT !.tabs = f]
  BY <1>4 DEF Tabled
<1> QED BY <1>1, <1>3, <1>5, <1>6 DEF SpaceType

\* mappages after walkpgdir has allocated a page table page.
LEMMA TabledRight ==
  ASSUME MemInv, MemInv', DataInv, NEW p \in Slots, call[p] \in {"table", "copytable"},
         free # {}, Got(Zero), NEW u, Map(p, Tabled(Space(p), job[p].a), job[p].page, u),
         UNCHANGED <<kstack, sz>>,
         call' = [call EXCEPT ![p] = IF call[p] \in {"grow", "table"} THEN "grow" ELSE "copy"],
         call[p] = "table" => u = TRUE,
         call[p] = "copytable" => u = pgdir[p].map[job[p].a].user
  PROVE  DataInv' /\ Promised
<1>1. PICK s : s = Tabled(Space(p), job[p].a)
  OBVIOUS
<1>2. PICK g : g = job[p].page
  OBVIOUS
<1>3. s \in SpaceType /\ s.map = Space(p).map /\ Map(p, s, g, u)
  BY <1>1, <1>2, TabledMap
<1>4. /\ job[p].page # 0 /\ job[p].a * PGSIZE < job[p].end /\ job[p].end < KERNBASE
      /\ call[p] = "copytable" => job[p].a \in DOMAIN pgdir[p].map
  BY SlotIs DEF PlaceOK
<1>5. \A r \in Slots : Kept(Own(r)) /\ Kept(New(r)) /\ Kept(Hand(r))
  BY GotKept
<1>6. mem'[g] = mem[g]
  BY <1>2, <1>4, <1>5, KeptPages
<1>7. /\ call[p] = "table" => mem[g] = Zero
      /\ call[p] = "copytable" => mem[g] = mem[pgdir[p].map[job[p].a].page]
  BY <1>2 DEF DataInv, DataOK
<1> QED BY <1>3, <1>4, <1>5, <1>6, <1>7, MapRight

LEMMA GrowTableRight ==
  ASSUME MemInv, MemInv', DataInv, NEW p \in Slots, GrowTable(p)
  PROVE  DataInv' /\ Promised
<1>1. call[p] = "table" /\ call' = [call EXCEPT ![p] = "grow"] /\ UNCHANGED <<kstack, sz>>
  BY DEF GrowTable, At, GoTo
<1>2. CASE free = {}
  <2>1. /\ job' = [job EXCEPT ![p].a = @ + 1, ![p].page = 0]
        /\ UNCHANGED <<mem, pgdir, new>>
    BY <1>2 DEF GrowTable
  <2>2. job \in [Slots -> JobType] /\ job[p] \in JobType /\ call \in [Slots -> MemPcs]
    BY DEF MemInv, MemTyped
  <2>3. job'[p] = [job[p] EXCEPT !.a = @ + 1, !.page = 0]
    BY <2>1, <2>2
  <2>4. job'[p].a = job[p].a + 1 /\ job'[p].op = job[p].op
    BY <2>2, <2>3 DEF JobType
  <2>5. job'[p].prog = job[p].prog /\ job'[p].seg = job[p].seg /\ job'[p].end = job[p].end
    BY <2>2, <2>3 DEF JobType
  <2>6. call'[p] = "grow" /\ \A r \in Slots \ {p} : SameSlot(r)
    BY <1>1, <2>1, <2>2 DEF SameSlot
  <2>7. DataOK(p)'
    <3>1. ImageOK(p) => ImageOK(p)'
      BY <2>1, <2>4, <2>5, AllKeep, MadeKept
    <3>2. job[p].op # "fork"
      BY <1>1, SlotIs DEF PlaceOK
    <3>3. DataOK(p)
      BY DEF DataInv
    <3> QED BY <2>1, <2>4, <2>6, <3>1, <3>2, <3>3 DEF DataOK
  <2> QED BY <2>1, <2>6, <2>7, SteadyRight
<1>3. CASE free # {}
  <2>1. Got(Zero) /\ Map(p, Tabled(Space(p), job[p].a), job[p].page, TRUE)
    BY <1>3 DEF GrowTable
  <2> QED BY <1>1, <1>3, <2>1, TabledRight
<1> QED BY <1>2, <1>3

LEMMA CopyRight ==
  ASSUME MemInv, MemInv', DataInv, NEW p \in Slots, Copy(p)
  PROVE  DataInv' /\ Promised
<1>1. call[p] = "copy" /\ ~ Finished(p) /\ UNCHANGED sz
  BY DEF Copy, At
<1>2. /\ Space(p) = new[p] /\ job[p].end < KERNBASE /\ job[p].a * PGSIZE < job[p].end
  BY <1>1, CopyAt
<1>3. CASE job[p].a \notin DOMAIN pgdir[p].map
  <2>1. UNCHANGED <<free, mem, kstack, pgdir, call, new, job>>
    BY <1>3 DEF Copy
  <2>2. \A r \in Slots : SameSlot(r)
    BY <1>1, <2>1 DEF SameSlot
  <2>3. DataOK(p)'
    BY <2>1, <2>2, AllKeep, DataKept DEF DataInv
  <2> QED BY <2>1, <2>2, <2>3, SteadyRight
<1>4. CASE job[p].a \in DOMAIN pgdir[p].map /\ free = {}
  <2>1. PICK S : S = All(new[p])
    OBVIOUS
  <2>2. Fail(p, S) /\ UNCHANGED <<pgdir, sz>>
    BY <1>1, <1>4, <2>1 DEF Copy
  <2>3. \A h \in S : h \in Nat /\ Within(new[p], h)
    BY <2>1, AllIs, SlotIs
  <2> QED BY <2>2, <2>3, FailRight
<1>5. CASE job[p].a \in DOMAIN pgdir[p].map /\ free # {}
  <2>1. PICK c : c = mem[pgdir[p].map[job[p].a].page]
    OBVIOUS
  <2>2. Got(c) /\ UNCHANGED kstack
    BY <1>5, <2>1 DEF Copy
  <2>3. CASE Missing(new[p], job[p].a)
    <3>1. /\ job' = [job EXCEPT ![p].page = Min(free)]
          /\ call' = [call EXCEPT ![p] = "copytable"] /\ UNCHANGED <<pgdir, new>>
      BY <1>5, <2>3 DEF Copy, GoTo
    <3> QED BY <1>1, <1>5, <2>1, <2>2, <3>1, TakingRight
  <2>4. CASE ~ Missing(new[p], job[p].a)
    <3>1. PICK s : s = new[p]
      OBVIOUS
    <3>2. PICK g : g = Min(free)
      OBVIOUS
    <3>3. PICK u : u = pgdir[p].map[job[p].a].user
      OBVIOUS
    <3>4. Map(p, s, g, u) /\ UNCHANGED call
      BY <1>5, <2>4, <3>1, <3>2, <3>3 DEF Copy
    <3>5. mem'[g] = c /\ \A r \in Slots : Kept(Own(r)) /\ Kept(New(r)) /\ Kept(Hand(r))
      BY <1>5, <2>2, <3>2, GotKept
    <3>6. s \in SpaceType /\ s.map = Space(p).map
      BY <1>2, <3>1, SpaceOwnerIs
    <3>7. call' = [call EXCEPT ![p] = "copy"]
      <4>1. call \in [Slots -> MemPcs]
        BY DEF MemInv, MemTyped
      <4> QED BY <1>1, <3>4, <4>1
    <3> QED BY <1>1, <1>2, <1>5, <2>1, <2>2, <3>3, <3>4, <3>5, <3>6, <3>7, MapRight
  <2> QED BY <2>3, <2>4
<1> QED BY <1>3, <1>4, <1>5

LEMMA CopyTableRight ==
  ASSUME MemInv, MemInv', DataInv, NEW p \in Slots, CopyTable(p)
  PROVE  DataInv' /\ Promised
<1>1. call[p] = "copytable" /\ UNCHANGED sz
  BY DEF CopyTable, At
<1>2. Space(p) = new[p]
  BY <1>1, SlotIs DEF PlaceOK, Space
<1>3. CASE free = {}
  <2>1. PICK S : S = All(new[p])
    OBVIOUS
  <2>2. Fail(p, S) /\ UNCHANGED <<pgdir, sz>>
    BY <1>1, <1>3, <2>1 DEF CopyTable
  <2>3. \A h \in S : h \in Nat /\ Within(new[p], h)
    BY <2>1, AllIs, SlotIs
  <2> QED BY <2>2, <2>3, FailRight
<1>4. CASE free # {}
  <2>1. PICK u : u = pgdir[p].map[job[p].a].user
    OBVIOUS
  <2>2. /\ Got(Zero) /\ UNCHANGED kstack
        /\ Map(p, Tabled(Space(p), job[p].a), job[p].page, u)
        /\ call' = [call EXCEPT ![p] = "copy"]
    BY <1>2, <1>4, <2>1 DEF CopyTable, GoTo
  <2> QED BY <1>1, <1>4, <2>1, <2>2, TabledRight
<1> QED BY <1>3, <1>4

LEMMA ForkedRight ==
  ASSUME MemInv, MemInv', DataInv, NEW p \in Slots, Forked(p)
  PROVE  DataInv' /\ Promised
<1>1. PICK q : q = job[p].child
  OBVIOUS
<1>2. PICK t : t = new[p]
  OBVIOUS
<1>3. /\ call[p] = "copy" /\ pgdir' = [pgdir EXCEPT ![q] = t]
      /\ new' = [new EXCEPT ![p] = NoSpace] /\ sz' = [sz EXCEPT ![q] = sz[p]]
      /\ call' = [call EXCEPT ![p] = "user", ![q] = "user"]
      /\ job' = [job EXCEPT ![p] = NoJob] /\ UNCHANGED <<mem, kstack>>
  BY <1>1, <1>2 DEF Forked, At
<1>4. job[p].op = "fork"
  BY <1>3, SlotIs DEF PlaceOK
<1>5. q \in Slots /\ call[q] = "embryo" /\ q # p
  BY <1>1, <1>3, <1>4, SlotIs DEF ChildOK
<1>6. /\ pgdir \in [Slots -> SpaceType] /\ call \in [Slots -> MemPcs]
      /\ new \in [Slots -> SpaceType] /\ job \in [Slots -> JobType] /\ DOMAIN sz = Slots
  BY DEF MemInv, MemTyped
<1>7. /\ pgdir'[q] = t /\ pgdir'[p] = pgdir[p] /\ call'[p] = "user" /\ call'[q] = "user"
      /\ \A r \in Slots \ {q} : pgdir'[r] = pgdir[r]
      /\ \A r \in Slots \ {p, q} : SameSlot(r)
  BY <1>3, <1>5, <1>6 DEF SameSlot
<1>8. PICK a \in Nat : a = job[p].a
  BY FinishedIs
<1>9. /\ DOMAIN t.map = 0..(a - 1)
      /\ \A v \in DOMAIN t.map : /\ v \in DOMAIN pgdir[p].map
                                 /\ t.map[v].user = pgdir[p].map[v].user
                                 /\ mem[t.map[v].page] = mem[pgdir[p].map[v].page]
  BY <1>2, <1>4, <1>8 DEF DataInv, DataOK, CopyOK
<1>10. \A o : Kept(o)
  BY <1>3, AllKeep
<1>11. DataInv'
  <2>1. DataOK(p)' /\ DataOK(q)'
    BY <1>5, <1>7, <1>9, OwnBelow, IdleData
  <2> QED BY <1>5, <1>7, <1>10, <2>1, DataStep DEF Untouched
<1>12. Seen[p] = ImageIn(mem, pgdir[p]) /\ Seen[q] = ImageIn(mem, pgdir[q])
  BY <1>5, SeenIs
<1>13. DOMAIN Seen[q] = {}
  <2>1. pgdir[q] = NoSpace
    BY <1>5, SlotIs DEF PlaceOK
  <2> QED BY <1>12, <2>1, NoSpaceIs DEF ImageIn, NoSpace
<1>14. a \in {0} \cup {v + 1 : v \in Vpns}
  <2>1. CASE a = 0
    BY <2>1
  <2>2. CASE a # 0
    <3>1. a - 1 \in Nat /\ a - 1 \in DOMAIN pgdir[p].map /\ a = (a - 1) + 1
      BY <1>9, <2>2
    <3>2. a - 1 \in Vpns
      BY <3>1, OwnBelow, BelowTop
    <3> QED BY <3>1, <3>2
  <2> QED BY <2>1, <2>2
<1>15. DOMAIN t.map = {u \in DOMAIN pgdir[p].map : u < a}
  <2>1. pgdir[p] \in SpaceType
    BY SlotIs
  <2>2. \A u \in DOMAIN pgdir[p].map : u \in Nat
    BY <2>1, SpaceIs
  <2>3. \A u \in Nat : u < a <=> u \in 0..(a - 1)
    OBVIOUS
  <2> QED BY <1>9, <2>2, <2>3
<1>16. ImageIn(mem', t) = [v \in {u \in DOMAIN Seen[p] : u < a} |-> Seen[p][v]]
  <2>1. DOMAIN Seen[p] = DOMAIN pgdir[p].map
    BY <1>12 DEF ImageIn
  <2>2. \A v \in DOMAIN t.map : Seen[p][v] = [data |-> mem[t.map[v].page], user |-> t.map[v].user]
    BY <1>9, <1>12 DEF ImageIn
  <2> QED BY <1>3, <1>15, <2>1, <2>2 DEF ImageIn
<1>17. Seen' = [Seen EXCEPT ![q] = ImageIn(mem', t)]
  <2>1. \A r \in Slots \ {q} : Seen'[r] = Seen[r]
    BY <1>7, <1>10, SeenKept
  <2> QED BY <1>5, <1>7, <2>1, SeenStep
<1>18. Spaces!Next
  <2>1. Seen' = [Seen EXCEPT ![q] = [v \in {u \in DOMAIN Seen[p] : u < a} |-> Seen[p][v]]]
    BY <1>16, <1>17, Zenon
  <2> QED BY <1>5, <1>13, <1>14, <2>1, Copied
<1> QED BY <1>11, <1>18 DEF Promised

\* The pages a segment of the file goes to.
LEMMA FilledMore ==
  ASSUME NEW prog \in Programs, NEW k \in 1..Len(prog.segs), NEW v
  PROVE  Filled(prog, k, v) <=>
           \/ Filled(prog, k - 1, v)
           \/ v \in prog.segs[k].at..(prog.segs[k].at + PGROUNDUP(prog.segs[k].filesz) - 1)
<1>1. k \in 1..k /\ (1..k) = (1..(k - 1)) \cup {k}
  BY SegsAre
<1> QED BY <1>1 DEF Filled

LEMMA FilledBelow ==
  ASSUME NEW prog \in Programs, NEW k \in 0..Len(prog.segs), NEW e \in Nat,
         \A i \in 1..k : SegEnd(prog.segs[i]) <= e, NEW v, Filled(prog, k, v)
  PROVE  v \in Nat /\ v < PGROUNDUP(e) /\ v * PGSIZE < e
<1>1. PICK i \in 1..k :
        v \in prog.segs[i].at..(prog.segs[i].at + PGROUNDUP(prog.segs[i].filesz) - 1)
  BY DEF Filled
<1>2. i \in 1..Len(prog.segs)
  BY SegsAre
<1>3. PICK at \in Nat, n \in Nat, m \in Nat :
        at = prog.segs[i].at /\ n = prog.segs[i].filesz /\ m = prog.segs[i].memsz /\ n <= m
  BY <1>2, SegsAre
<1>4. at * PGSIZE + m <= e /\ v \in at..(at + PGROUNDUP(n) - 1)
  BY <1>1, <1>3 DEF SegEnd
<1>5. v \in 0..(PGROUNDUP(e) - 1)
  BY <1>3, <1>4, SegPages
<1>6. PGROUNDUP(e) \in Nat
  BY RoundIs
<1>7. v \in Nat /\ v < PGROUNDUP(e)
  BY <1>5, <1>6
<1> QED BY <1>7, RoundIs

LEMMA LoadRight ==
  ASSUME MemInv, MemInv', DataInv, NEW p \in Slots, Load(p)
  PROVE  DataInv' /\ Promised
<1>0. PICK j : j = job[p]
  OBVIOUS
<1> DEFINE segs  == j.prog.segs
<1> DEFINE seg   == segs[j.seg]
<1> DEFINE Into  == seg.at..(seg.at + PGROUNDUP(seg.filesz) - 1)
<1> DEFINE last  == j.seg = Len(segs)
<1> DEFINE old   == IF last THEN PGROUNDUP(j.end) * PGSIZE ELSE j.end
<1> DEFINE newsz == IF last THEN old + 2 * PGSIZE ELSE Max({old, SegEnd(segs[j.seg + 1])})
<1> DEFINE k == [j EXCEPT !.seg = j.seg + 1, !.old = old, !.end = newsz, !.a = PGROUNDUP(old)]
<1> DEFINE map == new[p].map
<1>1. /\ call[p] = "grow" /\ job[p].op = "exec" /\ Finished(p)
      /\ j.seg <= Len(segs) /\ UNCHANGED <<pgdir, sz>>
  BY <1>0 DEF Load, At
<1>2. CASE ~ j.prog.reads
  <2>1. PICK S : S = All(new[p])
    OBVIOUS
  <2>2. Fail(p, S)
    BY <1>0, <1>2, <2>1 DEF Load
  <2>3. \A h \in S : h \in Nat /\ Within(new[p], h)
    BY <2>1, AllIs, SlotIs
  <2> QED BY <1>1, <2>2, <2>3, FailRight
<1>3. CASE j.prog.reads
  <2>1. /\ mem' = [g \in DOMAIN mem |->
                     IF \E v \in Into \cap DOMAIN map : map[v].page = g THEN Text ELSE mem[g]]
        /\ job' = [job EXCEPT ![p] = k] /\ UNCHANGED <<kstack, call, new>>
    BY <1>0, <1>3 DEF Load
  <2>2. /\ j.prog \in Programs /\ j.seg \in 1..Len(segs) /\ Len(segs) \in Nat /\ j.seg \in Nat
        /\ j.end \in Nat /\ PGROUNDUP(j.end) \in Nat
    <3>1. j.seg \in 1..(Len(segs) + 1) /\ Len(segs) \in Nat
      BY <1>0, <1>1, ExecAt
    <3>2. PGROUNDUP(job[p].end) \in Nat
      BY FinishedIs
    <3> QED BY <1>0, <1>1, <3>1, <3>2, ExecAt
  <2>3. /\ j \in JobType /\ job \in [Slots -> JobType] /\ new[p] \in SpaceType /\ InOnce(new[p])
        /\ new \in [Slots -> SpaceType]
    BY <1>0, SlotIs DEF MemInv, MemTyped
  <2>4. PGSIZE \in Nat /\ PGSIZE > 0 /\ PGROUNDUP(j.end) * PGSIZE \in Nat
    BY <2>2, MemConstants
  <2>5. ~ last => j.seg + 1 \in 1..Len(segs) /\ SegEnd(segs[j.seg + 1]) \in Nat
    <3>1. ~ last => j.seg + 1 \in 1..Len(segs)
      BY <2>2
    <3> QED BY <2>2, <3>1, SegsAre
  <2>6. old \in Nat /\ PGROUNDUP(old) = PGROUNDUP(j.end) /\ j.end <= old
    <3>1. old \in Nat /\ PGROUNDUP(old) = PGROUNDUP(j.end)
      BY <2>2, <2>4, RoundWhole
    <3>2. j.end <= PGROUNDUP(j.end) * PGSIZE
      <4>1. PICK n \in Nat : n = PGROUNDUP(j.end)
        BY <2>2
      <4>2. ~ (n * PGSIZE < j.end)
        BY <2>2, <4>1, RoundIs
      <4> QED BY <2>2, <2>4, <4>1, <4>2
    <3> QED BY <2>2, <3>1, <3>2
  <2>7. /\ newsz \in Nat /\ old <= newsz
        /\ ~ last => /\ SegEnd(segs[j.seg + 1]) <= newsz
                     /\ newsz = j.end \/ newsz = SegEnd(segs[j.seg + 1])
    <3>1. CASE last
      BY <2>4, <2>6, <3>1
    <3>2. CASE ~ last
      <4> DEFINE x == SegEnd(segs[j.seg + 1])
      <4>1. x \in Nat /\ newsz = Max({old, x}) /\ old = j.end
        BY <2>5, <3>2
      <4> HIDE DEF x, old, newsz
      <4>2. newsz \in Nat /\ old <= newsz /\ x <= newsz /\ newsz \in {old, x}
        BY <2>6, <4>1, MaxOfTwo
      <4> QED BY <4>1, <4>2 DEF x
    <3> QED BY <3>1, <3>2
  <2>8. last => newsz = (PGROUNDUP(j.end) + 2) * PGSIZE
    <3> HAVE last
    <3>1. newsz = PGROUNDUP(j.end) * PGSIZE + 2 * PGSIZE
      OBVIOUS
    <3>2. PICK n \in Nat : n = PGROUNDUP(j.end)
      BY <2>2
    <3>3. (n + 2) * PGSIZE = n * PGSIZE + 2 * PGSIZE
      BY <2>4, <3>2
    <3> QED BY <3>1, <3>2, <3>3
  <2> HIDE DEF old, newsz
  <2>9. PICK b \in Nat : b = j.seg + 1
    BY <2>2
  <2>10. PICK a \in Nat : a = PGROUNDUP(old)
    BY <2>2, <2>6
  <2>11. k = [j EXCEPT !.seg = b, !.old = old, !.end = newsz, !.a = a]
    BY <2>9, <2>10
  <2> HIDE DEF k, segs
  <2>12. /\ k.seg = b /\ k.end = newsz /\ k.a = a
    BY <2>3, <2>11 DEF JobType
  <2>13. /\ k.op = j.op /\ k.prog = j.prog
    BY <2>3, <2>11 DEF JobType
  <2>14. /\ job'[p] = k /\ \A r \in Slots \ {p} : SameSlot(r)
    BY <1>1, <2>1, <2>3 DEF SameSlot
  <2>15. ImageOK(p)
    BY <1>1 DEF DataInv, DataOK
  <2>16. EndsAt(j.prog, j.seg, j.end)
    BY <1>0, <1>1, <2>15 DEF ImageOK, segs
  <2>17. \A v \in Nat : Filled(j.prog, j.seg, v) => v < a
    <3>1. \A i \in 1..j.seg : SegEnd(j.prog.segs[i]) <= j.end
      BY <2>16 DEF EndsAt
    <3>2. j.seg \in 0..Len(j.prog.segs)
      BY <2>2 DEF segs
    <3> QED BY <2>2, <2>6, <2>10, <3>1, <3>2, FilledBelow
  <2>18. b - 1 = j.seg
    BY <2>2, <2>9
  <2>19. ASSUME NEW v \in DOMAIN map
         PROVE  /\ v < a /\ v * PGSIZE < newsz /\ v * PGSIZE < KERNBASE /\ map[v].user
                /\ mem'[map[v].page] = IF Filled(j.prog, b - 1, v) THEN Text ELSE Zero
    <3>1. /\ v * PGSIZE < j.end /\ v * PGSIZE < KERNBASE /\ map[v].user
          /\ mem[map[v].page] = IF Filled(j.prog, j.seg - 1, v) THEN Text ELSE Zero
      BY <1>0, <2>15, <2>19 DEF ImageOK
    <3>2. v \in Nat /\ map[v].page \in Nat /\ Within(new[p], map[v].page)
      BY <2>3, <2>19, PageIs
    <3>3. v < a
      BY <2>2, <2>6, <2>10, <3>1, <3>2, RoundIs
    <3>4. v * PGSIZE < newsz
      <4>1. v * PGSIZE \in Nat
        BY <2>4, <3>2
      <4> QED BY <2>2, <2>6, <2>7, <3>1, <4>1
    <3>5. map[v].page \in DOMAIN mem
      <4>1. Owns(New(p), map[v].page)
        BY <3>2, OwnsIs
      <4> QED BY <3>2, <4>1, OwnersAre DEF MemInv, NoneMore
    <3>6. (\E w \in Into \cap DOMAIN map : map[w].page = map[v].page) <=> v \in Into
      <4>1. ASSUME NEW w \in DOMAIN map, map[w].page = map[v].page
            PROVE  w = v
        <5>1. w \in Int /\ v \in Int
          BY <2>3, <2>19, <4>1, PageIs
        <5>2. In(new[p], map[v].page, w) /\ In(new[p], map[v].page, v)
          BY <2>19, <4>1 DEF In
        <5> QED BY <2>3, <3>2, <5>1, <5>2 DEF InOnce
      <4> QED BY <2>19, <4>1
    <3>7. Filled(j.prog, j.seg, v) <=> Filled(j.prog, j.seg - 1, v) \/ v \in Into
      BY <2>2, FilledMore DEF segs
    <3>8. mem'[map[v].page] = IF v \in Into THEN Text ELSE mem[map[v].page]
      BY <2>1, <3>5, <3>6
    <3> QED BY <2>18, <3>1, <3>3, <3>4, <3>7, <3>8
  <2>20. b <= Len(segs) => EndsAt(j.prog, b, newsz)
    <3> SUFFICES ASSUME b <= Len(segs)
                 PROVE  EndsAt(j.prog, b, newsz)
      OBVIOUS
    <3>1. /\ \E i \in 1..j.seg : j.end = SegEnd(segs[i])
          /\ \A i \in 1..j.seg : SegEnd(segs[i]) <= j.end
      BY <2>16 DEF EndsAt, segs
    <3>2. ~ last
      BY <2>2, <2>9
    <3>3. (1..b) = (1..j.seg) \cup {b}
      BY <2>2, <2>9
    <3>4. \A i \in 1..b : SegEnd(segs[i]) \in Nat
      <4>1. 1..b \subseteq 1..Len(segs)
        BY <2>2
      <4> QED BY <2>2, <4>1, SegsAre DEF segs
    <3>5. newsz = j.end \/ newsz = SegEnd(segs[b])
      BY <2>7, <2>9, <3>2
    <3>6. SegEnd(segs[b]) <= newsz /\ j.end <= newsz
      <4>1. SegEnd(segs[b]) <= newsz
        BY <2>7, <2>9, <3>2
      <4>2. j.end <= newsz
        BY <2>2, <2>6, <2>7
      <4> QED BY <4>1, <4>2
    <3>7. \A i \in 1..b : SegEnd(segs[i]) <= newsz
      <4> SUFFICES ASSUME NEW i \in 1..j.seg
                   PROVE  SegEnd(segs[i]) <= newsz
        BY <3>3, <3>6
      <4>1. PICK x \in Nat : x = SegEnd(segs[i])
        BY <3>3, <3>4
      <4>2. x <= j.end
        BY <3>1, <4>1
      <4>3. x <= newsz
        BY <2>2, <2>7, <3>6, <4>2
      <4> QED BY <4>1, <4>3
    <3>8. \E i \in 1..b : newsz = SegEnd(segs[i])
      BY <3>1, <3>3, <3>5
    <3> QED BY <3>7, <3>8 DEF EndsAt, segs
  <2>21. b > Len(segs) => \E e \in Nat : /\ EndsAt(j.prog, Len(segs), e)
                                         /\ newsz = (PGROUNDUP(e) + 2) * PGSIZE
    <3> HAVE b > Len(segs)
    <3>1. last /\ j.seg = Len(segs)
      BY <2>2, <2>9
    <3> QED BY <2>2, <2>8, <2>16, <3>1
  <2>22. ImageOK(p)'
    <3>1. new'[p] = new[p] /\ k.prog = j.prog
      BY <2>1, <2>13
    <3> QED BY <1>3, <2>12, <2>14, <2>17, <2>18, <2>19, <2>20, <2>21, <3>1 DEF ImageOK, segs
  <2>23. DataOK(p)'
    BY <1>0, <1>1, <2>1, <2>13, <2>14, <2>22, OwnBelow DEF DataOK
  <2>24. /\ \A r \in Slots \ {p} : Kept(Own(r)) /\ Kept(New(r)) /\ Kept(Hand(r))
         /\ Kept(Own(p))
    <3>1. PICK S : S = {map[v].page : v \in Into \cap DOMAIN map}
      OBVIOUS
    <3>2. \A g \in DOMAIN mem \ S : mem'[g] = mem[g]
      BY <2>1, <3>1
    <3>3. \A h \in S : h \in Nat /\ Within(new[p], h)
      BY <2>3, <3>1, PageIs
    <3>4. \A h \in Nat : h \in S => ~ Within(pgdir[p], h)
      <4> SUFFICES ASSUME NEW h \in Nat, h \in S
                   PROVE  ~ Within(pgdir[p], h)
        OBVIOUS
      <4>1. Owns(New(p), h) /\ (Within(pgdir[p], h) => Owns(Own(p), h))
        BY <3>3, OwnsIs
      <4> QED BY <4>1, OwnersAre, OwnersApart DEF MemInv, OneOwner
    <3>5. \A h \in Nat : h \in S => \/ Within(new[p], h) \/ Within(pgdir[p], h)
                                    \/ \E u \in Slots : Owns(Stack(u), h)
      BY <3>3
    <3> QED BY <3>2, <3>4, <3>5, FreedKept
  <2>25. DataInv'
    BY <2>14, <2>23, <2>24, DataStep DEF Untouched
  <2>26. Promised
    BY <1>1, <2>24, QuietSeen
  <2> QED BY <2>25, <2>26
<1> QED BY <1>2, <1>3

LEMMA LargestEnd ==
  ASSUME NEW prog \in Programs, NEW e \in Nat, EndsAt(prog, Len(prog.segs), e)
  PROVE  Max({SegEnd(prog.segs[i]) : i \in DOMAIN prog.segs}) = e
<1>1. PICK S : S = {SegEnd(prog.segs[i]) : i \in DOMAIN prog.segs}
  OBVIOUS
<1>2. DOMAIN prog.segs = 1..Len(prog.segs)
  BY MemoryAssumption
<1>3. \A x \in S : x \in Nat /\ x <= e
  BY <1>1, <1>2, SegsAre DEF EndsAt
<1>4. e \in S /\ \A x \in S : e >= x
  BY <1>1, <1>2, <1>3 DEF EndsAt
<1>5. Max(S) \in S /\ \A x \in S : Max(S) >= x
  <2>1. \E m \in S : \A x \in S : m >= x
    BY <1>4
  <2> QED BY <2>1, Zenon DEF Max
<1>6. Max(S) = e
  <2>1. PICK m : m = Max(S)
    OBVIOUS
  <2>2. m \in S /\ m >= e
    BY <1>4, <1>5, <2>1
  <2>3. m \in Nat /\ m <= e
    BY <1>3, <2>2
  <2> QED BY <2>1, <2>2, <2>3
<1> QED BY <1>1, <1>6

\* What exec promises of a program whose largest segment ends at e.
LEMMA LoadedIs ==
  ASSUME NEW prog \in Programs, NEW e \in Nat, EndsAt(prog, Len(prog.segs), e),
         NEW n, n = PGROUNDUP(e), NEW i, i = LoadedImage(prog)
  PROVE  /\ DOMAIN i = 0..(n + 1)
         /\ \A v \in 0..(n + 1) :
              i[v] = [data |-> IF v = n + 1 THEN Args
                               ELSE IF Filled(prog, Len(prog.segs), v) THEN Text ELSE Zero,
                      user |-> v # n]
<1>1. n = PGROUNDUP(Max({SegEnd(prog.segs[k]) : k \in DOMAIN prog.segs})) /\ n \in Nat
  BY LargestEnd, RoundIs
<1>2. DOMAIN prog.segs = 1..Len(prog.segs)
  BY MemoryAssumption
<1> DEFINE Here(v) == \E k \in DOMAIN prog.segs :
                        v >= prog.segs[k].at
                          /\ v < prog.segs[k].at + PGROUNDUP(prog.segs[k].filesz)
<1>3. \A v \in Nat : Here(v) <=> Filled(prog, Len(prog.segs), v)
  <2> SUFFICES ASSUME NEW v \in Nat
               PROVE  Here(v) <=> Filled(prog, Len(prog.segs), v)
    OBVIOUS
  <2>1. ASSUME NEW k \in 1..Len(prog.segs)
        PROVE  (v >= prog.segs[k].at /\ v < prog.segs[k].at + PGROUNDUP(prog.segs[k].filesz))
                 <=> v \in prog.segs[k].at..(prog.segs[k].at + PGROUNDUP(prog.segs[k].filesz) - 1)
    <3>1. prog.segs[k].at \in Nat /\ PGROUNDUP(prog.segs[k].filesz) \in Nat
      BY SegsAre, RoundIs
    <3> QED BY <3>1
  <2> QED BY <1>2, <2>1 DEF Filled
<1>4. i = [v \in 0..(n + 1) |-> [data |-> IF v = n + 1 THEN Args
                                          ELSE IF Here(v) THEN Text ELSE Zero,
                                 user |-> v # n]]
  BY <1>1 DEF LoadedImage
<1> HIDE DEF Here
<1>5. \A v \in 0..(n + 1) : v \in Nat
  BY <1>1
<1> QED BY <1>3, <1>4, <1>5

LEMMA CommitRight ==
  ASSUME MemInv, MemInv', DataInv, NEW p \in Slots, Commit(p)
  PROVE  DataInv' /\ Promised
<1>0. PICK j : j = job[p]
  OBVIOUS
<1> DEFINE stack == j.end \div PGSIZE - 1
<1> DEFINE guard == stack - 1
<1> DEFINE map   == new[p].map
<1> DEFINE f == [v \in DOMAIN map |-> [map[v] EXCEPT !.user = v # guard /\ map[v].user]]
<1>1. /\ call[p] = "grow" /\ j.op = "exec" /\ Finished(p) /\ j.seg > Len(j.prog.segs)
  BY <1>0 DEF Commit, At
<1>2. CASE Missing(new[p], guard) \/ Missing(new[p], stack)
  <2>1. UNCHANGED <<free, mem, kstack, pgdir, sz, call, new, job>>
    BY <1>0, <1>2 DEF Commit
  <2>2. \A r \in Slots : SameSlot(r)
    BY <2>1 DEF SameSlot
  <2>3. DataOK(p)'
    BY <2>1, <2>2, AllKeep, DataKept DEF DataInv
  <2> QED BY <2>1, <2>2, <2>3, SteadyRight
<1>3. CASE ~ (Missing(new[p], guard) \/ Missing(new[p], stack))
           /\ (~ j.prog.fits \/ stack \notin DOMAIN new[p].map)
  <2>1. PICK S : S = All(new[p])
    OBVIOUS
  <2>2. Fail(p, S) /\ UNCHANGED <<pgdir, sz>>
    BY <1>0, <1>3, <2>1 DEF Commit
  <2>3. \A h \in S : h \in Nat /\ Within(new[p], h)
    BY <2>1, AllIs, SlotIs
  <2> QED BY <2>2, <2>3, FailRight
<1>4. CASE ~ (Missing(new[p], guard) \/ Missing(new[p], stack))
           /\ ~ (~ j.prog.fits \/ stack \notin DOMAIN new[p].map)
  <2>1. PICK t : t = [new[p] EXCEPT !.map = f]
    OBVIOUS
  <2>2. PICK A : A = All(pgdir[p])
    OBVIOUS
  <2>3. PICK prog : prog = j.prog
    OBVIOUS
  <2>4. /\ mem' = [g \in DOMAIN mem |-> IF g \in A THEN Junk
                                       ELSE IF g = map[stack].page THEN Args ELSE mem[g]]
        /\ pgdir' = [pgdir EXCEPT ![p] = t] /\ sz' = [sz EXCEPT ![p] = j.end]
        /\ call' = [call EXCEPT ![p] = "user"] /\ new' = [new EXCEPT ![p] = NoSpace]
        /\ job' = [job EXCEPT ![p] = NoJob] /\ UNCHANGED kstack
        /\ prog.fits /\ stack \in DOMAIN map
    BY <1>0, <1>4, <2>1, <2>2, <2>3 DEF Commit, GoTo
  <2>5. /\ pgdir[p] \in SpaceType /\ new[p] \in SpaceType /\ InOnce(new[p])
        /\ prog \in Programs /\ j.seg \in 1..(Len(prog.segs) + 1) /\ Len(prog.segs) \in Nat
        /\ Len(prog.segs) >= 1
    <3>1. /\ prog \in Programs /\ j.seg \in 1..(Len(prog.segs) + 1)
      BY <1>0, <1>1, <2>3, ExecAt
    <3> QED BY <3>1, SlotIs, SegsAre
  <2>6. j.seg - 1 = Len(prog.segs) /\ j.seg > 1
    BY <1>1, <2>3, <2>5
  <2>7. ImageOK(p)
    BY <1>0, <1>1 DEF DataInv, DataOK
  <2>8. prog.reads
    BY <1>0, <2>3, <2>6, <2>7 DEF ImageOK
  <2>9. PICK e \in Nat : EndsAt(prog, Len(prog.segs), e) /\ j.end = (PGROUNDUP(e) + 2) * PGSIZE
    BY <1>0, <1>1, <2>3, <2>7 DEF ImageOK
  <2>10. PICK n \in Nat : n = PGROUNDUP(e)
    BY <2>9, RoundIs
  <2>11. PICK i : i = LoadedImage(prog)
    OBVIOUS
  <2>12. /\ DOMAIN i = 0..(n + 1)
         /\ \A v \in 0..(n + 1) :
              i[v] = [data |-> IF v = n + 1 THEN Args
                               ELSE IF Filled(prog, Len(prog.segs), v) THEN Text ELSE Zero,
                      user |-> v # n]
    BY <2>5, <2>9, <2>10, <2>11, LoadedIs
  <2>13. stack = n + 1 /\ guard = n
    <3>1. PGSIZE \in Nat \ {0} /\ j.end = (n + 2) * PGSIZE
      BY <2>9, <2>10, MemConstants
    <3>2. PICK m \in Nat : m = n + 2
      BY <2>10
    <3>3. (m * PGSIZE) \div PGSIZE = m
      <4> DEFINE x == m * PGSIZE
      <4> DEFINE z == 0
      <4>1. x = PGSIZE * m + z /\ x \in Int /\ z \in 0..(PGSIZE - 1)
        BY <3>1
      <4> HIDE DEF x, z
      <4>2. x \div PGSIZE = m
        BY <3>1, <4>1, DivisionIs
      <4> QED BY <4>2 DEF x
    <3>4. j.end \div PGSIZE = n + 2
      BY <3>1, <3>2, <3>3
    <3> QED BY <2>10, <3>4
  <2>14. \A v \in DOMAIN map :
           /\ v \in 0..(n + 1) /\ v * PGSIZE < KERNBASE /\ map[v].user = TRUE
           /\ mem[map[v].page] = IF Filled(prog, Len(prog.segs), v) THEN Text ELSE Zero
    <3> SUFFICES ASSUME NEW v \in DOMAIN map
                 PROVE  /\ v \in 0..(n + 1) /\ v * PGSIZE < KERNBASE /\ map[v].user = TRUE
                        /\ mem[map[v].page] =
                             IF Filled(prog, Len(prog.segs), v) THEN Text ELSE Zero
      OBVIOUS
    <3>1. /\ v * PGSIZE < j.end /\ v * PGSIZE < KERNBASE /\ map[v].user
          /\ mem[map[v].page] = IF Filled(prog, Len(prog.segs), v) THEN Text ELSE Zero
      BY <1>0, <2>3, <2>6, <2>7 DEF ImageOK
    <3>2. v \in Nat /\ map[v].user \in BOOLEAN
      BY <2>5, SpaceIs
    <3>3. v \in 0..(n + 1)
      <4>1. v * PGSIZE < (n + 2) * PGSIZE
        BY <2>9, <2>10, <3>1
      <4>2. PICK m \in Nat : m = n + 2
        BY <2>10
      <4>3. m * PGSIZE \in Nat /\ PGROUNDUP(m * PGSIZE) = m
        BY <4>2, RoundWhole
      <4>4. v < m
        BY <3>2, <4>1, <4>2, <4>3, RoundIs
      <4> QED BY <2>10, <3>2, <4>2, <4>4
    <3> QED BY <3>1, <3>2, <3>3
  <2>15. /\ DOMAIN t.map = DOMAIN map
         /\ \A v \in DOMAIN map : t.map[v].page = map[v].page /\ t.map[v].user = (v # n)
    <3>1. t.map = f
      BY <2>1, <2>5 DEF SpaceType
    <3>2. ASSUME NEW v \in DOMAIN map
          PROVE  f[v].page = map[v].page /\ f[v].user = (v # n)
      <4>1. PICK m \in EntryType : m = map[v]
        <5>1. map \in Maps(EntryType)
          BY <2>5, SpaceIs
        <5> QED BY <3>2, <5>1, MapsAre
      <4>2. f[v] = [m EXCEPT !.user = v # guard /\ m.user]
        BY <4>1
      <4>3. f[v].page = m.page /\ f[v].user = (v # guard /\ m.user)
        BY <4>1, <4>2 DEF EntryType
      <4>4. m.user = TRUE
        BY <2>14, <4>1
      <4> QED BY <2>13, <4>1, <4>3, <4>4
    <3> HIDE DEF f
    <3>3. DOMAIN f = DOMAIN map
      BY DEF f
    <3> QED BY <3>1, <3>2, <3>3
  <2>16. \A v \in DOMAIN map : /\ map[v].page \in DOMAIN mem /\ map[v].page \notin A
                               /\ map[v].page = map[stack].page => v = stack
    <3> SUFFICES ASSUME NEW v \in DOMAIN map
                 PROVE  /\ map[v].page \in DOMAIN mem /\ map[v].page \notin A
                        /\ map[v].page = map[stack].page => v = stack
      OBVIOUS
    <3>1. v \in Nat /\ map[v].page \in Nat /\ Within(new[p], map[v].page) /\ stack \in Nat
      BY <2>4, <2>5, PageIs
    <3>2. Owns(New(p), map[v].page)
      BY <3>1, OwnsIs
    <3>3. map[v].page \in DOMAIN mem
      BY <3>1, <3>2, OwnersAre DEF MemInv, NoneMore
    <3>4. map[v].page \notin A
      <4>1. map[v].page \in A => Owns(Own(p), map[v].page)
        BY <2>2, <2>5, AllIs, OwnsIs
      <4> QED BY <3>1, <3>2, <4>1, OwnersAre, OwnersApart DEF MemInv, OneOwner
    <3>5. map[v].page = map[stack].page => v = stack
      <4>1. map[v].page = map[stack].page =>
              In(new[p], map[v].page, v) /\ In(new[p], map[v].page, stack)
        BY <2>4 DEF In
      <4>2. v \in Int /\ stack \in Int
        BY <3>1
      <4> QED BY <2>5, <3>1, <4>1, <4>2 DEF InOnce
    <3> QED BY <3>3, <3>4, <3>5
  <2>17. \A v \in DOMAIN map :
           mem'[map[v].page] = IF v = n + 1 THEN Args
                               ELSE IF Filled(prog, Len(prog.segs), v) THEN Text ELSE Zero
    <3> SUFFICES ASSUME NEW v \in DOMAIN map
                 PROVE  mem'[map[v].page] =
                          IF v = n + 1 THEN Args
                          ELSE IF Filled(prog, Len(prog.segs), v) THEN Text ELSE Zero
      OBVIOUS
    <3>1. mem'[map[v].page] = IF map[v].page = map[stack].page THEN Args ELSE mem[map[v].page]
      BY <2>4, <2>16
    <3>2. map[v].page = map[stack].page <=> v = n + 1
      BY <2>13, <2>16
    <3> QED BY <2>14, <3>1, <3>2
  <2>18. /\ pgdir \in [Slots -> SpaceType] /\ call \in [Slots -> MemPcs]
         /\ new \in [Slots -> SpaceType] /\ job \in [Slots -> JobType] /\ DOMAIN sz = Slots
    BY DEF MemInv, MemTyped
  <2>19. /\ pgdir'[p] = t /\ call'[p] = "user"
         /\ \A r \in Slots \ {p} : SameSlot(r)
    BY <2>4, <2>18 DEF SameSlot
  <2>20. \A r \in Slots \ {p} : Kept(Own(r)) /\ Kept(New(r)) /\ Kept(Hand(r))
    <3>1. PICK S : S = A \cup {map[stack].page}
      OBVIOUS
    <3>2. \A g \in DOMAIN mem \ S : mem'[g] = mem[g]
      BY <2>4, <3>1
    <3>3. \A h \in S : Within(new[p], h) \/ Within(pgdir[p], h)
      <4>1. Within(new[p], map[stack].page)
        BY <2>4, <2>5, PageIs
      <4> QED BY <2>2, <2>5, <3>1, <4>1, AllIs
    <3>4. \A h \in Nat : h \in S => \/ Within(new[p], h) \/ Within(pgdir[p], h)
                                    \/ \E u \in Slots : Owns(Stack(u), h)
      BY <3>3
    <3> QED BY <3>2, <3>4, FreedKept
  <2>21. DataInv'
    <3>1. DataOK(p)'
      BY <2>14, <2>15, <2>19, IdleData
    <3> QED BY <2>19, <2>20, <3>1, DataStep DEF Untouched
  <2>22. PICK D : D = DOMAIN map
    OBVIOUS
  <2>23. D \in SUBSET DOMAIN i
    BY <2>12, <2>14, <2>22
  <2>24. ImageIn(mem', t) = [v \in D |-> i[v]]
    <3>1. \A v \in D : [data |-> mem'[t.map[v].page], user |-> t.map[v].user] = i[v]
      BY <2>12, <2>14, <2>15, <2>17, <2>22
    <3> QED BY <2>15, <2>22, <3>1 DEF ImageIn
  <2>25. Seen' = [Seen EXCEPT ![p] = ImageIn(mem', t)]
    <3>1. \A r \in Slots \ {p} : Seen'[r] = Seen[r]
      BY <2>19, <2>20, SeenKept DEF SameSlot
    <3> QED BY <2>19, <3>1, SeenStep
  <2>26. Spaces!Next
    <3>1. Seen' = [Seen EXCEPT ![p] = [v \in D |-> LoadedImage(prog)[v]]]
      BY <2>11, <2>24, <2>25
    <3> QED BY <2>4, <2>5, <2>8, <2>11, <2>23, <3>1, Replaced
  <2> QED BY <2>21, <2>26 DEF Promised
<1> QED BY <1>2, <1>3, <1>4

-----------------------------------------------------------------------------
LEMMA InitData == MemInit => DataInv
<1> SUFFICES ASSUME MemInit, NEW p \in Slots
             PROVE  DataOK(p)
  BY DEF DataInv
<1>1. /\ pgdir[p] = IF p = Init1 THEN FirstSpace ELSE NoSpace
      /\ call[p] \in {"user", "unused"} /\ job[p] = NoJob
  BY DEF MemInit
<1>2. \A v \in DOMAIN pgdir[p].map : v = 0
  <2>1. DOMAIN NoSpace.map = {}
    BY NoSpaceIs DEF NoSpace
  <2> QED BY <1>1, <2>1, FirstSpaceIs
<1>3. 0 * PGSIZE < KERNBASE
  BY MemConstants
<1>4. NoJob.op = "none"
  BY NoJobIs
<1> QED BY <1>1, <1>2, <1>3, <1>4 DEF DataOK

\* userinit gives the first process its code; there is no other.
LEMMA InitSeen ==
  ASSUME MemInit, NEW p \in Slots
  PROVE  \/ Seen[p] = Spaces!Empty
         \/ Seen[p] = Put(NoMap, 0, [data |-> Text, user |-> TRUE])
<1>1. Seen[p] = ImageIn(mem, pgdir[p])
  BY InitMem, SeenIs
<1>2. CASE p # Init1
  <2>1. pgdir[p] = NoSpace
    BY <1>2 DEF MemInit
  <2>2. NoSpace.map = NoMap /\ DOMAIN NoMap = {}
    BY NoSpaceIs DEF NoSpace
  <2>3. ImageIn(mem, NoSpace) = Spaces!Empty
    BY <2>2 DEF ImageIn, Spaces!Empty
  <2> QED BY <1>1, <2>1, <2>3
<1>3. CASE p = Init1
  <2>1. pgdir[p] = FirstSpace
    BY <1>3 DEF MemInit
  <2>2. PICK e : e = [page |-> FirstTable + 1, user |-> TRUE]
    OBVIOUS
  <2>3. PICK m : m = FirstSpace.map
    OBVIOUS
  <2>4. m = Put(NoMap, 0, e)
    BY <2>2, <2>3 DEF FirstSpace
  <2>5. DOMAIN m = {0} /\ m[0] = e
    BY <2>4, NoSpaceIs DEF Put
  <2>6. mem[FirstTable + 1] = Text
    <3>1. PICK n \in Sizes : mem = [g \in 1..n |-> IF g = FirstTable + 1 THEN Text
                                                   ELSE IF g \in free THEN Junk ELSE Zero]
      BY DEF MemInit
    <3>2. n \in Nat /\ n >= FirstTable + 1 /\ FirstTable \in Nat
      BY MemoryAssumption, FirstSpaceIs DEF FirstTable
    <3>3. FirstTable + 1 \in 1..n
      BY <3>2
    <3> QED BY <3>1, <3>3
  <2>7. ImageIn(mem, FirstSpace) = [v \in {0} |-> [data |-> Text, user |-> TRUE]]
    <3>1. ASSUME NEW v \in {0}
          PROVE  [data |-> mem[m[v].page], user |-> m[v].user] = [data |-> Text, user |-> TRUE]
      <4>1. m[v] = e /\ e.page = FirstTable + 1 /\ e.user = TRUE
        BY <2>2, <2>5
      <4> QED BY <2>6, <4>1
    <3> QED BY <2>3, <2>5, <3>1 DEF ImageIn
  <2>8. Put(NoMap, 0, [data |-> Text, user |-> TRUE]) = [v \in {0} |-> [data |-> Text, user |-> TRUE]]
    BY NoSpaceIs DEF Put
  <2> QED BY <1>1, <2>1, <2>7, <2>8
<1> QED BY <1>2, <1>3

\* Every action, and a step that changes nothing, keeps what is in the pages in order, and
\* is a step of AddressSpaces or none.
LEMMA StepData == MemInv /\ MemInv' /\ DataInv /\ [MemNext]_memVars => DataInv' /\ Promised
<1> SUFFICES ASSUME MemInv, MemInv', DataInv, [MemNext]_memVars
             PROVE  DataInv' /\ Promised
  OBVIOUS
<1>1. ASSUME NEW p \in Slots, NEW v \in Stores, NEW x \in MemVals, Write(p, v, x)
      PROVE  DataInv' /\ Promised
  BY <1>1, WriteRight
<1>2. ASSUME NEW p \in Slots, NEW n \in Sbrks, SbrkMore(p, n) \/ SbrkLess(p, n)
      PROVE  DataInv' /\ Promised
  BY <1>2, SbrkMoreRight, SbrkLessRight
<1>3. ASSUME NEW p \in Slots, NEW q \in Slots, Fork(p, q)
      PROVE  DataInv' /\ Promised
  BY <1>3, ForkRight
<1>4. ASSUME NEW p \in Slots, NEW prog \in Programs, Exec(p, prog)
      PROVE  DataInv' /\ Promised
  BY <1>4, ExecRight
<1>5. ASSUME NEW p \in Slots, Setup(p) \/ Grow(p) \/ GrowTable(p) \/ Grown(p)
      PROVE  DataInv' /\ Promised
  BY <1>5, SetupRight, GrowRight, GrowTableRight, GrownRight
<1>6. ASSUME NEW p \in Slots, Copy(p) \/ CopyTable(p) \/ Forked(p)
      PROVE  DataInv' /\ Promised
  BY <1>6, CopyRight, CopyTableRight, ForkedRight
<1>7. ASSUME NEW p \in Slots, Load(p) \/ Commit(p)
      PROVE  DataInv' /\ Promised
  BY <1>7, LoadRight, CommitRight
<1>8. ASSUME NEW p \in Slots, Exit(p) \/ Reap(p)
      PROVE  DataInv' /\ Promised
  BY <1>8, ExitRight, ReapRight
<1>9. ASSUME UNCHANGED memVars
      PROVE  DataInv' /\ Promised
  <2>1. UNCHANGED <<mem, kstack, pgdir, sz, call, new, job>>
    BY <1>9 DEF memVars
  <2>2. \A r \in Slots : SameSlot(r)
    BY <2>1 DEF SameSlot
  <2>3. \A r \in Slots : DataOK(r)'
    BY <2>1, <2>2, AllKeep, DataKept DEF DataInv
  <2>4. PICK p \in Slots : TRUE
    BY MemConstants
  <2> QED BY <2>1, <2>2, <2>3, <2>4, SteadyRight
<1> QED BY <1>1, <1>2, <1>3, <1>4, <1>5, <1>6, <1>7, <1>8, <1>9 DEF MemNext

\* Memory implements AddressSpaces: what a process finds in its pages only its own stores
\* change, whoever else allocates and frees.  A page that comes is zeroed (allocuvm), a
\* child finds what its parent had when it called fork (copyuvm), a process that calls exec
\* finds the program, or, if exec fails, what it had before.
THEOREM PrivateMemory == MemSpec => Private
<1>1. MemInit => MemInv /\ DataInv
  BY InitMem, InitData
<1>2. MemInv /\ [MemNext]_memVars => MemInv'
  BY StepMem
<1>3. MemInv /\ MemInv' /\ DataInv /\ [MemNext]_memVars => DataInv' /\ [Spaces!Next]_Seen
  BY StepData DEF Promised
<1>4. MemInit => \A p \in Slots :
                   Seen[p] = Spaces!Empty \/
                     \E i \in {Put(NoMap, 0, [data |-> Text, user |-> TRUE])} \cup
                              {LoadedImage(prog) : prog \in {r \in Programs : r.reads /\ r.fits}} :
                       Seen[p] = i
  BY InitSeen
<1> QED BY <1>1, <1>2, <1>3, <1>4, PTL DEF MemSpec, Private, Spaces!Spec, Seen
=============================================================================
