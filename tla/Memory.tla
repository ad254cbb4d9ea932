------------------------------- MODULE Memory -------------------------------
(***************************************************************************)
(* User memory: the page allocator (kalloc.c), page tables (vm.c), exec,     *)
(* and what fork, sbrk, exit and wait do with pages (proc.c).               *)
(*                                                                         *)
(* The processes make their calls concurrently.  Page tables are private,    *)
(* so that calls meet in the free list only: a step is an allocation with    *)
(* what follows it up to the next one.  Memory is freed in one step; taken   *)
(* page by page it could only be allocated earlier.  A page table page has   *)
(* NPT entries and a page PGSIZE bytes.  The free list is a set: which page  *)
(* kalloc returns makes no difference.                                     *)
(***************************************************************************)
EXTENDS Integers, Sequences, FiniteSets, FiniteSetsExt, Functions

CONSTANTS
  NSlot,
  Sizes,       \* how many pages of physical memory there may be above `end'
  PGSIZE,
  NPT,         \* NPTENTRIES
  KERNBASE,
  KTabs,       \* page table pages the mappings of the kernel need
  Sbrks,       \* the arguments of sbrk
  MemVals,        \* what processes write, and into which of their pages
  Stores,
  MaxCalls,    \* bound: calls of sbrk, fork and exec
  Programs     \* [segs, reads, fits]: the loadable segments, [at, filesz, memsz], whether
               \* the file can be read, and whether the arguments fit in a page

Slots == 1..NSlot

ASSUME MemoryAssumption ==
  /\ NSlot \in Nat \ {0}
  /\ \A n \in Sizes : n \in Nat /\ n >= KTabs + 4
  /\ Stores \subseteq Nat
  /\ PGSIZE \in Nat \ {0} /\ NPT \in Nat \ {0} /\ KTabs \in Nat \ {0}
  /\ KERNBASE \in Nat /\ KERNBASE > PGSIZE /\ KERNBASE % (NPT * PGSIZE) = 0
  /\ Sbrks \subseteq Int
  /\ \A prog \in Programs :
       /\ prog.segs # << >>
       /\ prog.segs \in Seq([at : Nat, filesz : Nat, memsz : Nat])
       /\ \A i \in DOMAIN prog.segs : prog.segs[i].filesz <= prog.segs[i].memsz

Zero == "zero"
Junk == "junk"
Text == "text"
Args == "args"

Init1 == 1

UINT == 2 * KERNBASE                \* KERNBASE is 2^31, an address has 32 bits

\* Mutant: PGROUNDDOWN.
RoundedDown(x) == x \div PGSIZE

PGROUNDUP(x) == (x + PGSIZE - 1) \div PGSIZE      \* as a page number
Top  == KERNBASE \div PGSIZE
Vpns == 0..(Top - 1)
PDX(v) == v \div NPT

NoMap   == [v \in {} |-> 0]
Put(f, x, y) == [v \in DOMAIN f \cup {x} |-> IF v = x THEN y ELSE f[v]]
NoSpace == [dir |-> 0, ktabs |-> {}, tabs |-> NoMap, map |-> NoMap]

VARIABLES
  free,        \* kmem.freelist
  mem,         \* the content of the pages there are
  kstack,      \* p->kstack, 0 if the slot is UNUSED
  pgdir,       \* p->pgdir with its page tables; map[v] = [page, user] if v is present
  sz,          \* p->sz
  call,        \* where a process is
  new,         \* the local variable d of copyuvm, pgdir of exec
  job,         \* the other local variables of a call
  calls,       \* how many calls have been made
  short,       \* a page for a page table was wanted in vain: see NothingLost
  halted

memVars == <<free, mem, kstack, pgdir, sz, call, new, job, calls, short, halted>>

NoSeg  == [at |-> 0, filesz |-> 0, memsz |-> 0]
NoProg == [segs |-> <<NoSeg>>, reads |-> FALSE, fits |-> FALSE]

\* old, end: oldsz and newsz of allocuvm, sz of copyuvm; a: the page the loop is
\* at; page: mem; child: np; seg: i.
NoJob == [op |-> "none", old |-> 0, end |-> 0, a |-> 0, page |-> 0, child |-> 0,
          prog |-> NoProg, seg |-> 0]

Tables(s) == ({s.dir} \cup s.ktabs \cup Range(s.tabs)) \ {0}
Mapped(s) == {m.page : m \in Range(s.map)}
Missing(s, v) == PDX(v) \notin DOMAIN s.tabs

At(p, l)   == call[p] = l /\ ~ halted
Called     == calls < MaxCalls /\ calls' = calls + 1
GoTo(p, l) == call' = [call EXCEPT ![p] = l]
Finished(p)    == job[p].end < KERNBASE /\ job[p].a * PGSIZE >= job[p].end

\* The page table a call works on: a new one, but for sbrk.
Space(p) == IF job[p].op = "sbrk" THEN pgdir[p] ELSE new[p]

SetSpace(p, s) ==
  IF job[p].op = "sbrk" THEN pgdir' = [pgdir EXCEPT ![p] = s] /\ UNCHANGED new
  ELSE new' = [new EXCEPT ![p] = s] /\ UNCHANGED pgdir

SegEnd(seg) == seg.at * PGSIZE + seg.memsz

-----------------------------------------------------------------------------
\* Mutant: the page is as kfree has left it.
Dirty(c) == mem' = mem

\* kalloc and memset (or memmove): a page with content c.
Got(c) == mem' = [mem EXCEPT ![Min(free)] = c]

Kalloc == free' = free \ {Min(free)}

\* kfree, with the memset that shows dangling references.
Kfree(S) ==
  /\ free' = free \cup S
  /\ mem' = [g \in DOMAIN mem |-> IF g \in S THEN Junk ELSE mem[g]]

\* mappages(v) where the page table page exists.
Tabled(s, v) == [s EXCEPT !.tabs = Put(s.tabs, PDX(v), Min(free))]
With(s, v, g, u) == [s EXCEPT !.map = Put(s.map, v, [page |-> g, user |-> u])]

\* The pages deallocuvm looks at: at a missing page table it goes on NPT pages
\* further, from where it is.
Visited(s, newsz, oldsz) ==
  LET from[v \in 0..(Top + NPT)] ==
        IF v * PGSIZE >= oldsz THEN {}
        ELSE IF Missing(s, v) THEN from[v + NPT]
        ELSE {v} \cup from[v + 1]
  IN  from[PGROUNDUP(newsz)] \cap DOMAIN s.map

Unmapped(s, S) == [s EXCEPT !.map = [v \in DOMAIN s.map \ S |-> s.map[v]]]

Behind(s, S) == {s.map[v].page : v \in S}

\* freevm
All(s) == Behind(s, Visited(s, 0, KERNBASE)) \cup Tables(s)

-----------------------------------------------------------------------------
\* A store of user code.
Write(p, v, x) ==
  /\ At(p, "user")
  /\ v \in DOMAIN pgdir[p].map /\ pgdir[p].map[v].user
  /\ mem' = [mem EXCEPT ![pgdir[p].map[v].page] = x]
  /\ UNCHANGED <<free, kstack, pgdir, sz, call, new, job, calls, short, halted>>

\* sys_sbrk, growproc with n > 0, and allocuvm up to its loop.
SbrkMore(p, n) ==
  /\ At(p, "user") /\ Called /\ n > 0
  /\ sz[p] + n < KERNBASE
  /\ job' = [job EXCEPT ![p] = [NoJob EXCEPT !.op = "sbrk", !.old = sz[p],
                               !.end = sz[p] + n, !.a = PGROUNDUP(sz[p])]]
  /\ GoTo(p, "grow")
  /\ UNCHANGED <<free, mem, kstack, pgdir, sz, new, short, halted>>

\* growproc with n < 0, deallocuvm: a size of 0 is taken for its failure, and a
\* process whose memory went that way faults when it returns to user mode.
SbrkLess(p, n) ==
  LET newsz == (sz[p] + n) % UINT
      S     == Visited(pgdir[p], newsz, sz[p])
  IN  /\ At(p, "user") /\ Called /\ n < 0
      /\ newsz < sz[p] /\ (newsz = 0 => p # Init1)
      /\ Kfree(Behind(pgdir[p], S))
      /\ pgdir' = [pgdir EXCEPT ![p] = Unmapped(@, S)]
      /\ sz' = [sz EXCEPT ![p] = IF newsz = 0 THEN @ ELSE newsz]
      /\ GoTo(p, IF newsz = 0 THEN "fault" ELSE "user")
      /\ UNCHANGED <<kstack, new, job, short, halted>>

\* fork: allocproc and its kernel stack; copyuvm calls setupkvm.
Fork(p, q) ==
  /\ At(p, "user") /\ Called /\ call[q] = "unused" /\ free # {}
  /\ Kalloc /\ Got(Junk)
  /\ kstack' = [kstack EXCEPT ![q] = Min(free)]
  /\ call' = [call EXCEPT ![p] = "setup", ![q] = "embryo"]
  /\ job' = [job EXCEPT ![p] = [NoJob EXCEPT !.op = "fork", !.child = q, !.end = sz[p]]]
  /\ UNCHANGED <<pgdir, sz, new, short, halted>>

\* exec, once the header is read; an end of KERNBASE or more fails in allocuvm.
Exec(p, prog) ==
  /\ At(p, "user") /\ Called
  /\ GoTo(p, "setup")
  /\ job' = [job EXCEPT ![p] =
               [NoJob EXCEPT !.op = "exec", !.prog = prog, !.seg = 1,
                             !.end = SegEnd(prog.segs[1])]]
  /\ UNCHANGED <<free, mem, kstack, pgdir, sz, new, short, halted>>

-----------------------------------------------------------------------------
\* The end of a call without success: the pages in S are freed; the child of a
\* fork gives back its stack and its slot.
Fail(p, S) ==
  LET q == job[p].child
  IN  /\ Kfree(S \cup IF q = 0 THEN {} ELSE {kstack[q]})
      /\ kstack' = [r \in Slots |-> IF r = q THEN 0 ELSE kstack[r]]
      /\ call' = [r \in Slots |-> IF r = p THEN "user" ELSE IF r = q THEN "unused" ELSE call[r]]
      /\ new' = [new EXCEPT ![p] = NoSpace]
      /\ job' = [job EXCEPT ![p] = NoJob]

\* setupkvm: the page directory, then the page tables of the kernel's mappings.
\* When one cannot be had, those there are already are not given back.
Setup(p) ==
  /\ At(p, "setup")
  /\ IF free = {}
     THEN /\ Fail(p, {})
          /\ short' = (short \/ new[p].dir # 0)
     ELSE /\ Kalloc /\ Got(Zero)
          /\ new' = [new EXCEPT ![p] =
                       IF @.dir = 0 THEN [new[p] EXCEPT !.dir = Min(free)]
                       ELSE [new[p] EXCEPT !.ktabs = new[p].ktabs \cup {Min(free)}]]
          /\ GoTo(p, IF Cardinality(new'[p].ktabs) < KTabs THEN "setup"
                     ELSE IF job[p].op = "fork" THEN "copy" ELSE "grow")
          /\ UNCHANGED <<kstack, job, short>>
  /\ UNCHANGED <<pgdir, sz, calls, halted>>

\* mappages for the page g a call has in hand, once there is a page table.
Map(p, s, g, u) ==
  /\ SetSpace(p, IF job[p].a \in DOMAIN s.map THEN s ELSE With(s, job[p].a, g, u))
  /\ halted' = (job[p].a \in DOMAIN s.map)        \* "remap"
  /\ job' = [job EXCEPT ![p].a = @ + 1, ![p].page = 0]

\* Mutant: the arguments of deallocuvm are swapped, and it does nothing.
NotUndone(p, s) == Visited(s, job[p].end, job[p].old)

\* The pages deallocuvm gives back when allocuvm fails.
Undone(p, s) == Visited(s, job[p].old, job[p].end)

\* An iteration of allocuvm, up to walkpgdir in mappages.
Grow(p) ==
  LET s == Space(p)
      S == Undone(p, s)
  IN  /\ At(p, "grow") /\ ~ Finished(p)
      /\ IF free = {} \/ job[p].end >= KERNBASE
         THEN /\ Fail(p, Behind(s, S) \cup IF job[p].op = "exec" THEN All(s) ELSE {})
              /\ pgdir' = IF job[p].op = "exec" THEN pgdir
                          ELSE [pgdir EXCEPT ![p] = Unmapped(s, S)]
              /\ UNCHANGED halted
         ELSE /\ Kalloc /\ Got(Zero)
              /\ IF Missing(s, job[p].a)
                 THEN /\ job' = [job EXCEPT ![p].page = Min(free)]
                      /\ GoTo(p, "table")
                      /\ UNCHANGED <<pgdir, new, halted>>
                 ELSE /\ Map(p, s, Min(free), TRUE)
                      /\ UNCHANGED call
              /\ UNCHANGED kstack
      /\ UNCHANGED <<sz, calls, short>>

\* walkpgdir allocates a page table page.  allocuvm does not look at the result
\* of mappages: without the table the page is lost, and the next one is tried.
GrowTable(p) ==
  /\ At(p, "table")
  /\ GoTo(p, "grow")
  /\ IF free = {}
     THEN /\ short' = TRUE
          /\ job' = [job EXCEPT ![p].a = @ + 1, ![p].page = 0]
          /\ UNCHANGED <<free, mem, pgdir, new, halted>>
     ELSE /\ Kalloc /\ Got(Zero)
          /\ Map(p, Tabled(Space(p), job[p].a), job[p].page, TRUE)
          /\ UNCHANGED <<calls, short>>
  /\ UNCHANGED <<kstack, sz, calls>>

\* growproc: allocuvm has returned the new size.
Grown(p) ==
  /\ At(p, "grow") /\ job[p].op = "sbrk" /\ Finished(p)
  /\ sz' = [sz EXCEPT ![p] = job[p].end]
  /\ GoTo(p, "user")
  /\ job' = [job EXCEPT ![p] = NoJob]
  /\ UNCHANGED <<free, mem, kstack, pgdir, new, calls, short, halted>>

-----------------------------------------------------------------------------
\* An iteration of copyuvm.  A page that is not there is a panic.
Copy(p) ==
  LET v == job[p].a
  IN  /\ At(p, "copy") /\ ~ Finished(p)
      /\ IF v \notin DOMAIN pgdir[p].map
         THEN halted' = TRUE /\ UNCHANGED <<free, mem, kstack, pgdir, call, new, job>>
         ELSE IF free = {}
         THEN Fail(p, All(new[p])) /\ UNCHANGED <<pgdir, halted>>
         ELSE /\ Kalloc /\ Got(mem[pgdir[p].map[v].page])
              /\ IF Missing(new[p], v)
                 THEN /\ job' = [job EXCEPT ![p].page = Min(free)]
                      /\ GoTo(p, "copytable")
                      /\ UNCHANGED <<pgdir, new, halted>>
                 ELSE Map(p, new[p], Min(free), pgdir[p].map[v].user) /\ UNCHANGED call
              /\ UNCHANGED kstack
      /\ UNCHANGED <<sz, calls, short>>

\* walkpgdir again; on the way out copyuvm frees the new pages, but not the one
\* that could not be mapped.
CopyTable(p) ==
  /\ At(p, "copytable")
  /\ IF free = {}
     THEN /\ Fail(p, All(new[p]))
          /\ short' = TRUE
          /\ UNCHANGED <<pgdir, halted>>
     ELSE /\ Kalloc /\ Got(Zero)
          /\ Map(p, Tabled(new[p], job[p].a), job[p].page, pgdir[p].map[job[p].a].user)
          /\ GoTo(p, "copy")
          /\ UNCHANGED <<kstack, short>>
  /\ UNCHANGED <<sz, calls>>

\* fork: the child is RUNNABLE.
Forked(p) ==
  LET q == job[p].child
  IN  /\ At(p, "copy") /\ Finished(p)
      /\ pgdir' = [pgdir EXCEPT ![q] = new[p]]
      /\ new' = [new EXCEPT ![p] = NoSpace]
      /\ sz' = [sz EXCEPT ![q] = sz[p]]
      /\ call' = [call EXCEPT ![p] = "user", ![q] = "user"]
      /\ job' = [job EXCEPT ![p] = NoJob]
      /\ UNCHANGED <<free, mem, kstack, calls, short, halted>>

-----------------------------------------------------------------------------
\* exec: loaduvm puts the segment into the pages allocuvm has made, and on to the
\* next segment, or to a guard page and the stack.
Load(p) ==
  LET j     == job[p]
      seg   == j.prog.segs[j.seg]
      Into  == seg.at..(seg.at + PGROUNDUP(seg.filesz) - 1)
      last  == j.seg = Len(j.prog.segs)
      old   == IF last THEN PGROUNDUP(j.end) * PGSIZE ELSE j.end
      newsz == IF last THEN old + 2 * PGSIZE ELSE Max({old, SegEnd(j.prog.segs[j.seg + 1])})
  IN  /\ At(p, "grow") /\ j.op = "exec" /\ Finished(p) /\ j.seg <= Len(j.prog.segs)
      /\ IF ~ j.prog.reads
         THEN Fail(p, All(new[p])) /\ UNCHANGED halted
         ELSE /\ halted' = ~ (Into \subseteq DOMAIN new[p].map)
              /\ mem' = [g \in DOMAIN mem |->
                           IF \E v \in Into \cap DOMAIN new[p].map : new[p].map[v].page = g
                           THEN Text ELSE mem[g]]
              /\ job' = [job EXCEPT ![p] = [j EXCEPT !.seg = j.seg + 1, !.old = old,
                                                     !.end = newsz, !.a = PGROUNDUP(old)]]
              /\ UNCHANGED <<free, kstack, call, new>>
      /\ UNCHANGED <<pgdir, sz, calls, short>>

\* exec: clearpteu, copyout of the arguments, and the new image replaces the old.
\* Arguments of more than a page come to the guard page, where uva2ka finds nothing.
Commit(p) ==
  LET j     == job[p]
      stack == j.end \div PGSIZE - 1
      guard == stack - 1
      map   == new[p].map
      image == [new[p] EXCEPT !.map =
                  [v \in DOMAIN map |-> [map[v] EXCEPT !.user = v # guard /\ map[v].user]]]
  IN  /\ At(p, "grow") /\ j.op = "exec" /\ Finished(p) /\ j.seg > Len(j.prog.segs)
      /\ IF Missing(new[p], guard) \/ Missing(new[p], stack)
         THEN halted' = TRUE /\ UNCHANGED <<free, mem, kstack, pgdir, sz, call, new, job>>
         ELSE IF ~ j.prog.fits \/ stack \notin DOMAIN new[p].map
         THEN Fail(p, All(new[p])) /\ UNCHANGED <<pgdir, sz, halted>>
         ELSE /\ free' = free \cup All(pgdir[p])
              /\ mem' = [g \in DOMAIN mem |-> IF g \in All(pgdir[p]) THEN Junk
                                         ELSE IF g = new[p].map[stack].page THEN Args
                                         ELSE mem[g]]
              /\ pgdir' = [pgdir EXCEPT ![p] = image]
              /\ sz' = [sz EXCEPT ![p] = j.end]
              /\ GoTo(p, "user")
              /\ new' = [new EXCEPT ![p] = NoSpace]
              /\ job' = [job EXCEPT ![p] = NoJob]
              /\ UNCHANGED <<kstack, halted>>
      /\ UNCHANGED <<calls, short>>

\* exit, by the process, or by trap after a fault.
Exit(p) ==
  /\ At(p, "user") \/ At(p, "fault")
  /\ p # Init1
  /\ GoTo(p, "zombie")
  /\ UNCHANGED <<free, mem, kstack, pgdir, sz, new, job, calls, short, halted>>

\* wait, in the parent: kfree(p->kstack), freevm(p->pgdir).
Reap(q) ==
  /\ At(q, "zombie")
  /\ Kfree(All(pgdir[q]) \cup {kstack[q]})
  /\ kstack' = [kstack EXCEPT ![q] = 0]
  /\ pgdir' = [pgdir EXCEPT ![q] = NoSpace]
  /\ GoTo(q, "unused")
  /\ UNCHANGED <<sz, new, job, calls, short, halted>>

MemNext ==
  \E p \in Slots :
    \/ \E v \in Stores, x \in MemVals : Write(p, v, x)
    \/ \E n \in Sbrks : SbrkMore(p, n) \/ SbrkLess(p, n)
    \/ \E q \in Slots : Fork(p, q)
    \/ \E prog \in Programs : Exec(p, prog)
    \/ Setup(p) \/ Grow(p) \/ GrowTable(p) \/ Grown(p)
    \/ Copy(p) \/ CopyTable(p) \/ Forked(p)
    \/ Load(p) \/ Commit(p)
    \/ Exit(p) \/ Reap(p)

\* userinit: setupkvm and inituvm, with as many pages left as there may be.
FirstTable == 3 + KTabs
FirstSpace ==
  [dir |-> 2, ktabs |-> 3..(2 + KTabs), tabs |-> Put(NoMap, 0, FirstTable),
   map |-> Put(NoMap, 0, [page |-> FirstTable + 1, user |-> TRUE])]

MemInit ==
  /\ \E n \in Sizes :
       /\ free = (FirstTable + 2)..n
       /\ mem = [g \in 1..n |-> IF g = FirstTable + 1 THEN Text
                                ELSE IF g \in free THEN Junk ELSE Zero]
  /\ kstack = [p \in Slots |-> IF p = Init1 THEN 1 ELSE 0]
  /\ pgdir = [p \in Slots |-> IF p = Init1 THEN FirstSpace ELSE NoSpace]
  /\ sz = [p \in Slots |-> IF p = Init1 THEN PGSIZE ELSE 0]
  /\ call = [p \in Slots |-> IF p = Init1 THEN "user" ELSE "unused"]
  /\ new = [p \in Slots |-> NoSpace]
  /\ job = [p \in Slots |-> NoJob]
  /\ calls = 0 /\ short = FALSE /\ halted = FALSE

MemSpec == MemInit /\ [][MemNext]_memVars

-----------------------------------------------------------------------------
\* The uses pages are put to: <<page, owner, role, index>>.
UsesOf(s, p, part) ==
  {<<s.dir, p, part, -1>> : d \in {s.dir} \ {0}} \cup {<<g, p, part, -2>> : g \in s.ktabs}
    \cup {<<s.tabs[i], p, part, -3 - i>> : i \in DOMAIN s.tabs}
    \cup {<<s.map[v].page, p, part, v>> : v \in DOMAIN s.map}

Uses ==
  {<<g, 0, "free", 0>> : g \in free}
    \cup UNION {{u \in {<<kstack[p], p, "kstack", 0>>, <<job[p].page, p, "hand", 0>>} : u[1] # 0}
                  \cup UsesOf(pgdir[p], p, "own") \cup UsesOf(new[p], p, "new") : p \in Slots}

Used == {u[1] : u \in Uses}

\* A page has one use at a time, whatever fails and whatever is freed twice over:
\* it is free, or a kernel stack, or in one place of one page table (kfree, kalloc
\* and their callers in vm.c, exec.c and proc.c).
UsedOnce == \A u, w \in Uses : u[1] = w[1] => u = w

\* No page is lost, if no allocation of a page table page has ever failed: a call
\* that fails gives back what it has.  (setupkvm, allocuvm and copyuvm do lose
\* pages when it is a page table page that is missing.)
NothingLost == ~ short => Used = DOMAIN mem

\* A process that runs has all the pages below its size, and none above; so neither
\* fork nor exec panics.  (Not after an allocation of a page table page failed.)
SizeMapped ==
  ~ short =>
    /\ ~ halted
    /\ \A p \in Slots : call[p] = "user" => DOMAIN pgdir[p].map = 0..(PGROUNDUP(sz[p]) - 1)

\* What a process finds in its pages; exec may leave pages of the segments out when
\* GrowTable has skipped them.
Image(s) == [v \in DOMAIN s.map |-> [data |-> mem[s.map[v].page], user |-> s.map[v].user]]

LoadedImage(prog) ==
  LET In(v, seg) == v >= seg.at /\ v < seg.at + PGROUNDUP(seg.filesz)
      n == PGROUNDUP(Max({SegEnd(prog.segs[i]) : i \in DOMAIN prog.segs}))
  IN  [v \in 0..(n + 1) |->
         [data |-> IF v = n + 1 THEN Args
                   ELSE IF \E i \in DOMAIN prog.segs : In(v, prog.segs[i]) THEN Text ELSE Zero,
          user |-> v # n]]

Spaces ==
  INSTANCE AddressSpaces WITH
    Procs  <- Slots,
    Vals   <- MemVals,
    image  <- [p \in Slots |-> IF call[p] \in {"unused", "embryo"} THEN Image(NoSpace)
                               ELSE Image(pgdir[p])],
    Images <- {Put(NoMap, 0, [data |-> Text, user |-> TRUE])} \cup
              {LoadedImage(prog) : prog \in {r \in Programs : r.reads /\ r.fits}}

\* Memory is private: what a process finds in its pages only its own stores change; a
\* page it gets is zeroed, fork gives the child a copy, exec the program or, if it
\* fails, the old image (allocuvm, copyuvm, exec).
Private == Spaces!Spec

\* No page of memory has two uses, none has lost its last, and a process has those below
\* its size (kalloc, kfree and their callers in vm.c, exec.c and proc.c).
PagesOwned == UsedOnce /\ NothingLost /\ SizeMapped
=============================================================================
