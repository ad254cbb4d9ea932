------------------------------- MODULE Malloc -------------------------------
(***************************************************************************)
(* malloc and free of user programs (umalloc.c): a circular list of the free *)
(* blocks in the order of their addresses, after Kernighan and Ritchie.      *)
(*                                                                         *)
(* Addresses and sizes are in units of sizeof(Header).  A call is one step,  *)
(* since a process has one thread.  The program also calls sbrk itself.      *)
(***************************************************************************)
EXTENDS Integers, FiniteSets

CONSTANTS
  HeapEnd,    \* where sbrk fails
  MinUnits,   \* 4096
  Requests    \* the nunits of the calls of malloc, two at least

ASSUME MallocAssumption ==
  HeapEnd \in Nat /\ MinUnits \in Nat \ {0} /\ Requests \subseteq Nat \ {0, 1}

base == 0            \* the static header, below the heap
HeapStart == 2

VARIABLES
  hdr,      \* the headers of the blocks, [ptr, size]
  freep,    \* -1 before the first call
  brk,      \* the end of the heap
  core,     \* what morecore has got
  given     \* the blocks the program has: their headers' addresses

mallocVars == <<hdr, freep, brk, core, given>>

NoHeader == [ptr |-> 0, size |-> 0]
Units(h, b) == b..(b + h[b].size - 1)

\* The loop of free: the free block before bp.
RECURSIVE Before(_, _, _)
Before(h, bp, p) ==
  LET q == h[p].ptr
  IN  IF bp > p /\ bp < q THEN p
      ELSE IF p >= q /\ (bp > p \/ bp < q) THEN p
      ELSE Before(h, bp, q)

\* Mutant: a block is not joined to the one before it.
LowerNot(h, bp, p) == [h EXCEPT ![p].ptr = bp]

\* free: p and bp are joined if they are adjacent.
Lower(h, bp, p) ==
  IF p + h[p].size = bp
  THEN [h EXCEPT ![p] = [ptr |-> h[bp].ptr, size |-> @.size + h[bp].size]]
  ELSE [h EXCEPT ![p].ptr = bp]

\* free: bp and the block after p likewise.
Upper(h, bp, p) ==
  LET q == h[p].ptr
  IN  IF bp + h[bp].size = q
      THEN [h EXCEPT ![bp] = [ptr |-> h[q].ptr, size |-> @.size + h[q].size]]
      ELSE [h EXCEPT ![bp].ptr = q]

\* m is [hdr, freep, brk, core].
Mfree(m, bp) ==
  LET p == Before(m.hdr, bp, m.freep)
  IN  [m EXCEPT !.hdr = Lower(Upper(m.hdr, bp, p), bp, p), !.freep = p]

\* morecore, where sbrk does not fail.
Core(nu) == IF nu < MinUnits THEN MinUnits ELSE nu
Morecore(m, nu) ==
  Mfree([m EXCEPT !.hdr[m.brk].size = Core(nu), !.brk = @ + Core(nu),
                  !.core = @ \cup m.brk..(m.brk + Core(nu) - 1)], m.brk)

\* A block of n units out of p, which comes after prevp: its end, or all of it.
Taken1(m, prevp, p, n) ==
  LET h    == m.hdr
      left == h[p].size - n
  IN  IF left = 0
      THEN [m EXCEPT !.hdr[prevp].ptr = h[p].ptr, !.freep = prevp]
      ELSE [m EXCEPT !.hdr[p].size = left, !.hdr[p + left].size = n, !.freep = prevp]

\* The loop of malloc; block 0 is a failure.
RECURSIVE Search(_, _, _, _)
Search(m, prevp, p, n) ==
  IF m.hdr[p].size >= n
  THEN [m |-> Taken1(m, prevp, p, n), block |-> p + m.hdr[p].size - n]
  ELSE IF p # m.freep THEN Search(m, p, m.hdr[p].ptr, n)
  ELSE IF m.brk + Core(n) > HeapEnd THEN [m |-> m, block |-> 0]
  ELSE LET c == Morecore(m, n) IN Search(c, c.freep, c.hdr[c.freep].ptr, n)

Begun(m) ==
  IF m.freep # -1 THEN m
  ELSE [m EXCEPT !.hdr[base] = [ptr |-> base, size |-> 0], !.freep = base]

Heap == [hdr |-> hdr, freep |-> freep, brk |-> brk, core |-> core]

RECURSIVE ListFrom(_, _)
ListFrom(h, S) ==
  LET T == S \cup {h[b].ptr : b \in S} IN IF T = S THEN S ELSE ListFrom(h, T)
FreeList(h, p) == IF p = -1 THEN {} ELSE ListFrom(h, {p})

\* What is in the memory between the headers, and the ptr of a block that is given
\* away, is not read: it is forgotten.
SetHeap(m, g) ==
  /\ given' = g
  /\ hdr' = [a \in DOMAIN m.hdr |->
               IF a \in g THEN [m.hdr[a] EXCEPT !.ptr = 0]
               ELSE IF a \in FreeList(m.hdr, m.freep) THEN m.hdr[a] ELSE NoHeader]
  /\ freep' = m.freep /\ brk' = m.brk /\ core' = m.core

Malloc(n) ==
  LET b == Begun(Heap)
  IN  \E r \in {Search(b, b.freep, b.hdr[b.freep].ptr, n)} :
        SetHeap(r.m, IF r.block = 0 THEN given ELSE given \cup {r.block})

FreeCall(b) == \E m \in {Mfree(Heap, b)} : SetHeap(m, given \ {b})

\* The program calls sbrk: the next block of morecore does not adjoin the last.
Sbrk1 ==
  /\ brk < HeapEnd
  /\ brk' = brk + 1
  /\ UNCHANGED <<hdr, freep, core, given>>

MallocInit ==
  /\ hdr = [a \in {base} \cup HeapStart..HeapEnd |-> NoHeader]
  /\ freep = -1 /\ brk = HeapStart /\ core = {} /\ given = {}

MallocNext ==
  \/ \E n \in Requests : Malloc(n)
  \/ \E b \in given : FreeCall(b)
  \/ Sbrk1

MallocSpec == MallocInit /\ [][MallocNext]_mallocVars

-----------------------------------------------------------------------------
FreeBlocks == FreeList(hdr, freep)

\* After every call (malloc, free, morecore) what morecore got is divided into the
\* blocks the program has and the free ones, which are on one circular list with base,
\* in the order of their addresses; and no two free blocks adjoin, so that a block as
\* large as any that could be made is found.
HeapSound ==
  LET Here == (FreeBlocks \ {base}) \cup given
  IN  /\ FreeBlocks \cap given = {}
      /\ UNION {Units(hdr, b) : b \in Here} = core
      /\ \A b, c \in Here : b # c => Units(hdr, b) \cap Units(hdr, c) = {}
      /\ freep # -1 => base \in FreeBlocks
      /\ Cardinality({b \in FreeBlocks : hdr[b].ptr <= b}) <= 1
      /\ \A b \in FreeBlocks : hdr[b].ptr # b + hdr[b].size \/ b = base
=============================================================================
