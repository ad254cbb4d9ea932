----------------------------- MODULE FilesProofs ----------------------------
(***************************************************************************)
(* Proofs about module Files, for any number of processes, files,          *)
(* descriptors and pipes, any size of the ring and any writes and reads.   *)
(*                                                                         *)
(* The invariant has three layers.  RingInv: where a process is says what  *)
(* it does with which pipe, and the ring holds what has been written and   *)
(* not been read.  RefsInv: references are counted, and who reads or       *)
(* writes has a descriptor.  EndsInv: an end has one file, or one process  *)
(* that closes it, while it is open.                                       *)
(***************************************************************************)
EXTENDS Files, FiniteSetTheorems, SequenceTheorems, WellFoundedInduction, TLAPS

\* What a process at a place of the code does, and how many files it has at hand.
Control(p) ==
  /\ pc[p] \in {"read", "readsleep"} <=> call[p].op = "read"
  /\ pc[p] \in {"write", "writesleep"} <=> call[p].op = "write"
  /\ pc[p] = "pipeclose" <=> call[p].op = "close"
  /\ pc[p] \notin {"file", "page", "close", "pipeclose"} => held[p] = << >>
  /\ pc[p] = "file" => Len(held[p]) = 1
  /\ pc[p] = "page" => Len(held[p]) = 2
  /\ pc[p] = "close" => Len(held[p]) \in {1, 2}
  /\ pc[p] = "pipeclose" => Len(held[p]) \in {0, 1}
  /\ after[p] = "exit" => pc[p] \in {"close", "pipeclose"}

\* What is in the ring of a pipe.
InOrder(k) ==
  flow[k] = [i \in 1..Count(pipe[k]) |-> pipe[k].data[(pipe[k].nread + i - 1) % PIPESIZE]]

Ring(k) ==
  /\ Count(pipe[k]) <= PIPESIZE
  /\ ~ pipe[k].used => pipe[k].nread = pipe[k].nwrite
  /\ InOrder(k)

RingInv == TypeOK /\ (\A p \in Procs : Control(p)) /\ (\A k \in Pipes : Ring(k))

\* The files that pipealloc has taken are nobody else's and not of a pipe yet.
Fresh(p) ==
  pc[p] \in {"file", "page"} =>
    \A i \in 1..Len(held[p]) : file[held[p][i]] = [NoFile EXCEPT !.ref = 1]

\* Who reads or writes has a descriptor for it.
HasDesc(p) ==
  /\ call[p].op = "read" =>
       \E fd \in Fds : HasEnd(p, fd, FALSE) /\ file[ofile[p][fd]].pipe = call[p].pipe
  /\ call[p].op = "write" =>
       \E fd \in Fds : HasEnd(p, fd, TRUE) /\ file[ofile[p][fd]].pipe = call[p].pipe

Unborn(p) == pc[p] = "unused" => \A fd \in Fds : ofile[p][fd] = 0

FreeOK == \A f \in FileNos : file[f].ref = 0 => file[f] = NoFile

RefsInv ==
  /\ RefsCounted /\ FreeOK
  /\ \A p \in Procs : Fresh(p) /\ HasDesc(p) /\ Unborn(p)

\* The file or the process that stands for an end is the only one.
Closes(p, k, w)  == call[p] = [op |-> "close", pipe |-> k, writable |-> w]
IsEnd(f, k, w)   == file[f].pipe = k /\ file[f].writable = w
OneEnd(k, w) ==
  /\ \A f, g \in FileNos : IsEnd(f, k, w) /\ IsEnd(g, k, w) => f = g
  /\ \A p, q \in Procs : Closes(p, k, w) /\ Closes(q, k, w) => p = q
  /\ \A f \in FileNos, p \in Procs : ~ (IsEnd(f, k, w) /\ Closes(p, k, w))

EndsInv == EndsAgree /\ \A k \in Pipes : \A w \in BOOLEAN : OneEnd(k, w)

IndInv == RingInv /\ RefsInv /\ EndsInv /\ SleepersRight
-----------------------------------------------------------------------------
(* Numbers modulo w.                                                       *)

\* The least element of a set of numbers: the first free file, the first descriptor.
LEMMA LowestIs ==
  ASSUME NEW S \in SUBSET Nat, S # {}
  PROVE  Lowest(S) \in S /\ \A y \in S : Lowest(S) <= y
<1>1. IsWellFoundedOn(OpToRel(<, Nat), Nat)
  BY NatLessThanWellFounded
<1>2. PICK x \in S : \A y \in S : ~ (<<y, x>> \in OpToRel(<, Nat))
  BY <1>1, WFMin, Zenon
<1>3. \A y \in S : ~ (y < x)
  BY <1>2, Zenon DEF OpToRel
<1>4. \E z \in S : \A y \in S : z <= y
  BY <1>3
<1> QED BY <1>4, Zenon DEF Lowest

LEMMA Division ==
  ASSUME NEW a \in Int, NEW w \in Nat \ {0}
  PROVE  a = w * (a \div w) + (a % w) /\ a \div w \in Int /\ a % w \in 0..(w - 1)
OBVIOUS

LEMMA Remainder ==
  ASSUME NEW a \in Int, NEW w \in Nat \ {0}, NEW q \in Int, NEW r \in 0..(w - 1),
         a = w * q + r
  PROVE  a % w = r
OBVIOUS

\* What is a multiple of w does not count.
LEMMA Multiple ==
  ASSUME NEW a \in Int, NEW w \in Nat \ {0}, NEW k \in Int
  PROVE  (a + w * k) % w = a % w
<1> DEFINE q == a \div w
<1> DEFINE r == a % w
<1>1. a = w * q + r /\ q \in Int /\ r \in 0..(w - 1)
  BY Division
<1> HIDE DEF q, r
<1>2. a + w * k = w * (q + k) + r
  BY <1>1
<1>3. (a + w * k) % w = r
  BY <1>1, <1>2, Remainder
<1>4. a % w = r
  BY <1>1, Remainder
<1> QED BY <1>3, <1>4

\* Counting may wrap before something is added, or not.
LEMMA WrapOnce ==
  ASSUME NEW a \in Int, NEW b \in Int, NEW w \in Nat \ {0}
  PROVE  ((a % w) + b) % w = (a + b) % w
<1> DEFINE q == a \div w
<1> DEFINE r == a % w
<1>1. a = w * q + r /\ q \in Int /\ r \in Int
  BY Division
<1> HIDE DEF q, r
<1>2. a + b = (r + b) + w * q
  BY <1>1
<1>3. ((r + b) + w * q) % w = (r + b) % w
  <2>1. r + b \in Int
    BY <1>1
  <2> QED BY <1>1, <2>1, Multiple
<1> QED BY <1>2, <1>3 DEF r

LEMMA WrapMinus ==
  ASSUME NEW a \in Int, NEW b \in Int, NEW w \in Nat \ {0}
  PROVE  (b - (a % w)) % w = (b - a) % w
<1> DEFINE q == a \div w
<1> DEFINE r == a % w
<1>1. a = w * q + r /\ q \in Int /\ r \in Int
  BY Division
<1> HIDE DEF q, r
<1>2. b - r = (b - a) + w * q
  BY <1>1
<1>3. ((b - a) + w * q) % w = (b - a) % w
  <2>1. b - a \in Int
    OBVIOUS
  <2> QED BY <1>1, <2>1, Multiple
<1> QED BY <1>2, <1>3 DEF r

\* Less than a round apart is not in the same place.
LEMMA Apart ==
  ASSUME NEW a \in Int, NEW i \in Int, NEW h \in Int, NEW w \in Nat \ {0}, i < h, h < i + w
  PROVE  (a + i) % w # (a + h) % w
<1> DEFINE q1 == (a + i) \div w
<1> DEFINE q2 == (a + h) \div w
<1> SUFFICES ASSUME (a + i) % w = (a + h) % w
             PROVE  FALSE
  OBVIOUS
<1> DEFINE r == (a + i) % w
<1>1. a + i = w * q1 + r /\ a + h = w * q2 + r /\ q1 \in Int /\ q2 \in Int /\ r \in Int
  BY Division
<1> HIDE DEF q1, q2, r
<1> DEFINE d == q2 - q1
<1>2. h - i = w * d /\ d \in Int
  BY <1>1
<1> HIDE DEF d
<1>3. CASE d <= 0
  <2>1. w * d <= 0
    BY <1>2, <1>3
  <2> QED BY <1>2, <2>1
<1>4. CASE d >= 1
  <2>1. w * d >= w
    BY <1>2, <1>4
  <2> QED BY <1>2, <2>1
<1> QED BY <1>2, <1>3, <1>4

\* The ring divides the range of the counters, so that they may wrap.
LEMMA WrapInRing ==
  ASSUME NEW a \in Int, NEW b \in Int
  PROVE  ((a % Wrap) + b) % PIPESIZE = (a + b) % PIPESIZE
<1> DEFINE c == Wrap \div PIPESIZE
<1> DEFINE q == a \div Wrap
<1> DEFINE r == a % Wrap
<1>0. Wrap \in Nat \ {0} /\ PIPESIZE \in Nat \ {0} /\ Wrap % PIPESIZE = 0
  BY FilesAssumption
<1>1. Wrap = PIPESIZE * c /\ c \in Int
  BY <1>0, Division
<1>2. a = Wrap * q + r /\ q \in Int /\ r \in Int
  BY <1>0, Division
<1> HIDE DEF c, q, r
<1> DEFINE e == c * q
<1>3. e \in Int /\ Wrap * q = PIPESIZE * e
  BY <1>0, <1>1, <1>2
<1> HIDE DEF e
<1>4. a + b = (r + b) + PIPESIZE * e
  BY <1>0, <1>2, <1>3
<1>5. ((r + b) + PIPESIZE * e) % PIPESIZE = (r + b) % PIPESIZE
  <2>1. r + b \in Int
    BY <1>2
  <2> QED BY <1>0, <1>3, <2>1, Multiple
<1> QED BY <1>4, <1>5 DEF r
-----------------------------------------------------------------------------
(* The ring of a pipe.                                                     *)

PipeType == [used : BOOLEAN, nread : 0..(Wrap - 1), nwrite : 0..(Wrap - 1),
             data : [0..(PIPESIZE - 1) -> Bytes], readopen : BOOLEAN, writeopen : BOOLEAN]

LEMMA Sizes ==
  /\ Wrap \in Nat \ {0} /\ PIPESIZE \in Nat \ {0} /\ PIPESIZE < Wrap
  /\ 0 \in Bytes /\ \A s \in Writes : s \in Seq(Bytes)
<1>1. Wrap \in Nat \ {0} /\ PIPESIZE \in Nat \ {0} /\ PIPESIZE < Wrap
  BY FilesAssumption
<1>2. 0 \in Bytes
  BY DEF Bytes
<1>3. ASSUME NEW s \in Writes
      PROVE  s \in Seq(Bytes)
  <2>1. s \in Seq(Nat)
    BY FilesAssumption
  <2>2. \A i \in 1..Len(s) : s[i] \in Bytes
    BY <2>1 DEF Bytes
  <2> QED BY <2>1, <2>2
<1> QED BY <1>1, <1>2, <1>3

LEMMA Counters ==
  ASSUME NEW q \in PipeType
  PROVE  /\ q.nread \in 0..(Wrap - 1) /\ q.nwrite \in 0..(Wrap - 1)
         /\ q.nread \in Int /\ q.nwrite \in Int
         /\ Count(q) = (q.nwrite - q.nread) % Wrap /\ Count(q) \in 0..(Wrap - 1)
<1>1. q.nread \in 0..(Wrap - 1) /\ q.nwrite \in 0..(Wrap - 1)
  BY DEF PipeType
<1>2. q.nwrite - q.nread \in Int
  BY <1>1
<1>3. (q.nwrite - q.nread) % Wrap \in 0..(Wrap - 1)
  BY <1>2, Sizes, Division
<1> QED BY <1>1, <1>3 DEF Count

\* The place after the last byte is Count places on.
LEMMA WriteEnd ==
  ASSUME NEW q \in PipeType, NEW x \in Int
  PROVE  /\ (q.nwrite + x) % Wrap = (q.nread + Count(q) + x) % Wrap
         /\ (q.nwrite + x) % PIPESIZE = (q.nread + Count(q) + x) % PIPESIZE
<1> DEFINE a == q.nwrite - q.nread
<1> DEFINE y == q.nread + x
<1>1. a \in Int /\ y \in Int /\ Count(q) = a % Wrap /\ a + y = q.nwrite + x
  BY Counters
<1>2. Count(q) + y = q.nread + Count(q) + x
  BY Counters
<1> HIDE DEF a, y
<1>3. ((a % Wrap) + y) % Wrap = (a + y) % Wrap
  BY <1>1, Sizes, WrapOnce
<1>4. ((a % Wrap) + y) % PIPESIZE = (a + y) % PIPESIZE
  BY <1>1, WrapInRing
<1> QED BY <1>1, <1>2, <1>3, <1>4

LEMMA CountStored ==
  ASSUME NEW q \in PipeType, NEW n \in Nat, Count(q) + n <= PIPESIZE
  PROVE  (((q.nwrite + n) % Wrap) - q.nread) % Wrap = Count(q) + n
<1> DEFINE a == q.nwrite + n
<1> DEFINE b == 0 - q.nread
<1> DEFINE d == q.nwrite - q.nread
<1>1. a \in Int /\ b \in Int /\ d \in Int /\ a + b = d + n /\ Count(q) = d % Wrap
      /\ n \in Int
  BY Counters
<1>2. \A z \in Int : z - q.nread = z + b
  BY Counters
<1> HIDE DEF a, b, d
<1>3. ((a % Wrap) + b) % Wrap = (a + b) % Wrap
  BY <1>1, Sizes, WrapOnce
<1>4. ((d % Wrap) + n) % Wrap = (d + n) % Wrap
  BY <1>1, Sizes, WrapOnce
<1>5. Count(q) + n \in 0..(Wrap - 1)
  BY Counters, Sizes
<1> DEFINE e == Count(q) + n
<1>6. e % Wrap = e
  <2> e \in 0..(Wrap - 1)
    BY <1>5
  <2> HIDE DEF e
  <2> QED BY Sizes, Remainder
<1>7. (a % Wrap) - q.nread = (a % Wrap) + b
  <2> a % Wrap \in Int
    BY <1>1, Sizes, Division
  <2> QED BY <1>2
<1> QED BY <1>1, <1>3, <1>4, <1>6, <1>7 DEF a

LEMMA CountTaken ==
  ASSUME NEW q \in PipeType, NEW n \in Nat, n <= Count(q)
  PROVE  (q.nwrite - ((q.nread + n) % Wrap)) % Wrap = Count(q) - n
<1> DEFINE a == q.nread + n
<1> DEFINE b == 0 - n
<1> DEFINE d == q.nwrite - q.nread
<1>1. a \in Int /\ b \in Int /\ d \in Int /\ q.nwrite - a = d + b /\ Count(q) = d % Wrap
      /\ Count(q) + b = Count(q) - n
  BY Counters
<1> HIDE DEF a, b, d
<1>2. (q.nwrite - (a % Wrap)) % Wrap = (q.nwrite - a) % Wrap
  BY <1>1, Counters, Sizes, WrapMinus
<1>3. ((d % Wrap) + b) % Wrap = (d + b) % Wrap
  BY <1>1, Sizes, WrapOnce
<1> DEFINE e == Count(q) - n
<1>4. e % Wrap = e
  <2> e \in 0..(Wrap - 1)
    BY Counters, Sizes
  <2> HIDE DEF e
  <2> QED BY Sizes, Remainder
<1> QED BY <1>1, <1>2, <1>3, <1>4 DEF a

\* Each byte goes to a place of its own that is not in use.
LEMMA StoredPlaces ==
  ASSUME NEW q \in PipeType, NEW n \in Nat, Count(q) + n <= PIPESIZE
  PROVE  /\ \A h, i \in 1..n : h # i => (q.nwrite + h - 1) % PIPESIZE # (q.nwrite + i - 1) % PIPESIZE
         /\ \A h \in 1..n, i \in 1..Count(q) :
              (q.nwrite + h - 1) % PIPESIZE # (q.nread + i - 1) % PIPESIZE
<1> DEFINE a == q.nread - 1
<1>1. a \in Int /\ Count(q) \in Nat
  BY Counters
<1>2. \A i \in Int : q.nread + i - 1 = a + i /\ q.nread + Count(q) + (i - 1) = a + (Count(q) + i)
                     /\ q.nwrite + i - 1 = q.nwrite + (i - 1)
  <2> TAKE i \in Int
  <2>1. q.nread \in Int /\ q.nwrite \in Int
    BY Counters
  <2> QED BY <1>1, <2>1
<1> HIDE DEF a
<1>3. \A h \in Int : (q.nwrite + h - 1) % PIPESIZE = (a + (Count(q) + h)) % PIPESIZE
  <2> TAKE h \in Int
  <2>1. h - 1 \in Int
    OBVIOUS
  <2>2. (q.nwrite + (h - 1)) % PIPESIZE = (q.nread + Count(q) + (h - 1)) % PIPESIZE
    BY <2>1, WriteEnd
  <2> QED BY <1>2, <2>2
<1>4. \A i, h \in Int : i < h /\ h < i + PIPESIZE => (a + i) % PIPESIZE # (a + h) % PIPESIZE
  BY <1>1, Sizes, Apart
<1>5. ASSUME NEW h \in 1..n, NEW i \in 1..n, h < i
      PROVE  (q.nwrite + h - 1) % PIPESIZE # (q.nwrite + i - 1) % PIPESIZE
  <2> DEFINE x == Count(q) + h
  <2> DEFINE y == Count(q) + i
  <2>1. x \in Int /\ y \in Int /\ x < y /\ y < x + PIPESIZE /\ h \in Int /\ i \in Int
    BY <1>1, <1>5, Sizes
  <2>2. (q.nwrite + h - 1) % PIPESIZE = (a + x) % PIPESIZE
        /\ (q.nwrite + i - 1) % PIPESIZE = (a + y) % PIPESIZE
    BY <1>3, <2>1
  <2> HIDE DEF x, y
  <2> QED BY <1>4, <2>1, <2>2
<1>6. ASSUME NEW h \in 1..n, NEW i \in 1..Count(q)
      PROVE  (q.nwrite + h - 1) % PIPESIZE # (q.nread + i - 1) % PIPESIZE
  <2> DEFINE x == Count(q) + h
  <2>1. x \in Int /\ i \in Int /\ i < x /\ x < i + PIPESIZE /\ h \in Int
    BY <1>1, Sizes
  <2>2. (q.nwrite + h - 1) % PIPESIZE = (a + x) % PIPESIZE
        /\ (q.nread + i - 1) % PIPESIZE = (a + i) % PIPESIZE
    BY <1>2, <1>3, <2>1
  <2> HIDE DEF x
  <2> QED BY <1>4, <2>1, <2>2
<1>7. \A h, i \in 1..n : h # i => h < i \/ i < h
  OBVIOUS
<1> QED BY <1>5, <1>6, <1>7

LEMMA StoredIs ==
  ASSUME NEW q \in PipeType, NEW s \in Seq(Bytes), Count(q) + Len(s) <= PIPESIZE
  PROVE  /\ Stored(q, s) \in PipeType
         /\ Stored(q, s).nread = q.nread
         /\ Stored(q, s).used = q.used
         /\ Stored(q, s).readopen = q.readopen /\ Stored(q, s).writeopen = q.writeopen
         /\ Count(Stored(q, s)) = Count(q) + Len(s)
         /\ \A i \in 1..Count(q) : Stored(q, s).data[(q.nread + i - 1) % PIPESIZE]
                                   = q.data[(q.nread + i - 1) % PIPESIZE]
         /\ \A i \in 1..Len(s) : Stored(q, s).data[(q.nread + (Count(q) + i) - 1) % PIPESIZE] = s[i]
<1> DEFINE I(j) == {i \in 1..Len(s) : (q.nwrite + i - 1) % PIPESIZE = j}
<1> DEFINE d == [j \in DOMAIN q.data |->
                   IF I(j) = {} THEN q.data[j] ELSE s[CHOOSE i \in I(j) : \A h \in I(j) : h <= i]]
<1> DEFINE n == (q.nwrite + Len(s)) % Wrap
<1>0. Len(s) \in Nat /\ Count(q) \in Nat
  BY Counters
<1>1. Stored(q, s) = [q EXCEPT !.nwrite = n, !.data = d]
  BY DEF Stored
<1>2. n \in 0..(Wrap - 1)
  <2>1. q.nwrite + Len(s) \in Int
    BY Counters, <1>0
  <2> QED BY <2>1, Sizes, Division
<1>3. ASSUME NEW i \in 1..Len(s), NEW j, j = (q.nwrite + i - 1) % PIPESIZE
      PROVE  I(j) # {} /\ (CHOOSE x \in I(j) : \A h \in I(j) : h <= x) = i
  <2>1. I(j) = {i}
    BY <1>0, <1>3, StoredPlaces
  <2> QED BY <2>1
<1>4. \A i \in 1..Count(q) : I((q.nread + i - 1) % PIPESIZE) = {}
  BY <1>0, StoredPlaces
<1>5. DOMAIN q.data = 0..(PIPESIZE - 1) /\ q.data \in [0..(PIPESIZE - 1) -> Bytes]
  BY DEF PipeType
<1>6. d \in [0..(PIPESIZE - 1) -> Bytes]
  <2> SUFFICES ASSUME NEW j \in 0..(PIPESIZE - 1), I(j) # {}
               PROVE  s[CHOOSE x \in I(j) : \A h \in I(j) : h <= x] \in Bytes
    BY <1>5
  <2>1. PICK i \in 1..Len(s) : j = (q.nwrite + i - 1) % PIPESIZE
    OBVIOUS
  <2> DEFINE c == CHOOSE x \in I(j) : \A h \in I(j) : h <= x
  <2>2. c = i
    <3> HIDE DEF I
    <3> QED BY <1>3, <2>1
  <2> HIDE DEF I, c
  <2>3. s[c] \in Bytes
    BY <2>2
  <2> QED BY <2>3 DEF c
<1>7. \A i \in 1..Count(q) : d[(q.nread + i - 1) % PIPESIZE] = q.data[(q.nread + i - 1) % PIPESIZE]
  <2> TAKE i \in 1..Count(q)
  <2>1. (q.nread + i - 1) % PIPESIZE \in DOMAIN q.data
    <3>1. q.nread + i - 1 \in Int
      BY Counters
    <3> QED BY <3>1, <1>5, Sizes, Division
  <2>2. I((q.nread + i - 1) % PIPESIZE) = {}
    BY <1>4
  <2> HIDE DEF I
  <2> QED BY <2>1, <2>2
<1>8. \A i \in 1..Len(s) : d[(q.nread + (Count(q) + i) - 1) % PIPESIZE] = s[i]
  <2> TAKE i \in 1..Len(s)
  <2> DEFINE j == (q.nwrite + i - 1) % PIPESIZE
  <2>1. q.nwrite + i - 1 \in Int /\ i - 1 \in Int /\ q.nwrite + i - 1 = q.nwrite + (i - 1)
        /\ q.nread + (Count(q) + i) - 1 = q.nread + Count(q) + (i - 1)
    BY Counters, <1>0
  <2>2. j = (q.nread + (Count(q) + i) - 1) % PIPESIZE
    BY <2>1, WriteEnd
  <2>3. j \in DOMAIN q.data
    BY <2>1, <1>5, Sizes, Division
  <2>4. I(j) # {} /\ (CHOOSE x \in I(j) : \A h \in I(j) : h <= x) = i
    BY <1>3
  <2> HIDE DEF I, j
  <2> QED BY <2>2, <2>3, <2>4
<1>9. (n - q.nread) % Wrap = Count(q) + Len(s)
  BY <1>0, CountStored
<1> HIDE DEF d, n
<1>10. Stored(q, s) \in PipeType
  BY <1>1, <1>2, <1>6 DEF PipeType
<1>11. /\ Stored(q, s).nread = q.nread /\ Stored(q, s).nwrite = n /\ Stored(q, s).data = d
       /\ Stored(q, s).used = q.used
       /\ Stored(q, s).readopen = q.readopen /\ Stored(q, s).writeopen = q.writeopen
  BY <1>1 DEF PipeType
<1>12. Count(Stored(q, s)) = Count(q) + Len(s)
  BY <1>9, <1>11 DEF Count
<1> QED BY <1>7, <1>8, <1>10, <1>11, <1>12

LEMMA TakenIs ==
  ASSUME NEW q \in PipeType, NEW m \in Nat, m <= Count(q), Count(q) <= PIPESIZE
  PROVE  /\ Taken(q, m) \in PipeType
         /\ Taken(q, m).nwrite = q.nwrite
         /\ Taken(q, m).used = q.used
         /\ Taken(q, m).readopen = q.readopen /\ Taken(q, m).writeopen = q.writeopen
         /\ Count(Taken(q, m)) = Count(q) - m
         /\ \A i \in 1..(Count(q) - m) :
              Taken(q, m).data[(Taken(q, m).nread + i - 1) % PIPESIZE]
              = q.data[(q.nread + (m + i) - 1) % PIPESIZE]
<1> DEFINE d == [j \in DOMAIN q.data |->
                   IF \E i \in 0..(m - 1) : (q.nread + i) % PIPESIZE = j THEN 0 ELSE q.data[j]]
<1> DEFINE n == (q.nread + m) % Wrap
<1>0. Count(q) \in Nat /\ q.nread \in Int
  BY Counters
<1>1. Taken(q, m) = [q EXCEPT !.nread = n, !.data = d]
  BY DEF Taken
<1>2. n \in 0..(Wrap - 1)
  <2>1. q.nread + m \in Int
    BY <1>0
  <2> QED BY <2>1, Sizes, Division
<1>3. d \in [0..(PIPESIZE - 1) -> Bytes]
  BY Sizes DEF PipeType
<1>4. ASSUME NEW i \in 1..(Count(q) - m)
      PROVE  d[(n + i - 1) % PIPESIZE] = q.data[(q.nread + (m + i) - 1) % PIPESIZE]
  <2> DEFINE a == q.nread
  <2> DEFINE b == q.nread + m
  <2> DEFINE y == i - 1
  <2> DEFINE x == m + i - 1
  <2>1. a \in Int /\ b \in Int /\ y \in Int /\ x \in Int
        /\ n + i - 1 = n + y /\ b + y = a + x /\ q.nread + (m + i) - 1 = a + x
    BY <1>0, <1>2, Sizes
  <2>2. \A h \in 0..(m - 1) : h \in Int /\ h < x /\ x < h + PIPESIZE
    BY <1>0, Sizes
  <2>3. n = b % Wrap /\ q.nread = a
    OBVIOUS
  <2> HIDE DEF a, b, x, y, n
  <2>4. ((b % Wrap) + y) % PIPESIZE = (b + y) % PIPESIZE
    BY <2>1, WrapInRing
  <2>5. (n + i - 1) % PIPESIZE = (a + x) % PIPESIZE
    BY <2>1, <2>3, <2>4
  <2>6. \A h \in 0..(m - 1) : (a + h) % PIPESIZE # (a + x) % PIPESIZE
    BY <2>1, <2>2, Sizes, Apart
  <2>7. (a + x) % PIPESIZE \in 0..(PIPESIZE - 1)
    <3>1. a + x \in Int
      BY <2>1
    <3> QED BY <3>1, Sizes, Division
  <2>8. d[(a + x) % PIPESIZE] = q.data[(a + x) % PIPESIZE]
    BY <2>3, <2>6, <2>7 DEF PipeType
  <2> HIDE DEF d
  <2> QED BY <2>1, <2>5, <2>8
<1>5. (q.nwrite - n) % Wrap = Count(q) - m
  BY <1>0, CountTaken
<1> HIDE DEF d, n
<1>6. Taken(q, m) \in PipeType
  BY <1>1, <1>2, <1>3 DEF PipeType
<1>7. /\ Taken(q, m).nread = n /\ Taken(q, m).nwrite = q.nwrite /\ Taken(q, m).data = d
      /\ Taken(q, m).used = q.used
      /\ Taken(q, m).readopen = q.readopen /\ Taken(q, m).writeopen = q.writeopen
  BY <1>1 DEF PipeType
<1>8. Count(Taken(q, m)) = Count(q) - m
  BY <1>5, <1>7 DEF Count
<1> QED BY <1>4, <1>6, <1>7, <1>8

\* The bytes in the ring of q, from the first that will be read.
InRing(q) == [i \in 1..Count(q) |-> q.data[(q.nread + i - 1) % PIPESIZE]]

LEMMA RingIs ==
  ASSUME NEW q \in PipeType
  PROVE  InRing(q) \in Seq(Bytes) /\ Len(InRing(q)) = Count(q)
<1>1. ASSUME NEW i \in 1..Count(q)
      PROVE  q.data[(q.nread + i - 1) % PIPESIZE] \in Bytes
  <2>1. q.nread + i - 1 \in Int
    BY Counters
  <2>2. (q.nread + i - 1) % PIPESIZE \in 0..(PIPESIZE - 1)
    BY <2>1, Sizes, Division
  <2> QED BY <2>2 DEF PipeType
<1>2. Count(q) \in Nat
  BY Counters
<1>3. InRing(q) \in [1..Count(q) -> Bytes]
  BY <1>1 DEF InRing
<1> QED BY <1>2, <1>3

LEMMA RingStored ==
  ASSUME NEW q \in PipeType, NEW s \in Seq(Bytes), Count(q) + Len(s) <= PIPESIZE
  PROVE  InRing(Stored(q, s)) = InRing(q) \o s
<1> DEFINE r == Stored(q, s)
<1>1. r \in PipeType /\ r.nread = q.nread /\ Count(r) = Count(q) + Len(s)
      /\ Count(q) \in Nat /\ Len(s) \in Nat
  BY StoredIs, Counters
<1>2. \A i \in 1..Count(q) : r.data[(q.nread + i - 1) % PIPESIZE]
                             = q.data[(q.nread + i - 1) % PIPESIZE]
  BY StoredIs
<1>3. \A i \in 1..Len(s) : r.data[(q.nread + (Count(q) + i) - 1) % PIPESIZE] = s[i]
  BY StoredIs
<1> HIDE DEF r
<1>4. InRing(q) \in Seq(Bytes) /\ Len(InRing(q)) = Count(q)
      /\ InRing(r) \in Seq(Bytes) /\ Len(InRing(r)) = Count(q) + Len(s)
  BY <1>1, RingIs
<1>5. Len(InRing(q) \o s) = Count(q) + Len(s) /\ InRing(q) \o s \in Seq(Bytes)
  BY <1>4
<1>6. ASSUME NEW i \in 1..(Count(q) + Len(s))
      PROVE  InRing(r)[i] = (InRing(q) \o s)[i]
  <2>1. InRing(r)[i] = r.data[(q.nread + i - 1) % PIPESIZE]
    BY <1>1 DEF InRing
  <2>2. CASE i <= Count(q)
    <3>1. i \in 1..Count(q)
      BY <1>1, <2>2
    <3>2. InRing(q)[i] = q.data[(q.nread + i - 1) % PIPESIZE]
      BY <3>1 DEF InRing
    <3>3. (InRing(q) \o s)[i] = InRing(q)[i]
      BY <1>4, <3>1
    <3> QED BY <1>2, <2>1, <3>1, <3>2, <3>3
  <2>3. CASE ~ (i <= Count(q))
    <3> DEFINE h == i - Count(q)
    <3>1. h \in 1..Len(s) /\ i = Count(q) + h
      BY <1>1, <2>3
    <3> HIDE DEF h
    <3>2. (InRing(q) \o s)[Count(q) + h] = s[h]
      BY <1>1, <1>4, <3>1
    <3> QED BY <1>3, <2>1, <3>1, <3>2
  <2> QED BY <2>2, <2>3
<1> QED BY <1>4, <1>5, <1>6 DEF r

LEMMA RingTaken ==
  ASSUME NEW q \in PipeType, NEW m \in Nat, m <= Count(q), Count(q) <= PIPESIZE
  PROVE  InRing(Taken(q, m)) = SubSeq(InRing(q), m + 1, Len(InRing(q)))
<1> DEFINE r == Taken(q, m)
<1> DEFINE f == InRing(q)
<1>1. r \in PipeType /\ Count(r) = Count(q) - m /\ Count(q) \in Nat
  BY TakenIs, Counters
<1>2. \A i \in 1..(Count(q) - m) : r.data[(r.nread + i - 1) % PIPESIZE]
                                   = q.data[(q.nread + (m + i) - 1) % PIPESIZE]
  BY TakenIs
<1> HIDE DEF r
<1>3. f \in Seq(Bytes) /\ Len(f) = Count(q)
      /\ InRing(r) \in Seq(Bytes) /\ Len(InRing(r)) = Count(q) - m
  BY <1>1, RingIs
<1>4. \A i \in 1..(Count(q) - m) : InRing(r)[i] = f[m + i]
  BY <1>1, <1>2 DEF InRing
<1> HIDE DEF f
<1>5. SubSeq(f, m + 1, Len(f)) \in Seq(Bytes) /\ Len(SubSeq(f, m + 1, Len(f))) = Count(q) - m
  BY <1>1, <1>3
<1>6. \A i \in 1..(Count(q) - m) : SubSeq(f, m + 1, Len(f))[i] = f[m + i]
  BY <1>1, <1>3
<1> QED BY <1>3, <1>4, <1>5, <1>6 DEF r, f

LEMMA FullAfter ==
  ASSUME NEW q \in PipeType, NEW j \in Nat, Count(q) + j <= PIPESIZE
  PROVE  (q.nwrite + j) % Wrap = (q.nread + PIPESIZE) % Wrap <=> Count(q) + j = PIPESIZE
<1> DEFINE a == q.nread
<1> DEFINE x == Count(q) + j
<1>1. a \in Int /\ x \in Int /\ j \in Int /\ PIPESIZE \in Int /\ x <= PIPESIZE
      /\ PIPESIZE < x + Wrap /\ q.nread + Count(q) + j = a + x
  BY Counters, Sizes
<1>2. (q.nwrite + j) % Wrap = (a + x) % Wrap
  BY <1>1, WriteEnd
<1> HIDE DEF a, x
<1>3. x < PIPESIZE => (a + x) % Wrap # (a + PIPESIZE) % Wrap
  BY <1>1, Sizes, Apart
<1>4. (a + x) % Wrap = (a + PIPESIZE) % Wrap <=> x = PIPESIZE
  BY <1>1, <1>3
<1> QED BY <1>2, <1>4 DEF a, x

LEMMA FullIs ==
  ASSUME NEW q \in PipeType, Count(q) <= PIPESIZE
  PROVE  /\ Full(q) <=> Count(q) = PIPESIZE
         /\ Empty(q) <=> Count(q) = 0
<1>1. q.nwrite \in 0..(Wrap - 1) /\ q.nread \in 0..(Wrap - 1)
  BY Counters
<1>2. (q.nwrite + 0) % Wrap = q.nwrite
  <2>1. q.nwrite + 0 = q.nwrite /\ q.nwrite \in Int
    BY <1>1
  <2> QED BY <2>1, <1>1, Sizes, Remainder
<1>3. Full(q) <=> Count(q) = PIPESIZE
  <2>1. Count(q) \in Nat /\ Count(q) + 0 <= PIPESIZE /\ Count(q) + 0 = Count(q)
    BY Counters, Sizes
  <2> QED BY <1>2, <2>1, FullAfter DEF Full
<1>4. Empty(q) <=> Count(q) = 0
  <2>1. CASE Empty(q)
    <3>1. q.nwrite - q.nread = 0
      BY <1>1, <2>1 DEF Empty
    <3>2. 0 % Wrap = 0
      BY Sizes, Remainder
    <3> QED BY <2>1, <3>1, <3>2 DEF Count
  <2>2. CASE Count(q) = 0
    <3>1. (q.nwrite + 0) % Wrap = (q.nread + 0 + 0) % Wrap
      BY <2>2, WriteEnd
    <3>2. (q.nread + 0 + 0) % Wrap = q.nread
      <4>1. q.nread + 0 + 0 = q.nread /\ q.nread \in Int
        BY <1>1
      <4> QED BY <4>1, <1>1, Sizes, Remainder
    <3> QED BY <1>2, <2>2, <3>1, <3>2 DEF Empty
  <2> QED BY <2>1, <2>2
<1> QED BY <1>3, <1>4

\* pipewrite stops where the ring is full, or at the end.
LEMMA FitIs ==
  ASSUME NEW p \in Procs,
         pipe[call[p].pipe] \in PipeType, Count(pipe[call[p].pipe]) <= PIPESIZE,
         call[p].bytes \in Seq(Bytes)
  PROVE  /\ Fit(p) \in Seq(Bytes)
         /\ Len(Fit(p)) <= Len(call[p].bytes)
         /\ Count(pipe[call[p].pipe]) + Len(Fit(p)) <= PIPESIZE
         /\ Fit(p) # call[p].bytes => Count(pipe[call[p].pipe]) + Len(Fit(p)) = PIPESIZE
<1> DEFINE q == pipe[call[p].pipe]
<1> DEFINE s == call[p].bytes
<1> DEFINE N == {i \in 0..Len(s) : \A j \in 0..(i - 1) : ~ Full([q EXCEPT !.nwrite = (@ + j) % Wrap])}
<1> DEFINE n == IF Len(s) <= PIPESIZE - Count(q) THEN Len(s) ELSE PIPESIZE - Count(q)
<1>1. q \in PipeType /\ Count(q) \in Nat /\ s \in Seq(Bytes) /\ Count(q) <= PIPESIZE
  BY Counters
<1>2. Fit(p) = SubSeq(s, 1, CHOOSE i \in N : \A j \in N : j <= i)
  BY DEF Fit
<1>3. ASSUME NEW j \in Nat, Count(q) + j <= PIPESIZE
      PROVE  Full([q EXCEPT !.nwrite = (@ + j) % Wrap]) <=> Count(q) + j = PIPESIZE
  <2> DEFINE r == [q EXCEPT !.nwrite = (@ + j) % Wrap]
  <2>1. r.nwrite = (q.nwrite + j) % Wrap /\ r.nread = q.nread
    BY <1>1 DEF PipeType
  <2>2. Full(r) <=> (q.nwrite + j) % Wrap = (q.nread + PIPESIZE) % Wrap
    BY <2>1 DEF Full
  <2> HIDE DEF r, q
  <2>3. Full(r) <=> Count(q) + j = PIPESIZE
    BY <1>1, <1>3, <2>2, FullAfter
  <2> QED BY <2>3 DEF r
<1> DEFINE FullAt(j) == Full([q EXCEPT !.nwrite = (@ + j) % Wrap])
<1>4. \A j \in Nat : Count(q) + j <= PIPESIZE => (FullAt(j) <=> Count(q) + j = PIPESIZE)
  BY <1>3
<1>5. N = {i \in 0..Len(s) : \A j \in 0..(i - 1) : ~ FullAt(j)}
  OBVIOUS
<1> HIDE DEF q, s, N, n, FullAt
<1>6. n \in 0..Len(s) /\ Count(q) + n <= PIPESIZE /\ (n # Len(s) => Count(q) + n = PIPESIZE)
  BY <1>1, Sizes DEF n
<1>7. n \in N
  <2> SUFFICES ASSUME NEW j \in 0..(n - 1)
               PROVE  ~ FullAt(j)
    BY <1>5, <1>6
  <2>1. j \in Nat /\ Count(q) + j < PIPESIZE
    BY <1>1, <1>6, Sizes
  <2> QED BY <1>1, <1>4, <2>1, Sizes
<1>8. \A i \in N : i <= n
  <2> SUFFICES ASSUME NEW i \in N, n < i
               PROVE  FALSE
    BY <1>5, <1>6
  <2>1. n \in 0..(i - 1) /\ n # Len(s) /\ n \in Nat
    BY <1>1, <1>5, <1>6
  <2>2. FullAt(n)
    BY <1>1, <1>4, <1>6, <2>1, Sizes
  <2> QED BY <1>5, <2>1, <2>2
<1>9. \A i \in N : (\A j \in N : j <= i) => i = n
  <2>1. \A i \in N : i \in Int
    BY <1>5
  <2> QED BY <1>6, <1>7, <1>8, <2>1
<1>10. (CHOOSE i \in N : \A j \in N : j <= i) = n
  <2>1. (CHOOSE i \in N : \A j \in N : j <= i) \in N
        /\ \A j \in N : j <= (CHOOSE i \in N : \A k \in N : k <= i)
    BY <1>7, <1>8, Zenon
  <2> QED BY <1>9, <2>1, Zenon
<1>11. Fit(p) = SubSeq(s, 1, n)
  BY <1>2, <1>10
<1>12. Len(SubSeq(s, 1, n)) = n /\ SubSeq(s, 1, n) \in Seq(Bytes)
  BY <1>1, <1>6
<1>13. n = Len(s) => SubSeq(s, 1, n) = s
  BY <1>1
<1> QED BY <1>1, <1>6, <1>11, <1>12, <1>13 DEF q, s
-----------------------------------------------------------------------------
(* The first layer: places in the code, and the ring.                      *)

FileType == [ref : Nat, pipe : Pipes \cup {0}, writable : BOOLEAN]

LEMMA FirstFree ==
  ASSUME FreeFiles # {}
  PROVE  Lowest(FreeFiles) \in FileNos /\ file[Lowest(FreeFiles)].ref = 0
<1>1. FreeFiles \in SUBSET Nat
  BY FilesAssumption DEF FreeFiles, FileNos
<1>2. Lowest(FreeFiles) \in FreeFiles
  BY <1>1, LowestIs
<1> QED BY <1>2 DEF FreeFiles

LEMMA FirstFd ==
  ASSUME NEW p \in Procs, NEW S \in SUBSET Fds, S # {}
  PROVE  Lowest(S) \in S /\ Lowest(S) \in Fds
<1>1. S \in SUBSET Nat
  BY FilesAssumption DEF Fds
<1> QED BY <1>1, LowestIs

\* fileclose for the files s, then on to l.
LEMMA CloseAllIs ==
  ASSUME NEW p \in Procs, NEW s, NEW l, CloseAll(p, s, l)
  PROVE  /\ held' = [held EXCEPT ![p] = s]
         /\ pc' = [pc EXCEPT ![p] = IF s = << >> THEN l ELSE "close"]
         /\ after' = [after EXCEPT ![p] = IF s = << >> THEN "user" ELSE l]
BY DEF CloseAll, Goto

\* A process that the step does not move, or that it wakes.
LEMMA ControlKept ==
  ASSUME NEW q \in Procs, Control(q),
         held'[q] = held[q], after'[q] = after[q], call'[q] = call[q],
         \/ pc'[q] = pc[q]
         \/ pc[q] \in {"readsleep", "writesleep"} /\ pc'[q] = call[q].op
  PROVE  Control(q)'
BY DEF Control

\* The pipes and what is in them stay.
LEMMA RingKept ==
  ASSUME UNCHANGED <<pipe, flow>>, \A k \in Pipes : Ring(k)
  PROVE  \A k \in Pipes : Ring(k)'
BY DEF Ring, InOrder, Count

TablesOK ==
  /\ file \in [FileNos -> FileType]
  /\ ofile \in [Procs -> [Fds -> FileNos \cup {0}]]
  /\ pc \in [Procs -> Pcs]
  /\ call \in [Procs -> Requests]
  /\ held \in [Procs -> Seq(FileNos)]
  /\ after \in [Procs -> {"user", "exit"}]
  /\ killed \in [Procs -> BOOLEAN]

PipesOK ==
  /\ pipe \in [Pipes -> PipeType]
  /\ flow \in [Pipes -> Seq(Bytes)]
  /\ short \in [Pipes -> BOOLEAN]

LEMMA Types == TypeOK <=> TablesOK /\ PipesOK
BY DEF TypeOK, TablesOK, PipesOK, FileType, PipeType

LEMMA Split == RingInv <=> TablesOK /\ PipesOK /\ (\A p \in Procs : Control(p)) /\ (\A k \in Pipes : Ring(k))
BY Types DEF RingInv

LEMMA FileallocType ==
  ASSUME TablesOK, FreeFiles # {}
  PROVE  Filealloc \in [FileNos -> FileType] /\ Lowest(FreeFiles) \in FileNos
<1> DEFINE g == Lowest(FreeFiles)
<1>1. g \in FileNos
  BY FirstFree
<1> HIDE DEF g
<1>2. [file[g] EXCEPT !.ref = 1] \in FileType
  BY <1>1 DEF TablesOK, FileType
<1>3. [file EXCEPT ![g] = [file[g] EXCEPT !.ref = 1]] \in [FileNos -> FileType]
  BY <1>1, <1>2 DEF TablesOK
<1>4. [file EXCEPT ![g].ref = 1] = [file EXCEPT ![g] = [file[g] EXCEPT !.ref = 1]]
  OBVIOUS
<1> QED BY <1>1, <1>3, <1>4 DEF Filealloc, g

LEMMA FdsFinite == IsFiniteSet(Fds)
<1>1. NOFILE \in Nat
  BY FilesAssumption
<1>2. 0 \in Int /\ NOFILE - 1 \in Int
  BY <1>1
<1> QED BY <1>2, FS_Interval DEF Fds

LEMMA DuppedType ==
  ASSUME TablesOK, NEW p \in Procs, NEW S \in SUBSET Fds
  PROVE  Dupped(p, S) \in [FileNos -> FileType]
<1> SUFFICES ASSUME NEW f \in FileNos
             PROVE  [file[f] EXCEPT !.ref = @ + Cardinality({fd \in S : ofile[p][fd] = f})] \in FileType
  BY DEF Dupped
<1> DEFINE n == Cardinality({fd \in S : ofile[p][fd] = f})
<1>1. n \in Nat
  BY FdsFinite, FS_Subset, FS_CardinalityType
<1> HIDE DEF n
<1>2. file[f] \in FileType /\ file[f].ref + n \in Nat
  BY <1>1 DEF TablesOK, FileType
<1>3. [file[f] EXCEPT !.ref = file[f].ref + n] \in FileType
  BY <1>2 DEF FileType
<1> QED BY <1>3 DEF n

LEMMA CallsControl ==
  ASSUME NEW p \in Procs, Control(p), Calls(p)
  PROVE  pc[p] = "user" /\ held[p] = << >> /\ after[p] # "exit" /\ call[p].op \notin {"read", "write", "close"}
BY DEF Control, Calls

\* The steps that leave the pipes alone, and all processes but p (and q, for fork).
LEMMA RingQuiet ==
  ASSUME RingInv, UNCHANGED <<pipe, flow, short>>, TablesOK',
         \A r \in Procs : Control(r)'
  PROVE  RingInv'
<1>1. PipesOK'
  BY Split DEF PipesOK
<1>2. \A k \in Pipes : Ring(k)'
  BY Split, RingKept
<1>3. TypeOK' <=> TablesOK' /\ PipesOK'
  BY DEF TypeOK, TablesOK, PipesOK, FileType, PipeType
<1> QED BY <1>1, <1>2, <1>3 DEF RingInv

\* p goes on to fileclose with the files s, or at once to l.
LEMMA CloseAllControl ==
  ASSUME NEW p \in Procs, TablesOK, Control(p), NEW s \in Seq(FileNos), NEW l \in {"user", "exit", "unused"},
         CloseAll(p, s, l), UNCHANGED call,
         call[p].op \notin {"read", "write", "close"}, Len(s) <= 2,
         s # << >> => l \in {"user", "exit"}
  PROVE  /\ pc' \in [Procs -> Pcs] /\ held' \in [Procs -> Seq(FileNos)]
         /\ after' \in [Procs -> {"user", "exit"}]
         /\ Control(p)'
         /\ \A q \in Procs : q # p => pc'[q] = pc[q] /\ held'[q] = held[q] /\ after'[q] = after[q]
<1>1. /\ held' = [held EXCEPT ![p] = s]
      /\ pc' = [pc EXCEPT ![p] = IF s = << >> THEN l ELSE "close"]
      /\ after' = [after EXCEPT ![p] = IF s = << >> THEN "user" ELSE l]
  BY CloseAllIs
<1>2. pc' \in [Procs -> Pcs] /\ held' \in [Procs -> Seq(FileNos)]
  BY <1>1 DEF TablesOK, Pcs
<1>3. after' \in [Procs -> {"user", "exit"}]
  BY <1>1 DEF TablesOK
<1>4. held'[p] = s /\ pc'[p] = (IF s = << >> THEN l ELSE "close")
      /\ after'[p] = (IF s = << >> THEN "user" ELSE l) /\ call'[p] = call[p]
  BY <1>1 DEF TablesOK
<1>5. s # << >> => Len(s) \in {1, 2}
  <2>1. Len(s) \in Nat
    OBVIOUS
  <2>2. s # << >> => Len(s) # 0
    OBVIOUS
  <2> DEFINE n == Len(s)
  <2>3. n # 0 => n \in {1, 2}
    <3>1. n \in Nat /\ n <= 2
      BY <2>1
    <3> HIDE DEF n
    <3> QED BY <3>1
  <2> QED BY <2>2, <2>3
<1>6. Control(p)'
  <2>1. CASE s = << >>
    BY <1>4, <2>1 DEF Control
  <2>2. CASE s # << >>
    BY <1>4, <1>5, <2>2 DEF Control
  <2> QED BY <2>1, <2>2
<1>7. \A q \in Procs : q # p => pc'[q] = pc[q] /\ held'[q] = held[q] /\ after'[q] = after[q]
  BY <1>1 DEF TablesOK
<1> QED BY <1>2, <1>3, <1>6, <1>7

LEMMA DupRing ==
  ASSUME RingInv, NEW p \in Procs, NEW fd \in Fds, Dup(p, fd)
  PROVE  RingInv'
<1>1. TablesOK /\ (\A q \in Procs : Control(q))
  BY Split
<1>2. FreeFds(p) \in SUBSET Fds /\ FreeFds(p) # {}
  BY DEF FreeFds, Dup
<1>3. Lowest(FreeFds(p)) \in Fds
  BY <1>2, FirstFd
<1>4. file' \in [FileNos -> FileType]
  BY <1>1, DuppedType DEF Dup
<1>5. ofile' \in [Procs -> [Fds -> FileNos \cup {0}]]
  BY <1>1, <1>3 DEF Dup, TablesOK
<1>6. TablesOK'
  BY <1>1, <1>4, <1>5 DEF TablesOK, Dup
<1>7. \A q \in Procs : Control(q)'
  BY <1>1 DEF Control, Dup
<1> QED BY <1>6, <1>7, RingQuiet DEF Dup

\* The steps that end, or go on, with fileclose.
LEMMA ClosingRing ==
  ASSUME RingInv, NEW p \in Procs, NEW s \in Seq(FileNos), NEW l \in {"user", "exit", "unused"},
         CloseAll(p, s, l), UNCHANGED <<pipe, call, flow, short>>,
         call[p].op \notin {"read", "write", "close"}, Len(s) <= 2,
         s # << >> => l \in {"user", "exit"},
         file' \in [FileNos -> FileType], ofile' \in [Procs -> [Fds -> FileNos \cup {0}]],
         killed' \in [Procs -> BOOLEAN]
  PROVE  RingInv'
<1>1. TablesOK /\ (\A q \in Procs : Control(q))
  BY Split
<1>2. /\ pc' \in [Procs -> Pcs] /\ held' \in [Procs -> Seq(FileNos)]
      /\ after' \in [Procs -> {"user", "exit"}]
      /\ Control(p)'
      /\ \A q \in Procs : q # p => pc'[q] = pc[q] /\ held'[q] = held[q] /\ after'[q] = after[q]
  BY <1>1, CloseAllControl
<1>3. TablesOK'
  BY <1>1, <1>2 DEF TablesOK
<1>4. \A q \in Procs : Control(q)'
  BY <1>1, <1>2, ControlKept
<1> QED BY <1>3, <1>4, RingQuiet

LEMMA OpenRing ==
  ASSUME RingInv, NEW p \in Procs, Open(p)
  PROVE  RingInv'
<1> DEFINE g == Lowest(FreeFiles)
<1>1. TablesOK /\ (\A q \in Procs : Control(q)) /\ killed \in [Procs -> BOOLEAN]
  BY Split DEF TablesOK
<1>2. file' \in [FileNos -> FileType] /\ g \in FileNos
  BY <1>1, FileallocType DEF Open
<1>3. UNCHANGED <<pipe, call, killed, flow, short>> /\ Calls(p)
      /\ call[p].op \notin {"read", "write", "close"}
  BY <1>1, CallsControl DEF Open
<1>4. CASE FreeFds(p) # {}
  <2>1. FreeFds(p) \in SUBSET Fds
    BY DEF FreeFds
  <2>2. Lowest(FreeFds(p)) \in Fds
    BY <1>4, <2>1, FirstFd
  <2>3. ofile' = [ofile EXCEPT ![p][Lowest(FreeFds(p))] = g] /\ CloseAll(p, << >>, "user")
    BY <1>4 DEF Open
  <2>4. ofile' \in [Procs -> [Fds -> FileNos \cup {0}]]
    BY <1>1, <1>2, <2>2, <2>3 DEF TablesOK
  <2>5. << >> \in Seq(FileNos) /\ Len(<< >>) <= 2
    OBVIOUS
  <2> QED BY <1>1, <1>2, <1>3, <2>3, <2>4, <2>5, ClosingRing
<1>5. CASE FreeFds(p) = {}
  <2>1. ofile' = ofile /\ CloseAll(p, <<g>>, "user")
    BY <1>5 DEF Open
  <2>2. <<g>> \in Seq(FileNos) /\ Len(<<g>>) <= 2
    BY <1>2
  <2>3. ofile' \in [Procs -> [Fds -> FileNos \cup {0}]]
    BY <1>1, <2>1 DEF TablesOK
  <2> QED BY <1>1, <1>2, <1>3, <2>1, <2>2, <2>3, ClosingRing
<1> QED BY <1>4, <1>5

LEMMA CloseRing ==
  ASSUME RingInv, NEW p \in Procs, NEW fd \in Fds, Close(p, fd)
  PROVE  RingInv'
<1>1. TablesOK /\ (\A q \in Procs : Control(q))
  BY Split
<1>2. /\ ofile[p][fd] \in FileNos /\ Calls(p) /\ CloseAll(p, <<ofile[p][fd]>>, "user")
      /\ UNCHANGED <<file, pipe, call, killed, flow, short>>
  BY <1>1 DEF Close, TablesOK
<1>3. call[p].op \notin {"read", "write", "close"}
  BY <1>1, <1>2, CallsControl
<1>4. ofile' \in [Procs -> [Fds -> FileNos \cup {0}]]
  BY <1>1 DEF TablesOK, Close
<1>5. <<ofile[p][fd]>> \in Seq(FileNos) /\ Len(<<ofile[p][fd]>>) <= 2
  BY <1>2
<1>6. file' \in [FileNos -> FileType] /\ killed' \in [Procs -> BOOLEAN]
  BY <1>1, <1>2 DEF TablesOK
<1> QED BY <1>2, <1>3, <1>4, <1>5, <1>6, ClosingRing

LEMMA ExitRing ==
  ASSUME RingInv, NEW p \in Procs, Exit(p)
  PROVE  RingInv'
<1>1. TablesOK /\ (\A q \in Procs : Control(q))
  BY Split
<1>2. /\ pc[p] \in {"user", "exit"} /\ UNCHANGED <<file, pipe, call, flow, short>>
      /\ killed' = [killed EXCEPT ![p] = FALSE]
  BY DEF Exit
<1>3. call[p].op \notin {"read", "write", "close"}
  BY <1>1, <1>2 DEF Control
<1>4. file' \in [FileNos -> FileType] /\ killed' \in [Procs -> BOOLEAN]
  BY <1>1, <1>2 DEF TablesOK
<1>5. CASE FreeFds(p) = Fds
  <2>1. ofile' = ofile /\ CloseAll(p, << >>, "unused")
    BY <1>5 DEF Exit
  <2>2. << >> \in Seq(FileNos) /\ Len(<< >>) <= 2
    OBVIOUS
  <2>3. ofile' \in [Procs -> [Fds -> FileNos \cup {0}]]
    BY <1>1, <2>1 DEF TablesOK
  <2> QED BY <1>2, <1>3, <1>4, <2>1, <2>2, <2>3, ClosingRing
<1>6. CASE FreeFds(p) # Fds
  <2> DEFINE fd == Lowest(Fds \ FreeFds(p))
  <2>1. fd \in Fds /\ fd \notin FreeFds(p)
    <3>1. Fds \ FreeFds(p) \in SUBSET Fds /\ Fds \ FreeFds(p) # {}
      BY <1>6 DEF FreeFds
    <3> QED BY <3>1, FirstFd
  <2>2. ofile[p][fd] \in FileNos
    BY <1>1, <2>1 DEF FreeFds, TablesOK
  <2>3. ofile' = [ofile EXCEPT ![p][fd] = 0] /\ CloseAll(p, <<ofile[p][fd]>>, "exit")
    BY <1>6 DEF Exit
  <2> HIDE DEF fd
  <2>4. ofile' \in [Procs -> [Fds -> FileNos \cup {0}]]
    BY <1>1, <2>1, <2>3 DEF TablesOK
  <2>5. <<ofile[p][fd]>> \in Seq(FileNos) /\ Len(<<ofile[p][fd]>>) <= 2
    BY <2>2
  <2> QED BY <1>2, <1>3, <1>4, <2>3, <2>4, <2>5, ClosingRing
<1> QED BY <1>5, <1>6

LEMMA ForkRing ==
  ASSUME RingInv, NEW p \in Procs, NEW q \in Procs, Fork(p, q)
  PROVE  RingInv'
<1>1. TablesOK /\ (\A r \in Procs : Control(r))
  BY Split
<1>2. file' \in [FileNos -> FileType]
  BY <1>1, DuppedType DEF Fork
<1>3. ofile' \in [Procs -> [Fds -> FileNos \cup {0}]] /\ pc' \in [Procs -> Pcs]
  BY <1>1 DEF TablesOK, Fork, Goto, Pcs
<1>4. TablesOK'
  BY <1>1, <1>2, <1>3 DEF TablesOK, Fork
<1>5. ASSUME NEW r \in Procs
      PROVE  Control(r)'
  <2>1. Control(r) /\ pc' = [pc EXCEPT ![q] = "user"] /\ pc[q] = "unused"
        /\ held' = held /\ after' = after /\ call' = call
    BY <1>1 DEF Fork, Goto
  <2>2. pc'[r] = IF r = q THEN "user" ELSE pc[r]
    BY <1>1, <2>1 DEF TablesOK
  <2> QED BY <2>1, <2>2 DEF Control
<1> QED BY <1>4, <1>5, RingQuiet DEF Fork

LEMMA PipeFile0Ring ==
  ASSUME RingInv, NEW p \in Procs, PipeFile0(p)
  PROVE  RingInv'
<1> DEFINE g == Lowest(FreeFiles)
<1>1. TablesOK /\ (\A q \in Procs : Control(q))
  BY Split
<1>2. file' \in [FileNos -> FileType] /\ g \in FileNos
  BY <1>1, FileallocType DEF PipeFile0
<1>3. /\ held' = [held EXCEPT ![p] = <<g>>] /\ pc' = [pc EXCEPT ![p] = "file"]
      /\ UNCHANGED <<ofile, pipe, call, after, killed, flow, short>> /\ Calls(p)
  BY DEF PipeFile0, Goto
<1> HIDE DEF g
<1>4. TablesOK'
  BY <1>1, <1>2, <1>3 DEF TablesOK, Pcs
<1>5. Control(p)'
  <2>1. held'[p] = <<g>> /\ pc'[p] = "file" /\ call' = call /\ after' = after
    BY <1>1, <1>3 DEF TablesOK
  <2>2. call[p].op \notin {"read", "write", "close"} /\ after[p] # "exit"
    BY <1>1, <1>3, CallsControl
  <2>3. Len(<<g>>) = 1
    OBVIOUS
  <2> QED BY <2>1, <2>2, <2>3 DEF Control
<1>6. \A q \in Procs : q # p => Control(q)'
  BY <1>1, <1>3, ControlKept DEF TablesOK
<1> QED BY <1>3, <1>4, <1>5, <1>6, RingQuiet

LEMMA PipeFile1Ring ==
  ASSUME RingInv, NEW p \in Procs, PipeFile1(p)
  PROVE  RingInv'
<1> DEFINE g == Lowest(FreeFiles)
<1>1. TablesOK /\ (\A q \in Procs : Control(q)) /\ held[p] \in Seq(FileNos)
  BY Split DEF TablesOK
<1>2. UNCHANGED <<ofile, pipe, call, killed, flow, short>> /\ pc[p] = "file"
  BY DEF PipeFile1
<1>3. call[p].op \notin {"read", "write", "close"} /\ Len(held[p]) = 1 /\ after[p] # "exit"
  BY <1>1, <1>2 DEF Control
<1>4. CASE FreeFiles # {}
  <2>1. file' \in [FileNos -> FileType] /\ g \in FileNos
    BY <1>1, <1>4, FileallocType DEF PipeFile1
  <2>2. /\ held' = [held EXCEPT ![p] = Append(held[p], g)] /\ pc' = [pc EXCEPT ![p] = "page"]
        /\ after' = after
    BY <1>4 DEF PipeFile1, Goto
  <2> HIDE DEF g
  <2>3. Append(held[p], g) \in Seq(FileNos) /\ Len(Append(held[p], g)) = 2
    <3>1. Append(held[p], g) \in Seq(FileNos) /\ Len(Append(held[p], g)) = Len(held[p]) + 1
      BY <1>1, <2>1
    <3> QED BY <1>3, <3>1
  <2>4. TablesOK'
    BY <1>1, <1>2, <2>1, <2>2, <2>3 DEF TablesOK, Pcs
  <2>5. Control(p)'
    <3>1. held'[p] = Append(held[p], g) /\ pc'[p] = "page" /\ call' = call /\ after' = after
      BY <1>1, <1>2, <2>2 DEF TablesOK
    <3> QED BY <1>3, <2>3, <3>1 DEF Control
  <2>6. \A q \in Procs : q # p => Control(q)'
    BY <1>1, <1>2, <2>2, ControlKept DEF TablesOK
  <2> QED BY <1>2, <2>4, <2>5, <2>6, RingQuiet
<1>5. CASE FreeFiles = {}
  <2>1. file' = file /\ CloseAll(p, held[p], "user")
    BY <1>5 DEF PipeFile1
  <2>2. /\ file' \in [FileNos -> FileType] /\ ofile' \in [Procs -> [Fds -> FileNos \cup {0}]]
        /\ killed' \in [Procs -> BOOLEAN]
    BY <1>1, <1>2, <2>1 DEF TablesOK
  <2>3. Len(held[p]) <= 2
    BY <1>3
  <2> QED BY <1>1, <1>2, <1>3, <2>1, <2>2, <2>3, ClosingRing
<1> QED BY <1>4, <1>5

LEMMA NoPageRing ==
  ASSUME RingInv, NEW p \in Procs, NoPage(p)
  PROVE  RingInv'
<1>1. TablesOK /\ (\A q \in Procs : Control(q)) /\ held[p] \in Seq(FileNos)
  BY Split DEF TablesOK
<1>2. /\ UNCHANGED <<file, ofile, pipe, call, killed, flow, short>> /\ pc[p] = "page"
      /\ CloseAll(p, held[p], "user")
  BY DEF NoPage
<1>3. call[p].op \notin {"read", "write", "close"} /\ Len(held[p]) = 2
  BY <1>1, <1>2 DEF Control
<1>4. /\ file' \in [FileNos -> FileType] /\ ofile' \in [Procs -> [Fds -> FileNos \cup {0}]]
      /\ killed' \in [Procs -> BOOLEAN]
  BY <1>1, <1>2 DEF TablesOK
<1>5. Len(held[p]) <= 2
  BY <1>3
<1> QED BY <1>1, <1>2, <1>3, <1>4, <1>5, ClosingRing

LEMMA HasEndPipe ==
  ASSUME TablesOK, NEW p \in Procs, NEW fd \in Fds, NEW w \in BOOLEAN, HasEnd(p, fd, w)
  PROVE  ofile[p][fd] \in FileNos /\ file[ofile[p][fd]].pipe \in Pipes
BY DEF HasEnd, TablesOK, FileType

LEMMA ReadRing ==
  ASSUME RingInv, NEW p \in Procs, NEW fd \in Fds, NEW n \in Reads, Read(p, fd, n)
  PROVE  RingInv'
<1> DEFINE c == [op |-> "read", pipe |-> file[ofile[p][fd]].pipe, n |-> n]
<1>1. TablesOK /\ (\A q \in Procs : Control(q))
  BY Split
<1>2. /\ call' = [call EXCEPT ![p] = c] /\ pc' = [pc EXCEPT ![p] = "read"] /\ Calls(p)
      /\ UNCHANGED <<file, ofile, held, after, pipe, killed, flow, short>> /\ HasEnd(p, fd, FALSE)
  BY DEF Read, Goto, tables
<1>3. c \in Requests /\ c.op = "read"
  BY <1>1, <1>2, HasEndPipe DEF Requests
<1> HIDE DEF c
<1>4. TablesOK'
  BY <1>1, <1>2, <1>3 DEF TablesOK, Pcs
<1>5. Control(p)'
  <2>1. call'[p] = c /\ pc'[p] = "read" /\ held' = held /\ after' = after
    BY <1>1, <1>2 DEF TablesOK
  <2> QED BY <1>1, <1>2, <1>3, <2>1, CallsControl DEF Control
<1>6. \A q \in Procs : q # p => Control(q)'
  BY <1>1, <1>2, ControlKept DEF TablesOK
<1> QED BY <1>2, <1>4, <1>5, <1>6, RingQuiet

LEMMA WriteRing ==
  ASSUME RingInv, NEW p \in Procs, NEW fd \in Fds, NEW s \in Writes, Write(p, fd, s)
  PROVE  RingInv'
<1> DEFINE c == [op |-> "write", pipe |-> file[ofile[p][fd]].pipe, bytes |-> s]
<1>1. TablesOK /\ (\A q \in Procs : Control(q))
  BY Split
<1>2. /\ call' = [call EXCEPT ![p] = c] /\ pc' = [pc EXCEPT ![p] = "write"] /\ Calls(p)
      /\ UNCHANGED <<file, ofile, held, after, pipe, killed, flow, short>> /\ HasEnd(p, fd, TRUE)
  BY DEF Write, Goto, tables
<1>3. c \in Requests /\ c.op = "write"
  BY <1>1, <1>2, HasEndPipe, Sizes DEF Requests
<1> HIDE DEF c
<1>4. TablesOK'
  BY <1>1, <1>2, <1>3 DEF TablesOK, Pcs
<1>5. Control(p)'
  <2>1. call'[p] = c /\ pc'[p] = "write" /\ held' = held /\ after' = after
    BY <1>1, <1>2 DEF TablesOK
  <2> QED BY <1>1, <1>2, <1>3, <2>1, CallsControl DEF Control
<1>6. \A q \in Procs : q # p => Control(q)'
  BY <1>1, <1>2, ControlKept DEF TablesOK
<1> QED BY <1>2, <1>4, <1>5, <1>6, RingQuiet

LEMMA KillRing ==
  ASSUME RingInv, NEW p \in Procs, Kill(p)
  PROVE  RingInv'
<1>1. TablesOK /\ (\A q \in Procs : Control(q))
  BY Split
<1>2. /\ killed' = [killed EXCEPT ![p] = TRUE]
      /\ UNCHANGED <<file, ofile, held, after, pipe, call, flow, short>>
      /\ pc' = [pc EXCEPT ![p] = IF pc[p] \in {"readsleep", "writesleep"} THEN call[p].op ELSE pc[p]]
  BY DEF Kill, tables
<1>3. pc[p] \in {"readsleep", "writesleep"} => call[p].op \in Pcs
  BY <1>1 DEF Control, Pcs
<1>4. TablesOK'
  BY <1>1, <1>2, <1>3 DEF TablesOK
<1>5. \A q \in Procs : Control(q)'
  BY <1>1, <1>2, ControlKept DEF TablesOK
<1> QED BY <1>2, <1>4, <1>5, RingQuiet

LEMMA ReadWaitsRing ==
  ASSUME RingInv, NEW p \in Procs, ReadWaits(p)
  PROVE  RingInv'
<1>1. TablesOK /\ (\A q \in Procs : Control(q))
  BY Split
<1>2. UNCHANGED <<file, ofile, held, after, pipe, flow, short>> /\ pc[p] = "read"
  BY DEF ReadWaits, tables
<1>3. CASE killed[p]
  <2>1. pc' = [pc EXCEPT ![p] = "user"] /\ call' = [call EXCEPT ![p] = NoCall] /\ killed' = killed
    BY <1>3 DEF ReadWaits, Return, Goto
  <2>2. NoCall \in Requests /\ NoCall.op = "none"
    BY DEF NoCall, Requests
  <2>3. TablesOK'
    BY <1>1, <1>2, <2>1, <2>2 DEF TablesOK, Pcs
  <2>4. Control(p)'
    <3>1. call'[p] = NoCall /\ pc'[p] = "user" /\ held' = held /\ after' = after
      BY <1>1, <1>2, <2>1 DEF TablesOK
    <3> QED BY <1>1, <1>2, <2>2, <3>1 DEF Control
  <2>5. \A q \in Procs : q # p => Control(q)'
    BY <1>1, <1>2, <2>1, ControlKept DEF TablesOK
  <2> QED BY <1>2, <2>3, <2>4, <2>5, RingQuiet
<1>4. CASE ~ killed[p]
  <2>1. pc' = [pc EXCEPT ![p] = "readsleep"] /\ call' = call
        /\ (killed' = killed \/ killed' = [killed EXCEPT ![p] = TRUE])
    BY <1>4 DEF ReadWaits, Sleep, Goto
  <2>2. killed' \in [Procs -> BOOLEAN]
    BY <1>1, <2>1 DEF TablesOK
  <2>3. TablesOK'
    BY <1>1, <1>2, <2>1, <2>2 DEF TablesOK, Pcs
  <2>4. Control(p)'
    <3>1. call'[p] = call[p] /\ pc'[p] = "readsleep" /\ held' = held /\ after' = after
      BY <1>1, <1>2, <2>1 DEF TablesOK
    <3> QED BY <1>1, <1>2, <3>1 DEF Control
  <2>5. \A q \in Procs : q # p => Control(q)'
    BY <1>1, <1>2, <2>1, ControlKept DEF TablesOK
  <2> QED BY <1>2, <2>3, <2>4, <2>5, RingQuiet
<1> QED BY <1>3, <1>4

LEMMA ShortSeq ==
  ASSUME NEW S, NEW s \in Seq(S), Len(s) \in {1, 2}
  PROVE  /\ s[1] \in S /\ Head(s) = s[1]
         /\ Tail(s) \in Seq(S) /\ Len(Tail(s)) = Len(s) - 1
         /\ Len(s) = 2 => s[2] \in S /\ Tail(s) = <<s[2]>>
         /\ Len(s) = 1 => Tail(s) = << >>
<1>1. s # << >>
  BY EmptySeq
<1>2. /\ s[1] \in S /\ Head(s) = s[1] /\ Tail(s) \in Seq(S) /\ Len(Tail(s)) = Len(s) - 1
      /\ \A i \in 1..Len(Tail(s)) : Tail(s)[i] = s[i + 1]
  BY <1>1, HeadTailProperties
<1>3. CASE Len(s) = 1
  <2>1. Len(Tail(s)) = 0
    BY <1>2, <1>3
  <2>2. Tail(s) = << >>
    BY <1>2, <2>1, EmptySeq
  <2> QED BY <1>2, <1>3, <2>2
<1>4. CASE Len(s) = 2
  <2>0. Len(Tail(s)) = 1
    BY <1>2, <1>4
  <2>1. Len(Tail(s)) = 1 /\ s[2] \in S
    BY <1>4, <2>0, ElementOfSeq
  <2> DEFINE t == Tail(s)
  <2>2. t \in Seq(S) /\ Len(t) = 1 /\ t[1] = s[2]
    BY <1>2, <2>1
  <2> HIDE DEF t
  <2>3. t = <<s[2]>>
    BY <2>1, <2>2, SeqEqual
  <2> QED BY <1>2, <1>4, <2>1, <2>3 DEF t
<1> QED BY <1>3, <1>4

LEMMA HeldHead ==
  ASSUME TablesOK, NEW p \in Procs, Len(held[p]) \in {1, 2}
  PROVE  /\ held[p][1] \in FileNos /\ Head(held[p]) = held[p][1]
         /\ Tail(held[p]) \in Seq(FileNos) /\ Len(Tail(held[p])) = Len(held[p]) - 1
         /\ Len(held[p]) = 2 => held[p][2] \in FileNos /\ Tail(held[p]) = <<held[p][2]>>
         /\ Len(held[p]) = 1 => Tail(held[p]) = << >>
<1>1. held[p] \in Seq(FileNos)
  BY DEF TablesOK
<1> QED BY <1>1, ShortSeq

LEMMA FilecloseRing ==
  ASSUME RingInv, NEW p \in Procs, Fileclose(p), file[Head(held[p])].ref # 0
  PROVE  RingInv'
<1> DEFINE f == Head(held[p])
<1>1. TablesOK /\ (\A q \in Procs : Control(q))
  BY Split
<1>2. pc[p] = "close" /\ UNCHANGED <<ofile, pipe, killed, flow, short>>
  BY DEF Fileclose
<1>3. Len(held[p]) \in {1, 2} /\ call[p].op \notin {"read", "write", "close"}
  BY <1>1, <1>2 DEF Control
<1>4. f \in FileNos /\ Tail(held[p]) \in Seq(FileNos) /\ Len(Tail(held[p])) = Len(held[p]) - 1
  BY <1>1, <1>3, HeldHead
<1>5. file[f].ref \in Nat /\ file[f].ref # 0 /\ file[f] \in FileType
  BY <1>1, <1>4 DEF TablesOK, FileType
<1>6. NoFile \in FileType
  BY DEF NoFile, FileType
<1>7. Len(Tail(held[p])) \in {0, 1} /\ Len(Tail(held[p])) <= 2
  <2> DEFINE n == Len(Tail(held[p]))
  <2>1. n = 0 \/ n = 1
    BY <1>3, <1>4
  <2> HIDE DEF n
  <2>2. n \in {0, 1} /\ n <= 2
    BY <2>1
  <2> QED BY <2>2 DEF n
<1>8. after[p] \in {"user", "exit"}
  BY <1>1 DEF TablesOK
<1>9. CASE file[f].ref = 1 /\ file[f].pipe # 0
  <2> DEFINE c == [op |-> "close", pipe |-> file[f].pipe, writable |-> file[f].writable]
  <2>1. /\ file' = [file EXCEPT ![f] = NoFile] /\ held' = [held EXCEPT ![p] = Tail(held[p])]
        /\ call' = [call EXCEPT ![p] = c] /\ pc' = [pc EXCEPT ![p] = "pipeclose"] /\ after' = after
    BY <1>9 DEF Fileclose, Goto
  <2>2. c \in Requests /\ c.op = "close"
    BY <1>5, <1>9 DEF Requests, FileType
  <2> HIDE DEF c, f
  <2>3. TablesOK'
    BY <1>1, <1>2, <1>4, <1>6, <2>1, <2>2 DEF TablesOK, Pcs
  <2>4. Control(p)'
    <3>1. call'[p] = c /\ pc'[p] = "pipeclose" /\ held'[p] = Tail(held[p]) /\ after' = after
      BY <1>1, <1>2, <2>1 DEF TablesOK
    <3> QED BY <1>7, <2>2, <3>1 DEF Control
  <2>5. \A q \in Procs : q # p => Control(q)'
    BY <1>1, <1>2, <2>1, ControlKept DEF TablesOK
  <2> QED BY <1>2, <2>3, <2>4, <2>5, RingQuiet
<1>10. CASE ~ (file[f].ref = 1 /\ file[f].pipe # 0)
  <2> DEFINE e == IF file[f].ref = 1 THEN NoFile ELSE [file[f] EXCEPT !.ref = file[f].ref - 1]
  <2>1. CloseAll(p, Tail(held[p]), after[p]) /\ call' = call
    BY <1>10 DEF Fileclose
  <2>0. file' = [file EXCEPT ![f] = e]
    BY <1>10 DEF Fileclose
  <2>2. e \in FileType
    <3>1. file[f].ref - 1 \in Nat
      BY <1>5
    <3>2. [file[f] EXCEPT !.ref = file[f].ref - 1] \in FileType
      BY <1>5, <3>1 DEF FileType
    <3> QED BY <1>6, <3>2
  <2> HIDE DEF e, f
  <2>3. file' \in [FileNos -> FileType] /\ ofile' \in [Procs -> [Fds -> FileNos \cup {0}]]
        /\ killed' \in [Procs -> BOOLEAN]
    BY <1>1, <1>2, <1>4, <2>0, <2>2 DEF TablesOK
  <2> QED BY <1>2, <1>3, <1>4, <1>7, <1>8, <2>1, <2>3, ClosingRing
<1> QED BY <1>9, <1>10

\* A step that changes one pipe, and what is in it.
LEMMA RingBusy ==
  ASSUME RingInv, NEW k \in Pipes, NEW q \in PipeType, NEW s \in Seq(Bytes),
         pipe' = [pipe EXCEPT ![k] = q], flow' = [flow EXCEPT ![k] = s],
         s = InRing(q), Count(q) <= PIPESIZE, ~ q.used => q.nread = q.nwrite,
         short' \in [Pipes -> BOOLEAN], TablesOK', \A r \in Procs : Control(r)'
  PROVE  RingInv'
<1>1. PipesOK /\ (\A j \in Pipes : Ring(j))
  BY Split
<1>2. PipesOK'
  BY <1>1 DEF PipesOK
<1>3. ASSUME NEW j \in Pipes
      PROVE  Ring(j)'
  <2>1. CASE j = k
    <3>1. pipe'[j] = q /\ flow'[j] = s
      BY <1>1, <2>1 DEF PipesOK
    <3>2. Count(pipe[j])' = Count(q) /\ InOrder(j)'
      BY <3>1 DEF InOrder, InRing, Count
    <3> QED BY <3>1, <3>2 DEF Ring
  <2>2. CASE j # k
    <3>1. pipe'[j] = pipe[j] /\ flow'[j] = flow[j]
      BY <1>1, <2>2 DEF PipesOK
    <3> QED BY <1>1, <3>1 DEF Ring, InOrder, Count
  <2> QED BY <2>1, <2>2
<1>4. TypeOK' <=> TablesOK' /\ PipesOK'
  BY DEF TypeOK, TablesOK, PipesOK, FileType, PipeType
<1> QED BY <1>2, <1>3, <1>4 DEF RingInv

LEMMA NewRing ==
  /\ NewPipe \in PipeType /\ NoPipe \in PipeType
  /\ Count(NewPipe) = 0 /\ Count(NoPipe) = 0
  /\ InRing(NewPipe) = << >> /\ InRing(NoPipe) = << >>
  /\ NoPipe.nread = NoPipe.nwrite /\ NewPipe.used
<1>1. NoPipe \in PipeType
  BY Sizes DEF NoPipe, PipeType
<1>2. NewPipe \in PipeType /\ NewPipe.nread = 0 /\ NewPipe.nwrite = 0 /\ NewPipe.used
      /\ NoPipe.nread = 0 /\ NoPipe.nwrite = 0
  BY <1>1 DEF NewPipe, NoPipe, PipeType
<1>3. (0 - 0) % Wrap = 0
  BY Sizes, Remainder
<1>4. Count(NewPipe) = 0 /\ Count(NoPipe) = 0
  BY <1>2, <1>3 DEF Count
<1>5. Len(InRing(NewPipe)) = 0 /\ InRing(NewPipe) \in Seq(Bytes)
      /\ Len(InRing(NoPipe)) = 0 /\ InRing(NoPipe) \in Seq(Bytes)
  BY <1>1, <1>2, <1>4, RingIs
<1> QED BY <1>1, <1>2, <1>4, <1>5

\* The two files of a new pipe.
LEMMA EndFiles ==
  ASSUME TablesOK, NEW h1 \in FileNos, NEW h2 \in FileNos, NEW k \in Pipes,
         file' = [file EXCEPT ![h1].pipe = k, ![h2].pipe = k, ![h2].writable = TRUE]
  PROVE  /\ file' \in [FileNos -> FileType]
         /\ file'[h2] = [file[h2] EXCEPT !.pipe = k, !.writable = TRUE]
         /\ h1 # h2 => file'[h1] = [file[h1] EXCEPT !.pipe = k]
         /\ \A f \in FileNos : f # h1 /\ f # h2 => file'[f] = file[f]
<1> DEFINE f1 == [file EXCEPT ![h1] = [file[h1] EXCEPT !.pipe = k]]
<1> DEFINE f2 == [f1 EXCEPT ![h2] = [f1[h2] EXCEPT !.pipe = k]]
<1> DEFINE f3 == [f2 EXCEPT ![h2] = [f2[h2] EXCEPT !.writable = TRUE]]
<1>1. file' = f3
  OBVIOUS
<1>2. [file[h1] EXCEPT !.pipe = k] \in FileType /\ file \in [FileNos -> FileType]
  BY DEF TablesOK, FileType
<1>3. f1 \in [FileNos -> FileType] /\ f1[h1] = [file[h1] EXCEPT !.pipe = k]
      /\ \A f \in FileNos : f # h1 => f1[f] = file[f]
  BY <1>2
<1> HIDE DEF f1
<1>4. [f1[h2] EXCEPT !.pipe = k] \in FileType
  BY <1>3 DEF FileType
<1>5. f2 \in [FileNos -> FileType] /\ f2[h2] = [f1[h2] EXCEPT !.pipe = k]
      /\ \A f \in FileNos : f # h2 => f2[f] = f1[f]
  BY <1>3, <1>4
<1> HIDE DEF f2
<1>6. [f2[h2] EXCEPT !.writable = TRUE] \in FileType
  BY <1>5 DEF FileType
<1>7. f3 \in [FileNos -> FileType] /\ f3[h2] = [f2[h2] EXCEPT !.writable = TRUE]
      /\ \A f \in FileNos : f # h2 => f3[f] = f2[f]
  BY <1>5, <1>6
<1> HIDE DEF f3
<1>8. f3[h2] = [file[h2] EXCEPT !.pipe = k, !.writable = TRUE]
  <2>1. CASE h1 = h2
    BY <1>2, <1>3, <1>5, <1>7, <2>1 DEF FileType
  <2>2. CASE h1 # h2
    BY <1>2, <1>3, <1>5, <1>7, <2>2 DEF FileType
  <2> QED BY <2>1, <2>2
<1> QED BY <1>1, <1>3, <1>5, <1>7, <1>8

LEMMA PipePageRing ==
  ASSUME RingInv, NEW p \in Procs, PipePage(p)
  PROVE  RingInv'
<1> DEFINE h1 == held[p][1]
<1> DEFINE h2 == held[p][2]
<1>1. /\ TablesOK /\ PipesOK /\ (\A q \in Procs : Control(q)) /\ (\A j \in Pipes : Ring(j))
      /\ held[p] \in Seq(FileNos)
  BY Split DEF TablesOK
<1>2. pc[p] = "page" /\ UNCHANGED <<call, killed, flow, short>>
  BY DEF PipePage
<1>3. call[p].op \notin {"read", "write", "close"} /\ Len(held[p]) = 2
  BY <1>1, <1>2 DEF Control
<1>4. Len(held[p]) \in {1, 2} /\ Len(held[p]) <= 2
  <2> DEFINE n == Len(held[p])
  <2>1. n = 2
    BY <1>3
  <2> HIDE DEF n
  <2>2. n \in {1, 2} /\ n <= 2
    BY <2>1
  <2> QED BY <2>2 DEF n
<1>5. h1 \in FileNos /\ h2 \in FileNos
  BY <1>1, <1>3, <1>4, HeldHead
<1>6. PICK k \in Pipes :
        /\ ~ pipe[k].used
        /\ pipe' = [pipe EXCEPT ![k] = NewPipe]
        /\ file' = [file EXCEPT ![h1].pipe = k, ![h2].pipe = k, ![h2].writable = TRUE]
  BY DEF PipePage
<1>7. file' \in [FileNos -> FileType]
  BY <1>1, <1>5, <1>6, EndFiles
<1>8. FreeFds(p) \in SUBSET Fds
  BY DEF FreeFds
<1>9. ASSUME /\ ofile' \in [Procs -> [Fds -> FileNos \cup {0}]]
             /\ \E s \in Seq(FileNos) : Len(s) <= 2 /\ CloseAll(p, s, "user")
      PROVE  RingInv'
  <2>1. PICK s \in Seq(FileNos) : Len(s) <= 2 /\ CloseAll(p, s, "user")
    BY <1>9
  <2>2. /\ pc' \in [Procs -> Pcs] /\ held' \in [Procs -> Seq(FileNos)]
        /\ after' \in [Procs -> {"user", "exit"}]
        /\ Control(p)'
        /\ \A q \in Procs : q # p => pc'[q] = pc[q] /\ held'[q] = held[q] /\ after'[q] = after[q]
    BY <1>1, <1>2, <1>3, <2>1, CloseAllControl
  <2>3. TablesOK'
    BY <1>1, <1>2, <1>7, <1>9, <2>2 DEF TablesOK
  <2>4. \A q \in Procs : Control(q)'
    BY <1>1, <1>2, <2>2, ControlKept
  <2>5. flow[k] = << >>
    <3>1. pipe[k].nread = pipe[k].nwrite /\ pipe[k] \in PipeType /\ Count(pipe[k]) <= PIPESIZE
          /\ flow[k] = InRing(pipe[k])
      BY <1>1, <1>6 DEF Ring, InOrder, InRing, PipesOK
    <3>2. Count(pipe[k]) = 0
      BY <3>1, FullIs DEF Empty
    <3> QED BY <3>1, <3>2, RingIs, EmptySeq
  <2>6. << >> \in Seq(Bytes) /\ flow' = [flow EXCEPT ![k] = << >>]
    BY <1>1, <1>2, <2>5 DEF PipesOK
  <2>7. short' \in [Pipes -> BOOLEAN]
    BY <1>1, <1>2 DEF PipesOK
  <2>8. Count(NewPipe) <= PIPESIZE
    BY NewRing, Sizes
  <2> QED BY <1>6, <2>3, <2>4, <2>6, <2>7, <2>8, NewRing, RingBusy
<1>10. CASE Cardinality(FreeFds(p)) >= 2
  <2> DEFINE fd0 == Lowest(FreeFds(p))
  <2> DEFINE fd1 == Lowest(FreeFds(p) \ {fd0})
  <2>1. FreeFds(p) # {} /\ FreeFds(p) \ {fd0} # {}
    <3>1. FreeFds(p) # {}
      BY <1>10, FS_EmptySet
    <3>2. FreeFds(p) # {fd0}
      <4>1. Cardinality({fd0}) = 1
        BY FS_Singleton
      <4> QED BY <1>10, <4>1
    <3> QED BY <3>1, <3>2
  <2>2. fd0 \in Fds /\ fd1 \in Fds
    BY <1>8, <2>1, FirstFd
  <2>3. ofile' = [ofile EXCEPT ![p][fd0] = h1, ![p][fd1] = h2] /\ CloseAll(p, << >>, "user")
    BY <1>10 DEF PipePage
  <2>4. ofile' \in [Procs -> [Fds -> FileNos \cup {0}]]
    BY <1>1, <1>5, <2>2, <2>3 DEF TablesOK
  <2>5. << >> \in Seq(FileNos) /\ Len(<< >>) <= 2
    OBVIOUS
  <2> QED BY <1>9, <2>3, <2>4, <2>5
<1>11. CASE ~ (Cardinality(FreeFds(p)) >= 2)
  <2>1. ofile' = ofile /\ CloseAll(p, held[p], "user")
    BY <1>11 DEF PipePage
  <2>2. ofile' \in [Procs -> [Fds -> FileNos \cup {0}]]
    BY <1>1, <2>1 DEF TablesOK
  <2> QED BY <1>1, <1>4, <1>9, <2>1, <2>2
<1> QED BY <1>10, <1>11

LEMMA WokenIs ==
  ASSUME TablesOK, \A q \in Procs : Control(q), NEW k, NEW l \in {"read", "write"}
  PROVE  /\ Woken(k, l) \in [Procs -> Pcs]
         /\ \A q \in Procs : \/ Woken(k, l)[q] = pc[q]
                             \/ pc[q] \in {"readsleep", "writesleep"} /\ Woken(k, l)[q] = call[q].op
BY DEF Woken, TablesOK, Pcs

LEMMA PipecloseRing ==
  ASSUME RingInv, NEW p \in Procs, Pipeclose(p)
  PROVE  RingInv'
<1> DEFINE k == call[p].pipe
<1> DEFINE w == call[p].writable
<1> DEFINE next == IF held[p] = << >> THEN after[p] ELSE "close"
<1> DEFINE q == Freed(IF w THEN [pipe[k] EXCEPT !.writeopen = FALSE]
                      ELSE [pipe[k] EXCEPT !.readopen = FALSE])
<1>1. TablesOK /\ PipesOK /\ (\A r \in Procs : Control(r)) /\ (\A j \in Pipes : Ring(j))
  BY Split
<1>2. /\ pc[p] = "pipeclose" /\ UNCHANGED <<file, ofile, held, killed>>
      /\ pipe' = [pipe EXCEPT ![k] = q]
      /\ flow' = [flow EXCEPT ![k] = IF pipe'[k].used THEN flow[k] ELSE << >>]
      /\ short' = [short EXCEPT ![k] = short[k] /\ ~ w]
      /\ pc' = [Told(k, w) EXCEPT ![p] = next]
      /\ after' = [after EXCEPT ![p] = IF next = "close" THEN after[p] ELSE "user"]
      /\ call' = [call EXCEPT ![p] = NoCall]
  BY DEF Pipeclose
<1>3. k \in Pipes /\ w \in BOOLEAN
  BY <1>1, <1>2 DEF Control, TablesOK, Requests, NoCall
<1>4. next \in {"user", "exit", "close"} /\ Len(held[p]) \in {0, 1}
  BY <1>1, <1>2 DEF Control, TablesOK
<1>5. Told(k, w) \in [Procs -> Pcs]
      /\ \A r \in Procs : \/ Told(k, w)[r] = pc[r]
                          \/ pc[r] \in {"readsleep", "writesleep"} /\ Told(k, w)[r] = call[r].op
  BY <1>1, <1>3, WokenIs DEF Told
<1>6. NoCall \in Requests /\ NoCall.op = "none"
  BY DEF NoCall, Requests
<1>7. pipe[k] \in PipeType /\ Count(pipe[k]) <= PIPESIZE /\ flow[k] = InRing(pipe[k])
      /\ flow[k] \in Seq(Bytes)
  BY <1>1, <1>3 DEF PipesOK, Ring, InOrder, InRing
<1>8. /\ q \in PipeType
      /\ q # NoPipe => /\ q.nread = pipe[k].nread /\ q.nwrite = pipe[k].nwrite
                       /\ q.data = pipe[k].data /\ q.used = pipe[k].used
                       /\ q.readopen \/ q.writeopen
  <2> DEFINE r == pipe[k]
  <2> DEFINE q1 == [r EXCEPT !.writeopen = FALSE]
  <2> DEFINE q2 == [r EXCEPT !.readopen = FALSE]
  <2>1. r \in PipeType
    BY <1>7
  <2> HIDE DEF r
  <2>2. q1 \in PipeType /\ q1.nread = r.nread /\ q1.nwrite = r.nwrite /\ q1.data = r.data
        /\ q1.used = r.used
    BY <2>1 DEF PipeType
  <2>3. q2 \in PipeType /\ q2.nread = r.nread /\ q2.nwrite = r.nwrite /\ q2.data = r.data
        /\ q2.used = r.used
    BY <2>1 DEF PipeType
  <2>4. q = Freed(IF w THEN q1 ELSE q2)
    BY DEF r
  <2> HIDE DEF q, q1, q2
  <2>5. \/ q = NoPipe
        \/ q = q1 /\ (q1.readopen \/ q1.writeopen)
        \/ q = q2 /\ (q2.readopen \/ q2.writeopen)
    BY <2>4 DEF Freed
  <2>6. q = NoPipe => q \in PipeType
    BY NewRing
  <2>7. q # NoPipe => q \in PipeType /\ q.nread = r.nread /\ q.nwrite = r.nwrite
                      /\ q.data = r.data /\ q.used = r.used
    BY <2>2, <2>3, <2>5
  <2>8. q # NoPipe => q.readopen \/ q.writeopen
    BY <2>5
  <2> QED BY <2>6, <2>7, <2>8 DEF r
<1> HIDE DEF q, next
<1>9. TablesOK'
  BY <1>1, <1>2, <1>4, <1>5, <1>6 DEF TablesOK, Pcs
<1>10. ASSUME NEW r \in Procs
       PROVE  Control(r)'
  <2>1. CASE r = p
    <3>1. pc'[p] = next /\ call'[p] = NoCall /\ held'[p] = held[p]
          /\ after'[p] = IF next = "close" THEN after[p] ELSE "user"
      BY <1>1, <1>2, <1>5 DEF TablesOK
    <3>2. next = "close" <=> held[p] # << >>
      BY <1>1 DEF next, TablesOK
    <3>3. held[p] # << >> => Len(held[p]) \in {1, 2}
      BY <1>1, <1>4, EmptySeq DEF TablesOK
    <3> QED BY <1>4, <1>6, <2>1, <3>1, <3>2, <3>3 DEF Control
  <2>2. CASE r # p
    <3>1. pc'[r] = Told(k, w)[r] /\ call'[r] = call[r] /\ held'[r] = held[r] /\ after'[r] = after[r]
      BY <1>1, <1>2, <1>5, <2>2 DEF TablesOK
    <3> QED BY <1>1, <1>5, <3>1, ControlKept
  <2> QED BY <2>1, <2>2
<1>11. short' \in [Pipes -> BOOLEAN]
  BY <1>1, <1>2, <1>3 DEF PipesOK
<1>12. pipe'[k] = q
  BY <1>1, <1>2, <1>3 DEF PipesOK
<1> DEFINE s == IF q.used THEN flow[k] ELSE << >>
<1>13. flow' = [flow EXCEPT ![k] = s]
  BY <1>2, <1>12
<1>14. Count(q) <= PIPESIZE /\ s = InRing(q) /\ s \in Seq(Bytes) /\ (~ q.used => q.nread = q.nwrite)
  <2>1. CASE q = NoPipe
    <3>1. ~ q.used
      BY <2>1 DEF NoPipe
    <3> QED BY <2>1, <3>1, NewRing, Sizes
  <2>2. CASE q # NoPipe
    <3>1. Count(q) = Count(pipe[k]) /\ InRing(q) = InRing(pipe[k])
      BY <1>8, <2>2 DEF Count, InRing
    <3>2. ~ pipe[k].used => pipe[k].nread = pipe[k].nwrite
      BY <1>1, <1>3 DEF Ring
    <3>3. ~ pipe[k].used => Count(pipe[k]) = 0
      BY <1>7, <3>2, FullIs DEF Empty
    <3>4. ~ pipe[k].used => InRing(pipe[k]) = << >>
      BY <1>7, <3>3, RingIs, EmptySeq
    <3> QED BY <1>7, <1>8, <2>2, <3>1, <3>2, <3>4
  <2> QED BY <2>1, <2>2
<1> HIDE DEF s, k, w
<1> QED BY <1>2, <1>3, <1>8, <1>9, <1>10, <1>11, <1>13, <1>14, RingBusy

\* What p is about to do with the ring of its pipe.
LEMMA AtRing ==
  ASSUME RingInv, NEW p \in Procs, pc[p] \in {"read", "write"}
  PROVE  /\ call[p].op = pc[p] /\ call[p] \in Requests /\ call[p].pipe \in Pipes
         /\ pipe[call[p].pipe] \in PipeType /\ Count(pipe[call[p].pipe]) <= PIPESIZE
         /\ flow[call[p].pipe] = InRing(pipe[call[p].pipe])
         /\ ~ pipe[call[p].pipe].used => Count(pipe[call[p].pipe]) = 0
         /\ pc[p] = "read" => call[p].n \in Nat
         /\ pc[p] = "write" => call[p].bytes \in Seq(Bytes)
         /\ held[p] = << >> /\ after[p] # "exit"
<1>1. /\ TablesOK /\ PipesOK /\ Control(p) /\ (\A j \in Pipes : Ring(j))
  BY Split
<1>2. call[p].op = pc[p] /\ call[p] \in Requests /\ held[p] = << >> /\ after[p] # "exit"
  BY <1>1 DEF Control, TablesOK
<1>3. call[p].pipe \in Pipes
  BY <1>2 DEF Requests, NoCall
<1>4. pc[p] = "read" => call[p].n \in Nat
  <2>1. Reads \subseteq Nat
    BY FilesAssumption
  <2>2. pc[p] = "read" => call[p].n \in Reads
    BY <1>2 DEF Requests, NoCall
  <2> QED BY <2>1, <2>2
<1>5. pc[p] = "write" => call[p].bytes \in Seq(Bytes)
  BY <1>2 DEF Requests, NoCall
<1> DEFINE k == call[p].pipe
<1>6. pipe[k] \in PipeType /\ Count(pipe[k]) <= PIPESIZE /\ flow[k] = InRing(pipe[k])
      /\ (~ pipe[k].used => pipe[k].nread = pipe[k].nwrite)
  BY <1>1, <1>3 DEF PipesOK, Ring, InOrder, InRing
<1>7. ~ pipe[k].used => Count(pipe[k]) = 0
  BY <1>6, FullIs DEF Empty
<1> QED BY <1>2, <1>3, <1>4, <1>5, <1>6, <1>7

\* p returns, or goes to sleep or back to its loop, and the others wake or stay.
LEMMA BackControl ==
  ASSUME RingInv, NEW p \in Procs, pc[p] \in {"read", "write"},
         NEW k, NEW l \in {"read", "write"}, NEW to \in {"user", "writesleep"},
         pc' = [pc EXCEPT ![p] = to] \/ pc' = [Woken(k, l) EXCEPT ![p] = to],
         UNCHANGED <<file, ofile, held, after>>, killed' \in [Procs -> BOOLEAN],
         NEW c \in Requests, call' = [call EXCEPT ![p] = c],
         to = "user" => c = NoCall, to = "writesleep" => c.op = "write"
  PROVE  TablesOK' /\ \A r \in Procs : Control(r)'
<1>1. TablesOK /\ (\A r \in Procs : Control(r))
  BY Split
<1>2. pc' \in [Procs -> Pcs] /\ pc'[p] = to
  <2>1. pc \in [Procs -> Pcs] /\ to \in Pcs
    BY <1>1 DEF TablesOK, Pcs
  <2>2. Woken(k, l) \in [Procs -> Pcs]
    BY <1>1, WokenIs
  <2> QED BY <2>1, <2>2
<1>3. TablesOK'
  BY <1>1, <1>2 DEF TablesOK
<1>4. ASSUME NEW r \in Procs
      PROVE  Control(r)'
  <2>1. CASE r = p
    <3>1. call'[p] = c /\ pc'[p] = to /\ held'[p] = << >> /\ after'[p] # "exit"
      BY <1>1, <1>2, AtRing DEF TablesOK
    <3>2. NoCall.op = "none"
      BY DEF NoCall
    <3> QED BY <2>1, <3>1, <3>2 DEF Control
  <2>2. CASE r # p
    <3>1. \/ pc'[r] = pc[r]
          \/ pc[r] \in {"readsleep", "writesleep"} /\ pc'[r] = call[r].op
      BY <1>1, <2>2, WokenIs DEF TablesOK
    <3>2. call'[r] = call[r]
      BY <1>1, <2>2 DEF TablesOK
    <3> QED BY <1>1, <3>1, <3>2, ControlKept
  <2> QED BY <2>1, <2>2
<1> QED BY <1>3, <1>4

LEMMA PipereadRing ==
  ASSUME RingInv, NEW p \in Procs, Piperead(p)
  PROVE  RingInv'
<1> DEFINE k == call[p].pipe
<1> DEFINE q == pipe[k]
<1> DEFINE m == Least(call[p].n, Count(q))
<1>1. TablesOK /\ PipesOK
  BY Split
<1>2. /\ pc[p] = "read" /\ UNCHANGED <<file, ofile, held, after, killed, short>>
      /\ pipe' = [pipe EXCEPT ![k] = Taken(q, m)]
      /\ flow' = [flow EXCEPT ![k] = SubSeq(flow[k], m + 1, Len(flow[k]))]
      /\ pc' = [Woken(k, "write") EXCEPT ![p] = "user"]
      /\ call' = [call EXCEPT ![p] = NoCall]
  BY DEF Piperead, tables
<1>3. /\ k \in Pipes /\ q \in PipeType /\ Count(q) <= PIPESIZE /\ flow[k] = InRing(q)
      /\ ~ q.used => Count(q) = 0
      /\ call[p].n \in Nat
  BY <1>2, AtRing
<1>4. NoCall \in Requests
  BY DEF Requests
<1>5. killed' \in [Procs -> BOOLEAN] /\ short' \in [Pipes -> BOOLEAN]
  BY <1>1, <1>2 DEF TablesOK, PipesOK
<1>6. TablesOK' /\ \A r \in Procs : Control(r)'
  BY <1>2, <1>4, <1>5, BackControl
<1>7. m \in Nat /\ m <= Count(q)
  BY <1>3, Counters DEF Least
<1> HIDE DEF m, q
<1> DEFINE r == Taken(q, m)
<1>8. r \in PipeType /\ Count(r) = Count(q) - m /\ r.used = q.used
  BY <1>3, <1>7, TakenIs
<1>9. Count(r) <= PIPESIZE /\ (Count(q) = 0 => Count(r) = 0)
  BY <1>3, <1>7, <1>8, Sizes, Counters
<1>10. ~ r.used => r.nread = r.nwrite
  BY <1>3, <1>8, <1>9, FullIs DEF Empty
<1>11. InRing(r) = SubSeq(flow[k], m + 1, Len(flow[k])) /\ InRing(r) \in Seq(Bytes)
  BY <1>3, <1>7, <1>8, RingTaken, RingIs
<1> HIDE DEF r, k
<1> QED BY <1>2, <1>3, <1>5, <1>6, <1>8, <1>9, <1>10, <1>11, RingBusy DEF r

\* The bytes s are put into the ring.
LEMMA StoreRing ==
  ASSUME RingInv, NEW p \in Procs, pc[p] = "write", NEW s \in Seq(Bytes),
         Count(pipe[call[p].pipe]) + Len(s) <= PIPESIZE,
         s # << >> => pipe[call[p].pipe].used,
         pipe' = [pipe EXCEPT ![call[p].pipe] = Stored(@, s)],
         flow' = [flow EXCEPT ![call[p].pipe] = @ \o s],
         short' \in [Pipes -> BOOLEAN], TablesOK', \A r \in Procs : Control(r)'
  PROVE  RingInv'
<1> DEFINE k == call[p].pipe
<1> DEFINE q == pipe[k]
<1>1. /\ k \in Pipes /\ q \in PipeType /\ Count(q) <= PIPESIZE /\ flow[k] = InRing(q)
      /\ ~ q.used => Count(q) = 0
  BY AtRing
<1>2. pipe' = [pipe EXCEPT ![k] = Stored(q, s)] /\ flow' = [flow EXCEPT ![k] = flow[k] \o s]
  OBVIOUS
<1>3. Count(q) + Len(s) <= PIPESIZE /\ (s # << >> => q.used)
  OBVIOUS
<1> HIDE DEF q, k
<1> DEFINE r == Stored(q, s)
<1>4. r \in PipeType /\ Count(r) = Count(q) + Len(s) /\ r.used = q.used
  BY <1>1, <1>3, StoredIs
<1>5. InRing(r) = flow[k] \o s /\ InRing(r) \in Seq(Bytes)
  BY <1>1, <1>3, <1>4, RingStored, RingIs
<1>6. Count(r) <= PIPESIZE
  BY <1>3, <1>4
<1>7. ~ r.used => r.nread = r.nwrite
  <2> SUFFICES ASSUME ~ r.used
               PROVE  r.nread = r.nwrite
    OBVIOUS
  <2>1. Count(q) = 0 /\ Len(s) = 0
    BY <1>1, <1>3, <1>4, EmptySeq
  <2>2. Count(r) = 0
    BY <1>4, <2>1
  <2> QED BY <1>4, <1>6, <2>2, FullIs DEF Empty
<1> HIDE DEF r
<1> QED BY <1>1, <1>2, <1>4, <1>5, <1>6, <1>7, RingBusy DEF r

LEMMA PipewriteRing ==
  ASSUME RingInv, NEW p \in Procs, Pipewrite(p), pipe[call[p].pipe].used
  PROVE  RingInv'
<1>1. TablesOK /\ PipesOK
  BY Split
<1>2. /\ pc[p] = "write" /\ UNCHANGED <<file, ofile, held, after, killed>>
      /\ Fit(p) = call[p].bytes
      /\ pipe' = [pipe EXCEPT ![call[p].pipe] = Stored(@, call[p].bytes)]
      /\ flow' = [flow EXCEPT ![call[p].pipe] = @ \o call[p].bytes]
      /\ short' = [short EXCEPT ![call[p].pipe] = FALSE]
      /\ pc' = [Woken(call[p].pipe, "read") EXCEPT ![p] = "user"]
      /\ call' = [call EXCEPT ![p] = NoCall]
  BY DEF Pipewrite, tables
<1>3. /\ call[p].bytes \in Seq(Bytes)
      /\ Count(pipe[call[p].pipe]) + Len(call[p].bytes) <= PIPESIZE
  BY <1>2, AtRing, FitIs
<1>4. NoCall \in Requests
  BY DEF Requests
<1>5. killed' \in [Procs -> BOOLEAN] /\ short' \in [Pipes -> BOOLEAN]
  BY <1>1, <1>2 DEF TablesOK, PipesOK
<1>6. TablesOK' /\ \A r \in Procs : Control(r)'
  BY <1>2, <1>4, <1>5, BackControl
<1> QED BY <1>2, <1>3, <1>5, <1>6, StoreRing

LEMMA WriteWaitsRing ==
  ASSUME RingInv, NEW p \in Procs, WriteWaits(p), pipe[call[p].pipe].used
  PROVE  RingInv'
<1> DEFINE k == call[p].pipe
<1> DEFINE rest == SubSeq(call[p].bytes, Len(Fit(p)) + 1, Len(call[p].bytes))
<1>1. TablesOK /\ PipesOK
  BY Split
<1>2. /\ pc[p] = "write" /\ UNCHANGED <<file, ofile, held, after>>
      /\ pipe' = [pipe EXCEPT ![call[p].pipe] = Stored(@, Fit(p))]
      /\ flow' = [flow EXCEPT ![call[p].pipe] = @ \o Fit(p)]
  BY DEF WriteWaits, tables
<1>3. /\ Fit(p) \in Seq(Bytes) /\ Count(pipe[call[p].pipe]) + Len(Fit(p)) <= PIPESIZE
      /\ call[p].bytes \in Seq(Bytes) /\ k \in Pipes
      /\ call[p] \in Requests /\ call[p].op = "write"
  BY <1>2, AtRing, FitIs
<1>4. CASE ~ pipe[k].readopen \/ killed[p]
  <2>1. /\ pc' = [pc EXCEPT ![p] = "user"] /\ call' = [call EXCEPT ![p] = NoCall]
        /\ killed' = killed /\ short' = [short EXCEPT ![k] = TRUE]
    BY <1>4 DEF WriteWaits, Return, Goto
  <2>2. NoCall \in Requests
    BY DEF Requests
  <2>3. killed' \in [Procs -> BOOLEAN] /\ short' \in [Pipes -> BOOLEAN]
    BY <1>1, <2>1 DEF TablesOK, PipesOK
  <2>4. TablesOK' /\ \A r \in Procs : Control(r)'
    BY <1>2, <2>1, <2>2, <2>3, BackControl
  <2> QED BY <1>2, <1>3, <2>3, <2>4, StoreRing
<1>5. CASE ~ (~ pipe[k].readopen \/ killed[p])
  <2> DEFINE c == [call[p] EXCEPT !.bytes = rest]
  <2>1. /\ pc' = [Woken(k, "read") EXCEPT ![p] = "writesleep"]
        /\ call' = [call EXCEPT ![p] = c]
        /\ short' = [short EXCEPT ![k] = FALSE]
        /\ killed' \in {killed, [killed EXCEPT ![p] = TRUE]}
    BY <1>5 DEF WriteWaits
  <2>2. rest \in Seq(Bytes)
    BY <1>3
  <2>3. c \in Requests /\ c.op = "write"
    <3>1. call[p] \in [op : {"write"}, pipe : Pipes, bytes : Seq(Bytes)]
      BY <1>3 DEF Requests, NoCall
    <3> HIDE DEF rest
    <3>2. c \in [op : {"write"}, pipe : Pipes, bytes : Seq(Bytes)]
      BY <2>2, <3>1
    <3> QED BY <3>2 DEF Requests
  <2>4. killed' \in [Procs -> BOOLEAN] /\ short' \in [Pipes -> BOOLEAN]
    BY <1>1, <2>1 DEF TablesOK, PipesOK
  <2> HIDE DEF c, rest
  <2>5. TablesOK' /\ \A r \in Procs : Control(r)'
    BY <1>2, <2>1, <2>3, <2>4, BackControl
  <2> QED BY <1>2, <1>3, <2>4, <2>5, StoreRing
<1> QED BY <1>4, <1>5
-----------------------------------------------------------------------------
(* The second layer: references.  They are counted process by process, so  *)
(* that a step changes the count by what it changes for one process.       *)

Rows  == [Fds -> FileNos \cup {0}]
Short == {<< >>} \cup {<<f>> : f \in FileNos} \cup {<<f, g>> : f, g \in FileNos}

PlaceOf(row, s, i) == IF i < NOFILE THEN row[i]
                      ELSE IF i - NOFILE < Len(s) THEN s[i - NOFILE + 1] ELSE 0
Row(row, s, f)     == {i \in Places : PlaceOf(row, s, i) = f}
Refs(o, h, f)      == {x \in Procs \X Places : PlaceOf(o[x[1]], h[x[1]], x[2]) = f}

\* How often a file is among the descriptors, and among the files at hand.
Desc(row, f) == Cardinality({fd \in Fds : row[fd] = f})
Hands(s, f)  == (IF s # << >> /\ s[1] = f THEN 1 ELSE 0)
                + (IF Len(s) = 2 /\ s[2] = f THEN 1 ELSE 0)

LEMMA PlacesAre ==
  /\ NOFILE \in Nat /\ NOFILE \notin Fds /\ NOFILE + 1 \notin Fds
  /\ Fds \subseteq Places /\ NOFILE \in Places /\ NOFILE + 1 \in Places
  /\ \A i \in Places : i \in Fds \/ i = NOFILE \/ i = NOFILE + 1
<1>1. NOFILE \in Nat \ {0}
  BY FilesAssumption
<1> QED BY <1>1 DEF Fds, Places

LEMMA HandsAre ==
  ASSUME NEW f \in FileNos
  PROVE  /\ Hands(<< >>, f) = 0
         /\ \A g \in FileNos : Hands(<<g>>, f) = IF g = f THEN 1 ELSE 0
         /\ \A g, h \in FileNos :
              Hands(<<g, h>>, f) = (IF g = f THEN 1 ELSE 0) + (IF h = f THEN 1 ELSE 0)
         /\ \A s \in Short : Hands(s, f) \in Nat
<1>1. Hands(<< >>, f) = 0
  BY DEF Hands
<1>2. \A g \in FileNos : Hands(<<g>>, f) = IF g = f THEN 1 ELSE 0
  BY DEF Hands
<1>3. \A g, h \in FileNos :
        Hands(<<g, h>>, f) = (IF g = f THEN 1 ELSE 0) + (IF h = f THEN 1 ELSE 0)
  BY DEF Hands
<1>4. \A s \in Short : Hands(s, f) \in Nat
  BY DEF Hands
<1> QED BY <1>1, <1>2, <1>3, <1>4

\* What is at the places of a process.
LEMMA PlaceIs ==
  ASSUME NEW row \in Rows, NEW s \in Short
  PROVE  /\ \A fd \in Fds : PlaceOf(row, s, fd) = row[fd]
         /\ PlaceOf(row, s, NOFILE) = IF s = << >> THEN 0 ELSE s[1]
         /\ PlaceOf(row, s, NOFILE + 1) = IF Len(s) = 2 THEN s[2] ELSE 0
<1>1. \A fd \in Fds : fd < NOFILE /\ fd \in Int
  BY PlacesAre DEF Fds
<1>2. \A fd \in Fds : PlaceOf(row, s, fd) = row[fd]
  BY <1>1 DEF PlaceOf
<1> DEFINE n == Len(s)
<1> DEFINE m == NOFILE + 1
<1>3. ~ (NOFILE < NOFILE) /\ NOFILE - NOFILE = 0 /\ NOFILE - NOFILE + 1 = 1
  BY PlacesAre
<1>4. ~ (m < NOFILE) /\ m - NOFILE = 1 /\ m - NOFILE + 1 = 2
  BY PlacesAre
<1> HIDE DEF m
<1>5. PlaceOf(row, s, NOFILE) = IF 0 < n THEN s[1] ELSE 0
  <2>1. PlaceOf(row, s, NOFILE) = IF NOFILE - NOFILE < n THEN s[NOFILE - NOFILE + 1] ELSE 0
    BY <1>3, Zenon DEF PlaceOf
  <2> QED BY <1>3, <2>1
<1>6. PlaceOf(row, s, m) = IF 1 < n THEN s[2] ELSE 0
  <2>1. PlaceOf(row, s, m) = IF m - NOFILE < n THEN s[m - NOFILE + 1] ELSE 0
    BY <1>4, Zenon DEF PlaceOf
  <2> QED BY <1>4, <2>1
<1>7. (n = 0 /\ s = << >>) \/ (n = 1 /\ s # << >>) \/ (n = 2 /\ s # << >>)
  BY DEF Short
<1> HIDE DEF n
<1>8. /\ PlaceOf(row, s, NOFILE) = IF s = << >> THEN 0 ELSE s[1]
      /\ PlaceOf(row, s, m) = IF n = 2 THEN s[2] ELSE 0
  BY <1>5, <1>6, <1>7
<1> QED BY <1>2, <1>8 DEF n, m

LEMMA RowIs ==
  ASSUME NEW row \in Rows, NEW s \in Short, NEW f \in FileNos
  PROVE  /\ IsFiniteSet(Row(row, s, f)) /\ Desc(row, f) \in Nat /\ Hands(s, f) \in Nat
         /\ Cardinality(Row(row, s, f)) = Desc(row, f) + Hands(s, f)
<1> DEFINE D == {fd \in Fds : row[fd] = f}
<1> DEFINE one == s # << >> /\ s[1] = f
<1> DEFINE two == Len(s) = 2 /\ s[2] = f
<1> DEFINE E == IF one THEN D \cup {NOFILE} ELSE D
<1> DEFINE F == IF two THEN E \cup {NOFILE + 1} ELSE E
<1>1. IsFiniteSet(D) /\ Cardinality(D) \in Nat
  BY FdsFinite, FS_Subset, FS_CardinalityType
<1>2. NOFILE \notin D /\ NOFILE + 1 \notin D /\ NOFILE + 1 # NOFILE
  BY PlacesAre
<1>3. f # 0
  BY FilesAssumption DEF FileNos
<1>4. (PlaceOf(row, s, NOFILE) = f <=> one) /\ (PlaceOf(row, s, NOFILE + 1) = f <=> two)
  BY <1>3, PlaceIs
<1>5. ASSUME NEW i \in Places
      PROVE  PlaceOf(row, s, i) = f <=> i \in F
  <2>1. CASE i \in Fds
    BY <2>1, PlaceIs, PlacesAre
  <2>2. CASE i = NOFILE
    BY <1>2, <1>4, <2>2
  <2>3. CASE i = NOFILE + 1
    BY <1>2, <1>4, <2>3
  <2> QED BY <2>1, <2>2, <2>3, PlacesAre
<1>6. F \subseteq Places
  BY PlacesAre
<1>7. Row(row, s, f) = F
  BY <1>5, <1>6 DEF Row
<1> HIDE DEF D
<1>8. IsFiniteSet(E) /\ Cardinality(E) = Cardinality(D) + (IF one THEN 1 ELSE 0)
  <2>1. IsFiniteSet(D \cup {NOFILE}) /\ Cardinality(D \cup {NOFILE}) = Cardinality(D) + 1
    BY <1>1, <1>2, FS_AddElement
  <2>2. one => E = D \cup {NOFILE}
    OBVIOUS
  <2>3. ~ one => E = D
    OBVIOUS
  <2> HIDE DEF E
  <2>4. CASE one
    <3>1. E = D \cup {NOFILE}
      BY <2>2, <2>4
    <3> QED BY <2>1, <2>4, <3>1
  <2>5. CASE ~ one
    <3>1. E = D
      BY <2>3, <2>5
    <3> QED BY <1>1, <2>5, <3>1
  <2> QED BY <2>4, <2>5
<1>9. NOFILE + 1 \notin E
  BY <1>2
<1> HIDE DEF E
<1>10. IsFiniteSet(F) /\ Cardinality(F) = Cardinality(E) + (IF two THEN 1 ELSE 0)
  <2>1. /\ IsFiniteSet(E \cup {NOFILE + 1})
        /\ Cardinality(E \cup {NOFILE + 1}) = Cardinality(E) + 1
    BY <1>8, <1>9, FS_AddElement
  <2>2. two => F = E \cup {NOFILE + 1}
    OBVIOUS
  <2>3. ~ two => F = E
    OBVIOUS
  <2>4. Cardinality(E) \in Nat
    BY <1>8, FS_CardinalityType
  <2> HIDE DEF F
  <2>5. CASE two
    <3>1. F = E \cup {NOFILE + 1}
      BY <2>2, <2>5
    <3> QED BY <2>1, <2>5, <3>1
  <2>6. CASE ~ two
    <3>1. F = E
      BY <2>3, <2>6
    <3> QED BY <1>8, <2>4, <2>6, <3>1
  <2> QED BY <2>5, <2>6
<1>11. Desc(row, f) = Cardinality(D)
  BY DEF Desc, D
<1>12. Hands(s, f) = (IF one THEN 1 ELSE 0) + (IF two THEN 1 ELSE 0)
  BY DEF Hands
<1> HIDE DEF F, one, two
<1> QED BY <1>1, <1>7, <1>8, <1>10, <1>11, <1>12

Elsewhere(o, h, f, p) == {x \in Refs(o, h, f) : x[1] # p}

\* The references of one process, and those of the others.
LEMMA RefsSplit ==
  ASSUME NEW o \in [Procs -> Rows], NEW h \in [Procs -> Short], NEW f \in FileNos, NEW p \in Procs
  PROVE  /\ IsFiniteSet(Refs(o, h, f)) /\ IsFiniteSet(Elsewhere(o, h, f, p))
         /\ Cardinality(Elsewhere(o, h, f, p)) \in Nat
         /\ Cardinality(Refs(o, h, f))
            = Cardinality(Elsewhere(o, h, f, p)) + (Desc(o[p], f) + Hands(h[p], f))
<1> DEFINE R == Row(o[p], h[p], f)
<1> DEFINE E == Elsewhere(o, h, f, p)
<1> DEFINE P == {p} \X R
<1>1. o[p] \in Rows /\ h[p] \in Short
  OBVIOUS
<1>2. IsFiniteSet(R) /\ Cardinality(R) = Desc(o[p], f) + Hands(h[p], f)
  BY <1>1, RowIs
<1>3. IsFiniteSet(Procs \X Places)
  <2>1. IsFiniteSet(Places)
    <3>1. 0 \in Int /\ NOFILE + 1 \in Int
      BY PlacesAre
    <3> QED BY <3>1, FS_Interval DEF Places
  <2> QED BY <2>1, FilesAssumption, FS_Product
<1>4. Refs(o, h, f) \subseteq Procs \X Places
  BY DEF Refs
<1>5. IsFiniteSet(Refs(o, h, f)) /\ IsFiniteSet(E)
  BY <1>3, <1>4, FS_Subset DEF Elsewhere
<1>6. IsFiniteSet(P) /\ Cardinality(P) = Cardinality(R)
  <2>1. IsFiniteSet({p}) /\ Cardinality({p}) = 1
    BY FS_Singleton
  <2>2. IsFiniteSet(P) /\ Cardinality(P) = 1 * Cardinality(R)
    BY <1>2, <2>1, FS_Product
  <2>3. Cardinality(R) \in Nat
    BY <1>2, FS_CardinalityType
  <2> QED BY <2>2, <2>3
<1>7. Refs(o, h, f) = E \cup P
  BY DEF Refs, Elsewhere, Row
<1>8. E \cap P = {}
  BY DEF Elsewhere
<1> HIDE DEF E, P, R
<1>9. Cardinality(E \cup P) = Cardinality(E) + Cardinality(P) - Cardinality({})
  BY <1>5, <1>6, <1>8, FS_Union
<1>10. Cardinality(E) \in Nat /\ Cardinality(P) \in Nat /\ Cardinality({}) = 0
  BY <1>5, <1>6, FS_CardinalityType, FS_EmptySet
<1>11. Cardinality(Refs(o, h, f)) = Cardinality(E) + Cardinality(P)
  BY <1>7, <1>9, <1>10
<1> QED BY <1>2, <1>5, <1>6, <1>10, <1>11 DEF E

\* A step of one process changes the number of references by what it changes there.
LEMMA RefsMoved ==
  ASSUME NEW o \in [Procs -> Rows], NEW h \in [Procs -> Short], NEW f \in FileNos, NEW p \in Procs,
         NEW o2 \in [Procs -> Rows], NEW h2 \in [Procs -> Short],
         \A q \in Procs : q # p => o2[q] = o[q] /\ h2[q] = h[q]
  PROVE  Cardinality(Refs(o2, h2, f))
         = Cardinality(Refs(o, h, f)) - (Desc(o[p], f) + Hands(h[p], f))
           + (Desc(o2[p], f) + Hands(h2[p], f))
<1>1. Elsewhere(o2, h2, f, p) = Elsewhere(o, h, f, p)
  BY DEF Elsewhere, Refs
<1> DEFINE e == Cardinality(Elsewhere(o, h, f, p))
<1> DEFINE a == Desc(o[p], f) + Hands(h[p], f)
<1> DEFINE b == Desc(o2[p], f) + Hands(h2[p], f)
<1>2. Cardinality(Refs(o, h, f)) = e + a /\ Cardinality(Refs(o2, h2, f)) = e + b /\ e \in Nat
  BY <1>1, RefsSplit
<1>3. a \in Nat /\ b \in Nat
  BY RowIs
<1> HIDE DEF a, b, e
<1>4. Cardinality(Refs(o2, h2, f)) = Cardinality(Refs(o, h, f)) - a + b
  BY <1>2, <1>3
<1> QED BY <1>4 DEF a, b

\* Two processes together do not have more references than there are.
LEMMA TwoHave ==
  ASSUME NEW o \in [Procs -> Rows], NEW h \in [Procs -> Short], NEW f \in FileNos,
         NEW p \in Procs, NEW q \in Procs, p # q
  PROVE  (Desc(o[p], f) + Hands(h[p], f)) + (Desc(o[q], f) + Hands(h[q], f))
         <= Cardinality(Refs(o, h, f))
<1> DEFINE P == {q} \X Row(o[q], h[q], f)
<1> DEFINE E == Elsewhere(o, h, f, p)
<1>1. /\ IsFiniteSet(E) /\ Cardinality(E) \in Nat
      /\ Cardinality(Refs(o, h, f)) = Cardinality(E) + (Desc(o[p], f) + Hands(h[p], f))
  BY RefsSplit
<1>2. P \subseteq E
  BY DEF Elsewhere, Refs, Row
<1>3. Cardinality(P) <= Cardinality(E)
  BY <1>1, <1>2, FS_Subset
<1>4. Cardinality(P) = Desc(o[q], f) + Hands(h[q], f)
  <2> DEFINE R == Row(o[q], h[q], f)
  <2>1. IsFiniteSet({q}) /\ Cardinality({q}) = 1
    BY FS_Singleton
  <2>2. IsFiniteSet(R) /\ Cardinality(R) = Desc(o[q], f) + Hands(h[q], f)
    BY RowIs
  <2> HIDE DEF R
  <2>3. Cardinality({q} \X R) = 1 * Cardinality(R)
    BY <2>1, <2>2, FS_Product
  <2>4. Cardinality(R) \in Nat
    BY <2>2, FS_CardinalityType
  <2>5. Cardinality({q} \X R) = Cardinality(R)
    BY <2>3, <2>4
  <2> QED BY <2>2, <2>5 DEF R
<1> DEFINE a == Desc(o[p], f) + Hands(h[p], f)
<1> DEFINE b == Desc(o[q], f) + Hands(h[q], f)
<1>5. a \in Nat /\ b \in Nat
  BY RowIs
<1> HIDE DEF a, b, P, E
<1>6. a + b <= Cardinality(Refs(o, h, f))
  BY <1>1, <1>3, <1>4, <1>5 DEF a, b
<1> QED BY <1>6 DEF a, b

\* One descriptor changes.
LEMMA DescSet ==
  ASSUME NEW row \in Rows, NEW fd \in Fds, NEW g \in FileNos \cup {0}, NEW f \in FileNos
  PROVE  /\ [row EXCEPT ![fd] = g] \in Rows
         /\ Desc([row EXCEPT ![fd] = g], f)
            = Desc(row, f) - (IF row[fd] = f THEN 1 ELSE 0) + (IF g = f THEN 1 ELSE 0)
<1> DEFINE row2 == [row EXCEPT ![fd] = g]
<1> DEFINE D == {e \in Fds : row[e] = f}
<1> DEFINE D2 == {e \in Fds : row2[e] = f}
<1>1. IsFiniteSet(D) /\ Cardinality(D) \in Nat
  BY FdsFinite, FS_Subset, FS_CardinalityType
<1>2. row2 \in Rows /\ row2[fd] = g /\ \A e \in Fds : e # fd => row2[e] = row[e]
  BY DEF Rows
<1> HIDE DEF row2
<1>3. /\ row[fd] # f /\ g = f => D2 = D \cup {fd} /\ fd \notin D
      /\ row[fd] = f /\ g # f => D2 = D \ {fd} /\ fd \in D
      /\ (row[fd] = f <=> g = f) => D2 = D
  BY <1>2
<1> HIDE DEF D, D2
<1>4. fd \notin D => Cardinality(D \cup {fd}) = Cardinality(D) + 1
  BY <1>1, FS_AddElement
<1>5. fd \in D => Cardinality(D \ {fd}) = Cardinality(D) - 1
  BY <1>1, FS_RemoveElement
<1>6. Desc(row, f) = Cardinality(D) /\ Desc(row2, f) = Cardinality(D2)
  BY DEF Desc, D, D2
<1>7. Desc(row2, f)
      = Desc(row, f) - (IF row[fd] = f THEN 1 ELSE 0) + (IF g = f THEN 1 ELSE 0)
  <2> DEFINE a == row[fd] = f
  <2> DEFINE b == g = f
  <2>1. /\ ~ a /\ b => Cardinality(D2) = Cardinality(D) + 1
        /\ a /\ ~ b => Cardinality(D2) = Cardinality(D) - 1
        /\ (a <=> b) => Cardinality(D2) = Cardinality(D)
    BY <1>3, <1>4, <1>5
  <2> HIDE DEF a, b
  <2>2. Cardinality(D2) = Cardinality(D) - (IF a THEN 1 ELSE 0) + (IF b THEN 1 ELSE 0)
    BY <1>1, <2>1
  <2> QED BY <1>6, <2>2 DEF a, b
<1> QED BY <1>2, <1>7 DEF row2

\* A process without a descriptor for a file, or with one.
LEMMA DescHas ==
  ASSUME NEW row \in Rows, NEW f \in FileNos
  PROVE  Desc(row, f) >= 1 <=> \E fd \in Fds : row[fd] = f
<1> DEFINE D == {e \in Fds : row[e] = f}
<1>1. IsFiniteSet(D) /\ Cardinality(D) \in Nat
  BY FdsFinite, FS_Subset, FS_CardinalityType
<1>2. Cardinality(D) = 0 <=> D = {}
  BY <1>1, FS_EmptySet
<1>3. D # {} <=> \E fd \in Fds : row[fd] = f
  OBVIOUS
<1> HIDE DEF D
<1>4. Cardinality(D) >= 1 <=> D # {}
  BY <1>1, <1>2
<1> QED BY <1>3, <1>4 DEF Desc, D

LEMMA RefsAre ==
  RefsCounted <=> \A f \in FileNos : file[f].ref = Cardinality(Refs(ofile, held, f))
<1>1. \A p, i : At(p, i) = PlaceOf(ofile[p], held[p], i)
  BY DEF At, PlaceOf
<1>2. \A f : RefsTo(f) = Refs(ofile, held, f)
  BY <1>1 DEF RefsTo, Refs
<1> QED BY <1>2 DEF RefsCounted

LEMMA RefsAreNext ==
  RefsCounted' <=> \A f \in FileNos : file'[f].ref = Cardinality(Refs(ofile', held', f))
<1>1. \A p, i : At(p, i)' = PlaceOf(ofile'[p], held'[p], i)
  BY DEF At, PlaceOf
<1>2. \A f : RefsTo(f)' = Refs(ofile', held', f)
  BY <1>1 DEF RefsTo, Refs
<1> QED BY <1>2 DEF RefsCounted

\* No process has more than two files at hand.
Shaped == ofile \in [Procs -> Rows] /\ held \in [Procs -> Short] /\ file \in [FileNos -> FileType]

LEMMA ShapeIs == RingInv => Shaped
<1> SUFFICES ASSUME RingInv
             PROVE  ofile \in [Procs -> Rows] /\ held \in [Procs -> Short]
                    /\ file \in [FileNos -> FileType]
  BY DEF Shaped
<1>1. TablesOK /\ \A p \in Procs : Control(p)
  BY Split
<1>2. ASSUME NEW p \in Procs
      PROVE  held[p] \in Short
  <2>1. held[p] \in Seq(FileNos)
    BY <1>1 DEF TablesOK
  <2>2. held[p] = << >> \/ Len(held[p]) \in {1, 2}
    BY <1>1, <2>1, EmptySeq DEF Control
  <2>3. CASE held[p] = << >>
    BY <2>3 DEF Short
  <2>4. CASE Len(held[p]) = 1
    <3>1. held[p][1] \in FileNos
      BY <2>1, <2>4, ElementOfSeq
    <3> DEFINE s == held[p]
    <3>2. s \in Seq(FileNos) /\ Len(s) = 1 /\ s[1] \in FileNos
      BY <2>1, <2>4, <3>1
    <3> HIDE DEF s
    <3>3. s = <<s[1]>>
      BY <3>2, SeqEqual
    <3> QED BY <3>2, <3>3 DEF s, Short
  <2>5. CASE Len(held[p]) = 2
    <3>1. held[p][1] \in FileNos /\ held[p][2] \in FileNos
      BY <2>1, <2>5, ElementOfSeq
    <3> DEFINE s == held[p]
    <3>2. s \in Seq(FileNos) /\ Len(s) = 2 /\ s[1] \in FileNos /\ s[2] \in FileNos
      BY <2>1, <2>5, <3>1
    <3> HIDE DEF s
    <3>3. s = <<s[1], s[2]>>
      BY <3>2, SeqEqual
    <3> QED BY <3>2, <3>3 DEF s, Short
  <2> QED BY <2>2, <2>3, <2>4, <2>5
<1> QED BY <1>1, <1>2 DEF TablesOK, Rows

LEMMA Shape ==
  ASSUME RingInv
  PROVE  ofile \in [Procs -> Rows] /\ held \in [Procs -> Short] /\ file \in [FileNos -> FileType]
BY ShapeIs DEF Shaped

LEMMA ShapedNext == RingInv' => Shaped'
BY ShapeIs, PTL

LEMMA ShapeNext ==
  ASSUME RingInv'
  PROVE  ofile' \in [Procs -> Rows] /\ held' \in [Procs -> Short] /\ file' \in [FileNos -> FileType]
BY ShapedNext DEF Shaped

Has(p, f) == Desc(ofile[p], f) + Hands(held[p], f)

LEMMA HasNat ==
  ASSUME RingInv, NEW p \in Procs, NEW f \in FileNos
  PROVE  /\ Has(p, f) \in Nat
         /\ Desc(ofile[p], f) \in Nat /\ Hands(held[p], f) \in Nat
         /\ (\E fd \in Fds : ofile[p][fd] = f) => Has(p, f) >= 1
<1>1. ofile[p] \in Rows /\ held[p] \in Short
  BY Shape
<1>2. Desc(ofile[p], f) \in Nat /\ Hands(held[p], f) \in Nat
  BY <1>1, RowIs
<1>3. (\E fd \in Fds : ofile[p][fd] = f) => Desc(ofile[p], f) >= 1
  BY <1>1, DescHas
<1> QED BY <1>2, <1>3 DEF Has

\* What the count says of the references of one process and of two.
LEMMA HasRefs ==
  ASSUME RingInv, RefsCounted, NEW f \in FileNos
  PROVE  /\ file[f].ref \in Nat
         /\ \A p \in Procs : Has(p, f) <= file[f].ref
         /\ \A p, q \in Procs : p # q => Has(p, f) + Has(q, f) <= file[f].ref
<1>1. /\ ofile \in [Procs -> Rows] /\ held \in [Procs -> Short]
      /\ file[f].ref = Cardinality(Refs(ofile, held, f)) /\ file[f].ref \in Nat
  BY Shape, RefsAre DEF FileType
<1>2. ASSUME NEW p \in Procs
      PROVE  Has(p, f) <= file[f].ref
  <2> DEFINE e == Cardinality(Elsewhere(ofile, held, f, p))
  <2>1. e \in Nat /\ file[f].ref = e + Has(p, f)
    BY <1>1, RefsSplit DEF Has
  <2>2. Has(p, f) \in Nat
    BY HasNat
  <2> HIDE DEF e
  <2> QED BY <2>1, <2>2
<1>3. ASSUME NEW p \in Procs, NEW q \in Procs, p # q
      PROVE  Has(p, f) + Has(q, f) <= file[f].ref
  BY <1>1, <1>3, TwoHave DEF Has
<1> QED BY <1>1, <1>2, <1>3

\* The count after a step of p.
LEMMA RefsStep ==
  ASSUME RingInv, RingInv', RefsCounted, NEW p \in Procs,
         \A q \in Procs : q # p => ofile'[q] = ofile[q] /\ held'[q] = held[q],
         \A f \in FileNos : file'[f].ref = file[f].ref - (Desc(ofile[p], f) + Hands(held[p], f))
                                           + (Desc(ofile'[p], f) + Hands(held'[p], f))
  PROVE  RefsCounted'
<1>1. /\ ofile \in [Procs -> Rows] /\ held \in [Procs -> Short]
      /\ ofile' \in [Procs -> Rows] /\ held' \in [Procs -> Short]
  BY Shape, ShapeNext
<1>2. ASSUME NEW f \in FileNos
      PROVE  file'[f].ref = Cardinality(Refs(ofile', held', f))
  <2>1. file[f].ref = Cardinality(Refs(ofile, held, f))
    BY RefsAre
  <2>2. Cardinality(Refs(ofile', held', f))
        = Cardinality(Refs(ofile, held, f)) - (Desc(ofile[p], f) + Hands(held[p], f))
          + (Desc(ofile'[p], f) + Hands(held'[p], f))
    BY <1>1, RefsMoved
  <2> QED BY <2>1, <2>2
<1> QED BY <1>2, RefsAreNext

\* What a process of the others sees of the step.
LEMMA OthersKept ==
  ASSUME RingInv, RefsInv, NEW q \in Procs,
         pc'[q] = pc[q], call'[q] = call[q], ofile'[q] = ofile[q], held'[q] = held[q],
         \A f \in FileNos : Has(q, f) >= 1 =>
           /\ file'[f].pipe = file[f].pipe /\ file'[f].writable = file[f].writable
           /\ file[f].ref = 1 => file'[f] = file[f]
  PROVE  Fresh(q)' /\ HasDesc(q)' /\ Unborn(q)'
<1>1. Fresh(q) /\ HasDesc(q) /\ Unborn(q) /\ ofile[q] \in Rows /\ held[q] \in Short
  BY Shape DEF RefsInv
<1>2. Unborn(q)'
  BY <1>1 DEF Unborn
<1>3. Fresh(q)'
  <2>1. ASSUME NEW i \in 1..Len(held[q]), pc[q] \in {"file", "page"}
        PROVE  file'[held[q][i]] = [NoFile EXCEPT !.ref = 1]
    <3> DEFINE f == held[q][i]
    <3>1. file[f] = [NoFile EXCEPT !.ref = 1]
      BY <1>1, <2>1 DEF Fresh
    <3>2. f \in FileNos /\ Hands(held[q], f) >= 1
      <4>1. CASE held[q] = << >>
        BY <2>1, <4>1
      <4>2. ASSUME NEW g \in FileNos, held[q] = <<g>>
            PROVE  f \in FileNos /\ Hands(held[q], f) >= 1
        <5>1. f = g
          BY <2>1, <4>2
        <5> QED BY <4>2, <5>1, HandsAre
      <4>3. ASSUME NEW g \in FileNos, NEW h \in FileNos, held[q] = <<g, h>>
            PROVE  f \in FileNos /\ Hands(held[q], f) >= 1
        <5>1. f = g \/ f = h
          BY <2>1, <4>3
        <5>2. f \in FileNos
          BY <5>1
        <5> HIDE DEF f
        <5>3. Hands(held[q], f) = (IF g = f THEN 1 ELSE 0) + (IF h = f THEN 1 ELSE 0)
          BY <4>3, <5>2, HandsAre
        <5> QED BY <5>1, <5>2, <5>3
      <4> QED BY <1>1, <4>1, <4>2, <4>3 DEF Short
    <3> HIDE DEF f
    <3>3. Has(q, f) >= 1
      BY <3>2, HasNat DEF Has
    <3>4. file[f].ref = 1
      BY <3>1 DEF NoFile
    <3> QED BY <3>1, <3>2, <3>3, <3>4 DEF f
  <2> QED BY <2>1 DEF Fresh
<1>4. HasDesc(q)'
  <2>1. ASSUME NEW fd \in Fds, NEW w \in BOOLEAN, HasEnd(q, fd, w)
        PROVE  HasEnd(q, fd, w)' /\ (file[ofile[q][fd]].pipe)' = file[ofile[q][fd]].pipe
    <3>1. ofile[q][fd] \in FileNos
      BY <1>1, <2>1 DEF HasEnd, Rows
    <3>2. Has(q, ofile[q][fd]) >= 1
      BY <3>1, HasNat
    <3>3. /\ file'[ofile[q][fd]].pipe = file[ofile[q][fd]].pipe
          /\ file'[ofile[q][fd]].writable = file[ofile[q][fd]].writable
      BY <3>1, <3>2
    <3> QED BY <2>1, <3>3 DEF HasEnd
  <2> QED BY <1>1, <2>1 DEF HasDesc
<1> QED BY <1>2, <1>3, <1>4

\* The steps that leave the files and the references alone.
LEMMA RefsQuiet ==
  ASSUME RefsInv, UNCHANGED <<file, ofile, held>>,
         \A q \in Procs : pc'[q] \in {"file", "page", "unused"} => pc'[q] = pc[q],
         \A q \in Procs : HasDesc(q)' \/ call'[q].op \notin {"read", "write"}
                          \/ (call'[q].op = call[q].op /\ call'[q].pipe = call[q].pipe)
  PROVE  RefsInv'
<1>1. RefsCounted'
  BY RefsAre, RefsAreNext DEF RefsInv
<1>2. FreeOK'
  BY DEF RefsInv, FreeOK
<1>3. ASSUME NEW q \in Procs
      PROVE  Fresh(q)' /\ Unborn(q)' /\ HasDesc(q)'
  <2>1. Fresh(q) /\ Unborn(q) /\ HasDesc(q)
    BY DEF RefsInv
  <2>2. \A fd, w : HasEnd(q, fd, w)' <=> HasEnd(q, fd, w)
    BY DEF HasEnd
  <2>3. Fresh(q)' /\ Unborn(q)'
    BY <2>1 DEF Fresh, Unborn
  <2>4. HasDesc(q)'
    BY <2>1, <2>2 DEF HasDesc
  <2> QED BY <2>3, <2>4
<1> QED BY <1>1, <1>2, <1>3 DEF RefsInv

\* A step of p: it changes the files it has or takes, and nobody else has those.
LEMMA RefsOf ==
  ASSUME RingInv, RingInv', RefsInv, NEW p \in Procs,
         \A q \in Procs : q # p => /\ pc'[q] = pc[q] /\ call'[q] = call[q]
                                   /\ ofile'[q] = ofile[q] /\ held'[q] = held[q],
         \A f \in FileNos :
           /\ file'[f].ref = file[f].ref - (Desc(ofile[p], f) + Hands(held[p], f))
                             + (Desc(ofile'[p], f) + Hands(held'[p], f))
           /\ file'[f].ref = 0 => file'[f] = NoFile
           /\ \/ file'[f] = file[f]
              \/ /\ file'[f].pipe = file[f].pipe /\ file'[f].writable = file[f].writable
                 /\ file[f].ref = 1 => Has(p, f) >= 1
              \/ Has(p, f) >= file[f].ref,
         Fresh(p)', Unborn(p)', call'[p].op \notin {"read", "write"}
  PROVE  RefsInv'
<1>1. RefsCounted
  BY DEF RefsInv
<1>2. RefsCounted'
  <2>1. \A q \in Procs : q # p => ofile'[q] = ofile[q] /\ held'[q] = held[q]
    OBVIOUS
  <2>2. \A f \in FileNos : file'[f].ref = file[f].ref - (Desc(ofile[p], f) + Hands(held[p], f))
                                          + (Desc(ofile'[p], f) + Hands(held'[p], f))
    OBVIOUS
  <2> QED BY <1>1, <2>1, <2>2, RefsStep
<1>3. FreeOK'
  BY DEF FreeOK
<1>4. ASSUME NEW q \in Procs, q # p
      PROVE  Fresh(q)' /\ HasDesc(q)' /\ Unborn(q)'
  <2>1. ASSUME NEW f \in FileNos, Has(q, f) >= 1
        PROVE  /\ file'[f].pipe = file[f].pipe /\ file'[f].writable = file[f].writable
               /\ file[f].ref = 1 => file'[f] = file[f]
    <3>1. /\ Has(p, f) \in Nat /\ Has(q, f) \in Nat /\ file[f].ref \in Nat
          /\ Has(p, f) + Has(q, f) <= file[f].ref
      BY <1>1, <1>4, HasNat, HasRefs
    <3>2. ~ (Has(p, f) >= file[f].ref)
      BY <2>1, <3>1
    <3>3. file[f].ref = 1 => ~ (Has(p, f) >= 1)
      BY <2>1, <3>1
    <3> QED BY <3>2, <3>3
  <2>2. /\ pc'[q] = pc[q] /\ call'[q] = call[q] /\ ofile'[q] = ofile[q] /\ held'[q] = held[q]
    BY <1>4
  <2> QED BY <2>1, <2>2, OthersKept
<1>5. HasDesc(p)'
  BY DEF HasDesc
<1> QED BY <1>2, <1>3, <1>4, <1>5 DEF RefsInv

LEMMA DuppedIs ==
  ASSUME RingInv, NEW p \in Procs, NEW S \in SUBSET Fds, NEW f \in FileNos
  PROVE  LET n == Cardinality({fd \in S : ofile[p][fd] = f})
         IN  /\ n \in Nat
             /\ Dupped(p, S)[f].ref = file[f].ref + n
             /\ Dupped(p, S)[f].pipe = file[f].pipe /\ Dupped(p, S)[f].writable = file[f].writable
             /\ n = 0 => Dupped(p, S)[f] = file[f]
<1> DEFINE n == Cardinality({fd \in S : ofile[p][fd] = f})
<1>1. n \in Nat
  BY FdsFinite, FS_Subset, FS_CardinalityType
<1>2. Dupped(p, S)[f] = [file[f] EXCEPT !.ref = file[f].ref + n]
  BY DEF Dupped
<1> HIDE DEF n
<1>3. file[f] \in FileType
  BY Shape
<1>4. n = 0 => file[f].ref + n = file[f].ref
  BY <1>3 DEF FileType
<1>5. n = 0 => Dupped(p, S)[f] = file[f]
  BY <1>2, <1>3, <1>4 DEF FileType
<1>6. /\ Dupped(p, S)[f].ref = file[f].ref + n
      /\ Dupped(p, S)[f].pipe = file[f].pipe /\ Dupped(p, S)[f].writable = file[f].writable
  BY <1>2, <1>3 DEF FileType
<1> QED BY <1>1, <1>5, <1>6 DEF n

LEMMA FileallocIs ==
  ASSUME RingInv, RefsInv, FreeFiles # {}
  PROVE  LET g == Lowest(FreeFiles)
         IN  /\ g \in FileNos /\ file[g] = NoFile
             /\ Filealloc[g] = [NoFile EXCEPT !.ref = 1]
             /\ \A f \in FileNos : f # g => Filealloc[f] = file[f]
<1> DEFINE g == Lowest(FreeFiles)
<1>1. g \in FileNos /\ file[g].ref = 0 /\ file \in [FileNos -> FileType]
  BY FirstFree, Shape
<1>2. file[g] = NoFile
  BY <1>1 DEF RefsInv, FreeOK
<1> HIDE DEF g
<1>3. [file EXCEPT ![g].ref = 1][g] = [NoFile EXCEPT !.ref = 1]
      /\ \A f \in FileNos : f # g => [file EXCEPT ![g].ref = 1][f] = file[f]
  BY <1>1, <1>2
<1> QED BY <1>1, <1>2, <1>3 DEF g, Filealloc

\* The count of a file that is taken, and of the others.
LEMMA TakenRefs ==
  ASSUME RingInv, RefsInv, FreeFiles # {}, NEW p \in Procs, file' = Filealloc, NEW f \in FileNos
  PROVE  LET g == Lowest(FreeFiles)
         IN  /\ file'[f].ref = file[f].ref + (IF g = f THEN 1 ELSE 0)
             /\ file'[f].ref = 0 => file'[f] = NoFile
             /\ \/ file'[f] = file[f]
                \/ Has(p, f) >= file[f].ref
             /\ file[f].ref \in Nat
<1> DEFINE g == Lowest(FreeFiles)
<1>1. /\ g \in FileNos /\ file[g] = NoFile /\ Filealloc[g] = [NoFile EXCEPT !.ref = 1]
      /\ \A h \in FileNos : h # g => Filealloc[h] = file[h]
  BY FileallocIs
<1>2. file[f].ref \in Nat /\ Has(p, f) \in Nat
  BY Shape, HasNat DEF FileType
<1> HIDE DEF g
<1>3. CASE f = g
  <2>1. file[f].ref = 0 /\ file'[f].ref = 1
    BY <1>1, <1>3 DEF NoFile
  <2>2. Has(p, f) >= file[f].ref
    BY <1>2, <2>1
  <2> QED BY <1>2, <1>3, <2>1, <2>2 DEF g
<1>4. CASE f # g
  <2>1. file'[f] = file[f]
    BY <1>1, <1>4
  <2>2. file'[f].ref = 0 => file'[f] = NoFile
    BY <2>1 DEF RefsInv, FreeOK
  <2> QED BY <1>2, <1>4, <2>1, <2>2 DEF g
<1> QED BY <1>3, <1>4

LEMMA FirstFreeFd ==
  ASSUME NEW p \in Procs, FreeFds(p) # {}
  PROVE  Lowest(FreeFds(p)) \in Fds /\ ofile[p][Lowest(FreeFds(p))] = 0
<1>1. FreeFds(p) \in SUBSET Fds
  BY DEF FreeFds
<1>2. Lowest(FreeFds(p)) \in FreeFds(p)
  BY <1>1, FirstFd
<1> QED BY <1>2 DEF FreeFds

LEMMA NotZero == \A f \in FileNos : f # 0
BY FilesAssumption DEF FileNos

LEMMA DupRefs ==
  ASSUME RingInv, RingInv', RefsInv, NEW p \in Procs, NEW fd \in Fds, Dup(p, fd)
  PROVE  RefsInv'
<1> DEFINE e == Lowest(FreeFds(p))
<1> DEFINE h == ofile[p][fd]
<1>1. /\ e \in Fds /\ ofile[p][e] = 0 /\ ofile[p] \in Rows /\ ofile \in [Procs -> Rows]
      /\ h \in FileNos /\ held[p] \in Short
  BY FirstFreeFd, Shape DEF Dup, Rows
<1>2. /\ ofile' = [ofile EXCEPT ![p][e] = h] /\ file' = Dupped(p, {fd})
      /\ pc' = pc /\ call' = call /\ held' = held /\ Calls(p)
  BY DEF Dup
<1> HIDE DEF e
<1>3. ofile'[p] = [ofile[p] EXCEPT ![e] = h] /\ \A q \in Procs : q # p => ofile'[q] = ofile[q]
  BY <1>1, <1>2
<1>4. pc[p] = "user" /\ call[p].op \notin {"read", "write"}
  BY <1>2, CallsControl DEF RingInv
<1>5. ASSUME NEW f \in FileNos
      PROVE  /\ file'[f].ref = file[f].ref - (Desc(ofile[p], f) + Hands(held[p], f))
                               + (Desc(ofile'[p], f) + Hands(held'[p], f))
             /\ file'[f].ref = 0 => file'[f] = NoFile
             /\ \/ file'[f] = file[f]
                \/ /\ file'[f].pipe = file[f].pipe /\ file'[f].writable = file[f].writable
                   /\ file[f].ref = 1 => Has(p, f) >= 1
  <2> DEFINE n == Cardinality({x \in {fd} : ofile[p][x] = f})
  <2>1. /\ n \in Nat /\ file'[f].ref = file[f].ref + n
        /\ file'[f].pipe = file[f].pipe /\ file'[f].writable = file[f].writable
        /\ n = 0 => file'[f] = file[f]
    BY <1>2, DuppedIs
  <2>2. n = IF h = f THEN 1 ELSE 0
    <3>1. CASE h = f
      <4>1. {x \in {fd} : ofile[p][x] = f} = {fd}
        BY <3>1
      <4> QED BY <3>1, <4>1, FS_Singleton
    <3>2. CASE h # f
      <4>1. {x \in {fd} : ofile[p][x] = f} = {}
        BY <3>2
      <4> QED BY <3>2, <4>1, FS_EmptySet
    <3> QED BY <3>1, <3>2
  <2>3. Desc(ofile'[p], f) = Desc(ofile[p], f) + (IF h = f THEN 1 ELSE 0)
    <3>1. Desc(ofile'[p], f) = Desc(ofile[p], f) - (IF ofile[p][e] = f THEN 1 ELSE 0)
                               + (IF h = f THEN 1 ELSE 0)
      BY <1>1, <1>3, DescSet
    <3>2. ofile[p][e] # f /\ Desc(ofile[p], f) \in Nat
      BY <1>1, NotZero, RowIs
    <3> QED BY <3>1, <3>2
  <2> HIDE DEF n
  <2>4. h = f => Has(p, f) >= 1
    BY HasNat
  <2>5. Desc(ofile[p], f) \in Nat /\ Hands(held[p], f) \in Nat /\ file[f].ref \in Nat
    BY HasNat, Shape DEF FileType
  <2>6. file'[f].ref = file[f].ref - (Desc(ofile[p], f) + Hands(held[p], f))
                       + (Desc(ofile'[p], f) + Hands(held'[p], f))
    BY <1>2, <2>1, <2>2, <2>3, <2>5
  <2>7. file'[f].ref = 0 => file'[f] = NoFile
    <3>1. file'[f].ref = 0 => n = 0 /\ file[f].ref = 0
      BY <2>1, <2>5
    <3> QED BY <2>1, <3>1 DEF RefsInv, FreeOK
  <2>8. \/ file'[f] = file[f]
        \/ /\ file'[f].pipe = file[f].pipe /\ file'[f].writable = file[f].writable
           /\ file[f].ref = 1 => Has(p, f) >= 1
    BY <2>1, <2>2, <2>4
  <2> QED BY <2>6, <2>7, <2>8
<1>6. Fresh(p)' /\ Unborn(p)'
  BY <1>2, <1>4 DEF Fresh, Unborn
<1> QED BY <1>2, <1>3, <1>4, <1>5, <1>6, RefsOf

\* p goes on to fileclose, or at once to l.
LEMMA CloseAllMoves ==
  ASSUME RingInv, NEW p \in Procs, NEW s, NEW l \in {"user", "exit", "unused"}, CloseAll(p, s, l)
  PROVE  /\ held'[p] = s /\ pc'[p] = (IF s = << >> THEN l ELSE "close")
         /\ \A q \in Procs : q # p => pc'[q] = pc[q] /\ held'[q] = held[q]
         /\ Fresh(p)'
         /\ s # << >> \/ l # "unused" => Unborn(p)'
<1>1. pc \in [Procs -> Pcs] /\ held \in [Procs -> Seq(FileNos)]
  BY Split DEF TablesOK
<1>2. held' = [held EXCEPT ![p] = s] /\ pc' = [pc EXCEPT ![p] = IF s = << >> THEN l ELSE "close"]
  BY CloseAllIs
<1>3. /\ held'[p] = s /\ pc'[p] = (IF s = << >> THEN l ELSE "close")
      /\ \A q \in Procs : q # p => pc'[q] = pc[q] /\ held'[q] = held[q]
  BY <1>1, <1>2
<1> QED BY <1>3 DEF Fresh, Unborn

LEMMA OpenRefs ==
  ASSUME RingInv, RingInv', RefsInv, NEW p \in Procs, Open(p)
  PROVE  RefsInv'
<1> DEFINE g == Lowest(FreeFiles)
<1> DEFINE e == Lowest(FreeFds(p))
<1>1. /\ Calls(p) /\ FreeFiles # {} /\ file' = Filealloc /\ call' = call
      /\ ofile \in [Procs -> Rows] /\ ofile[p] \in Rows /\ g \in FileNos
  BY Shape, FileallocIs DEF Open
<1>2. held[p] = << >> /\ call[p].op \notin {"read", "write"}
  BY <1>1, CallsControl DEF RingInv
<1>3. ASSUME NEW f \in FileNos
      PROVE  /\ file'[f].ref = file[f].ref + (IF g = f THEN 1 ELSE 0)
             /\ file'[f].ref = 0 => file'[f] = NoFile
             /\ file'[f] = file[f] \/ Has(p, f) >= file[f].ref
             /\ file[f].ref \in Nat /\ Desc(ofile[p], f) \in Nat
             /\ Hands(held[p], f) = 0 /\ Hands(<<g>>, f) = IF g = f THEN 1 ELSE 0
  BY <1>1, <1>2, TakenRefs, HasNat, HandsAre
<1>4. CASE FreeFds(p) # {}
  <2>1. e \in Fds /\ ofile[p][e] = 0
    BY <1>4, FirstFreeFd
  <2>2. ofile' = [ofile EXCEPT ![p][e] = g] /\ CloseAll(p, << >>, "user")
    BY <1>4 DEF Open
  <2> HIDE DEF e, g
  <2>3. ofile'[p] = [ofile[p] EXCEPT ![e] = g] /\ \A q \in Procs : q # p => ofile'[q] = ofile[q]
    BY <1>1, <2>2
  <2>4. /\ held'[p] = << >> /\ \A q \in Procs : q # p => pc'[q] = pc[q] /\ held'[q] = held[q]
        /\ Fresh(p)' /\ Unborn(p)'
    BY <2>2, CloseAllMoves
  <2>5. ASSUME NEW f \in FileNos
        PROVE  file'[f].ref = file[f].ref - (Desc(ofile[p], f) + Hands(held[p], f))
                              + (Desc(ofile'[p], f) + Hands(held'[p], f))
    <3>1. Desc(ofile'[p], f) = Desc(ofile[p], f) - (IF ofile[p][e] = f THEN 1 ELSE 0)
                               + (IF g = f THEN 1 ELSE 0)
      BY <1>1, <2>1, <2>3, DescSet
    <3>2. ofile[p][e] # f
      BY <2>1, NotZero
    <3>3. Hands(held'[p], f) = 0
      BY <2>4, HandsAre
    <3> QED BY <1>3, <3>1, <3>2, <3>3
  <2> QED BY <1>1, <1>2, <1>3, <2>3, <2>4, <2>5, RefsOf
<1>5. CASE FreeFds(p) = {}
  <2>1. ofile' = ofile /\ CloseAll(p, <<g>>, "user")
    BY <1>5 DEF Open
  <2> HIDE DEF g
  <2>2. /\ held'[p] = <<g>> /\ \A q \in Procs : q # p => pc'[q] = pc[q] /\ held'[q] = held[q]
        /\ Fresh(p)' /\ Unborn(p)'
    BY <2>1, CloseAllMoves
  <2>3. ASSUME NEW f \in FileNos
        PROVE  file'[f].ref = file[f].ref - (Desc(ofile[p], f) + Hands(held[p], f))
                              + (Desc(ofile'[p], f) + Hands(held'[p], f))
    BY <1>3, <2>1, <2>2
  <2> QED BY <1>1, <1>2, <1>3, <2>1, <2>2, <2>3, RefsOf
<1> QED BY <1>4, <1>5

\* A reference goes from a descriptor to fileclose.
LEMMA DropFd ==
  ASSUME RingInv, RingInv', RefsInv, NEW p \in Procs, NEW fd \in Fds, NEW l \in {"user", "exit"},
         ofile[p][fd] # 0, ofile' = [ofile EXCEPT ![p][fd] = 0],
         CloseAll(p, <<ofile[p][fd]>>, l), held[p] = << >>,
         call' = call, call[p].op \notin {"read", "write"}, file' = file
  PROVE  RefsInv'
<1> DEFINE h == ofile[p][fd]
<1>1. ofile \in [Procs -> Rows] /\ ofile[p] \in Rows /\ h \in FileNos
  BY Shape DEF Rows
<1>2. ofile'[p] = [ofile[p] EXCEPT ![fd] = 0] /\ \A q \in Procs : q # p => ofile'[q] = ofile[q]
  BY <1>1
<1>3. /\ held'[p] = <<h>> /\ \A q \in Procs : q # p => pc'[q] = pc[q] /\ held'[q] = held[q]
      /\ Fresh(p)' /\ Unborn(p)'
  BY CloseAllMoves
<1>4. ASSUME NEW f \in FileNos
      PROVE  /\ file'[f].ref = file[f].ref - (Desc(ofile[p], f) + Hands(held[p], f))
                               + (Desc(ofile'[p], f) + Hands(held'[p], f))
             /\ file'[f].ref = 0 => file'[f] = NoFile
  <2>1. Desc(ofile'[p], f) = Desc(ofile[p], f) - (IF h = f THEN 1 ELSE 0)
                             + (IF 0 = f THEN 1 ELSE 0)
    <3> DEFINE z == 0
    <3>1. z \in FileNos \cup {0}
      OBVIOUS
    <3> HIDE DEF z
    <3>2. Desc([ofile[p] EXCEPT ![fd] = z], f)
          = Desc(ofile[p], f) - (IF ofile[p][fd] = f THEN 1 ELSE 0) + (IF z = f THEN 1 ELSE 0)
      <4> DEFINE row == ofile[p]
      <4>1. row \in Rows
        BY <1>1
      <4> HIDE DEF row, h
      <4>2. Desc([row EXCEPT ![fd] = z], f)
            = Desc(row, f) - (IF row[fd] = f THEN 1 ELSE 0) + (IF z = f THEN 1 ELSE 0)
        BY <3>1, <4>1, DescSet
      <4> QED BY <4>2 DEF row
    <3> QED BY <1>2, <3>2 DEF z
  <2>2. 0 # f /\ Hands(held[p], f) = 0 /\ Hands(held'[p], f) = (IF h = f THEN 1 ELSE 0)
    BY <1>1, <1>3, NotZero, HandsAre
  <2>3. file[f].ref \in Nat /\ Desc(ofile[p], f) \in Nat
    BY HasNat, Shape DEF FileType
  <2>4. file'[f].ref = 0 => file'[f] = NoFile
    BY DEF RefsInv, FreeOK
  <2> HIDE DEF h
  <2> QED BY <2>1, <2>2, <2>3, <2>4
<1> QED BY <1>2, <1>3, <1>4, RefsOf

LEMMA CloseRefs ==
  ASSUME RingInv, RingInv', RefsInv, NEW p \in Procs, NEW fd \in Fds, Close(p, fd)
  PROVE  RefsInv'
<1>1. Calls(p) /\ held[p] = << >> /\ call[p].op \notin {"read", "write"}
  BY CallsControl DEF Close, RingInv
<1> QED BY <1>1, DropFd DEF Close

LEMMA ExitRefs ==
  ASSUME RingInv, RingInv', RefsInv, NEW p \in Procs, Exit(p)
  PROVE  RefsInv'
<1>1. /\ pc[p] \in {"user", "exit"} /\ held[p] = << >> /\ call[p].op \notin {"read", "write"}
      /\ file' = file /\ call' = call
  BY DEF Exit, RingInv, Control
<1>2. CASE FreeFds(p) # Fds
  <2> DEFINE fd == Lowest(Fds \ FreeFds(p))
  <2>1. fd \in Fds /\ ofile[p][fd] # 0
    <3>1. Fds \ FreeFds(p) \in SUBSET Fds /\ Fds \ FreeFds(p) # {}
      BY <1>2 DEF FreeFds
    <3> QED BY <3>1, FirstFd DEF FreeFds
  <2>2. ofile' = [ofile EXCEPT ![p][fd] = 0] /\ CloseAll(p, <<ofile[p][fd]>>, "exit")
    BY <1>2 DEF Exit
  <2> HIDE DEF fd
  <2> QED BY <1>1, <2>1, <2>2, DropFd
<1>3. CASE FreeFds(p) = Fds
  <2>1. ofile' = ofile /\ CloseAll(p, << >>, "unused")
    BY <1>3 DEF Exit
  <2>2. /\ held'[p] = << >> /\ \A q \in Procs : q # p => pc'[q] = pc[q] /\ held'[q] = held[q]
        /\ Fresh(p)'
    BY <2>1, CloseAllMoves
  <2>3. Unborn(p)'
    BY <1>3, <2>1 DEF Unborn, FreeFds
  <2>4. ASSUME NEW f \in FileNos
        PROVE  /\ file'[f].ref = file[f].ref - (Desc(ofile[p], f) + Hands(held[p], f))
                                 + (Desc(ofile'[p], f) + Hands(held'[p], f))
               /\ file'[f].ref = 0 => file'[f] = NoFile
    <3>1. file[f].ref \in Nat /\ Desc(ofile[p], f) \in Nat /\ Hands(held[p], f) \in Nat
      BY HasNat, Shape DEF FileType
    <3> QED BY <1>1, <2>1, <2>2, <3>1 DEF RefsInv, FreeOK
  <2> QED BY <1>1, <2>1, <2>2, <2>3, <2>4, RefsOf
<1> QED BY <1>2, <1>3

LEMMA PipeFile0Refs ==
  ASSUME RingInv, RingInv', RefsInv, NEW p \in Procs, PipeFile0(p)
  PROVE  RefsInv'
<1> DEFINE g == Lowest(FreeFiles)
<1>1. /\ Calls(p) /\ FreeFiles # {} /\ file' = Filealloc /\ call' = call /\ ofile' = ofile
      /\ held' = [held EXCEPT ![p] = <<g>>] /\ pc' = [pc EXCEPT ![p] = "file"]
  BY DEF PipeFile0, Goto
<1>2. held[p] = << >> /\ call[p].op \notin {"read", "write"}
  BY <1>1, CallsControl DEF RingInv
<1>3. g \in FileNos /\ file'[g] = [NoFile EXCEPT !.ref = 1]
  BY <1>1, FileallocIs
<1>4. ASSUME NEW f \in FileNos
      PROVE  /\ file'[f].ref = file[f].ref + (IF g = f THEN 1 ELSE 0)
             /\ file'[f].ref = 0 => file'[f] = NoFile
             /\ file'[f] = file[f] \/ Has(p, f) >= file[f].ref
             /\ file[f].ref \in Nat /\ Desc(ofile[p], f) \in Nat
             /\ Hands(held[p], f) = 0 /\ Hands(<<g>>, f) = IF g = f THEN 1 ELSE 0
  BY <1>1, <1>2, <1>3, TakenRefs, HasNat, HandsAre
<1> HIDE DEF g
<1>5. /\ held'[p] = <<g>> /\ pc'[p] = "file"
      /\ \A q \in Procs : q # p => pc'[q] = pc[q] /\ held'[q] = held[q]
  BY <1>1, Split DEF TablesOK
<1>6. Fresh(p)' /\ Unborn(p)'
  <2>1. \A i \in 1..Len(<<g>>) : <<g>>[i] = g
    OBVIOUS
  <2> QED BY <1>3, <1>5, <2>1 DEF Fresh, Unborn
<1>7. ASSUME NEW f \in FileNos
      PROVE  file'[f].ref = file[f].ref - (Desc(ofile[p], f) + Hands(held[p], f))
                            + (Desc(ofile'[p], f) + Hands(held'[p], f))
  BY <1>1, <1>4, <1>5
<1> QED BY <1>1, <1>2, <1>4, <1>5, <1>6, <1>7, RefsOf

LEMMA HeldIs ==
  ASSUME NEW s \in Short
  PROVE  /\ Len(s) = 1 => s = <<s[1]>> /\ s[1] \in FileNos
         /\ Len(s) = 2 => s = <<s[1], s[2]>> /\ s[1] \in FileNos /\ s[2] \in FileNos
BY DEF Short

LEMMA AppendOne ==
  ASSUME NEW S, NEW a \in S, NEW g \in S
  PROVE  Append(<<a>>, g) = <<a, g>>
<1> DEFINE s == <<a>>
<1>1. s \in Seq(S) /\ Len(s) = 1 /\ s[1] = a
  OBVIOUS
<1> HIDE DEF s
<1> DEFINE t == Append(s, g)
<1>2. /\ t \in Seq(S) /\ Len(t) = Len(s) + 1
      /\ \A i \in 1..Len(s) : t[i] = s[i]
      /\ t[Len(s) + 1] = g
  BY ZenonT(60), <1>1, AppendProperties
<1> HIDE DEF t
<1>3. t \in Seq(S) /\ Len(t) = 2 /\ t[1] = a /\ t[2] = g
  BY <1>1, <1>2
<1>4. t = <<a, g>>
  BY <1>3, SeqEqual
<1> QED BY <1>4 DEF s, t

\* fileclose for the files that pipealloc has taken.
LEMMA GiveUpRefs ==
  ASSUME RingInv, RefsInv, NEW p \in Procs, CloseAll(p, held[p], "user"), call' = call,
         UNCHANGED <<file, ofile>>
  PROVE  RefsInv'
<1>1. held \in [Procs -> Short]
  BY Shape
<1>2. held' = held
  BY <1>1, CloseAllIs
<1>3. \A q \in Procs : pc'[q] \in {"file", "page", "unused"} => pc'[q] = pc[q]
  BY CloseAllMoves
<1> QED BY <1>2, <1>3, RefsQuiet

LEMMA NoPageRefs ==
  ASSUME RingInv, RefsInv, NEW p \in Procs, NoPage(p)
  PROVE  RefsInv'
BY GiveUpRefs DEF NoPage

LEMMA PipeFile1Refs ==
  ASSUME RingInv, RingInv', RefsInv, NEW p \in Procs, PipeFile1(p)
  PROVE  RefsInv'
<1> DEFINE g == Lowest(FreeFiles)
<1> DEFINE a == held[p][1]
<1>1. pc[p] = "file" /\ call' = call /\ ofile' = ofile
  BY DEF PipeFile1
<1>2. CASE FreeFiles = {}
  BY <1>1, <1>2, GiveUpRefs DEF PipeFile1
<1>3. CASE FreeFiles # {}
  <2>1. /\ file' = Filealloc /\ held' = [held EXCEPT ![p] = Append(held[p], g)]
        /\ pc' = [pc EXCEPT ![p] = "page"]
    BY <1>3 DEF PipeFile1, Goto
  <2>2. /\ held[p] = <<a>> /\ a \in FileNos /\ call[p].op \notin {"read", "write"}
        /\ held \in [Procs -> Short]
    <3>1. Len(held[p]) = 1 /\ call[p].op \notin {"read", "write"}
      BY <1>1 DEF RingInv, Control
    <3> QED BY <3>1, Shape, HeldIs
  <2>3. g \in FileNos /\ file[g] = NoFile /\ file'[g] = [NoFile EXCEPT !.ref = 1]
        /\ \A f \in FileNos : f # g => file'[f] = file[f]
    BY <1>3, <2>1, FileallocIs
  <2>4. file[a] = [NoFile EXCEPT !.ref = 1]
    <3>1. Fresh(p) /\ 1 \in 1..Len(<<a>>)
      BY DEF RefsInv
    <3> HIDE DEF g
    <3> QED BY <1>1, <2>2, <3>1 DEF Fresh
  <2>5. ASSUME NEW f \in FileNos
        PROVE  /\ file'[f].ref = file[f].ref + (IF g = f THEN 1 ELSE 0)
               /\ file'[f].ref = 0 => file'[f] = NoFile
               /\ file'[f] = file[f] \/ Has(p, f) >= file[f].ref
               /\ file[f].ref \in Nat /\ Desc(ofile[p], f) \in Nat
    BY <1>3, <2>1, TakenRefs, HasNat
  <2> HIDE DEF g, a
  <2>6. a # g
    <3>1. file[a].ref = 1 /\ file[g].ref = 0
      BY <2>3, <2>4 DEF NoFile
    <3> QED BY <3>1
  <2>7. /\ held'[p] = <<a, g>> /\ pc'[p] = "page"
        /\ \A q \in Procs : q # p => pc'[q] = pc[q] /\ held'[q] = held[q]
    <3>1. Append(<<a>>, g) = <<a, g>>
      BY <2>2, <2>3, AppendOne
    <3> QED BY <2>1, <2>2, <3>1, Split DEF TablesOK
  <2>8. Fresh(p)' /\ Unborn(p)'
    <3>1. ASSUME NEW i \in 1..Len(<<a, g>>)
          PROVE  file'[<<a, g>>[i]] = [NoFile EXCEPT !.ref = 1]
      <4>1. <<a, g>>[i] = a \/ <<a, g>>[i] = g
        OBVIOUS
      <4> QED BY <2>2, <2>3, <2>4, <2>6, <4>1
    <3> QED BY <2>7, <3>1 DEF Fresh, Unborn
  <2>9. ASSUME NEW f \in FileNos
        PROVE  file'[f].ref = file[f].ref - (Desc(ofile[p], f) + Hands(held[p], f))
                              + (Desc(ofile'[p], f) + Hands(held'[p], f))
    <3>1. /\ Hands(held[p], f) = (IF a = f THEN 1 ELSE 0)
          /\ Hands(held'[p], f) = (IF a = f THEN 1 ELSE 0) + (IF g = f THEN 1 ELSE 0)
      BY <2>2, <2>3, <2>7, HandsAre
    <3> QED BY <1>1, <2>5, <3>1
  <2> QED BY <1>1, <2>2, <2>5, <2>7, <2>8, <2>9, RefsOf
<1> QED BY <1>2, <1>3

LEMMA ForkRefs ==
  ASSUME RingInv, RingInv', RefsInv, NEW p \in Procs, NEW q \in Procs, Fork(p, q)
  PROVE  RefsInv'
<1>1. /\ pc[p] = "user" /\ pc[q] = "unused" /\ file' = Dupped(p, Fds)
      /\ ofile' = [ofile EXCEPT ![q] = ofile[p]] /\ pc' = [pc EXCEPT ![q] = "user"]
      /\ call' = call /\ held' = held
  BY DEF Fork, Goto, Calls
<1>2. p # q /\ ofile \in [Procs -> Rows] /\ pc \in [Procs -> Pcs] /\ ofile[p] \in Rows
      /\ ofile[q] \in Rows
  BY <1>1, Shape, Split DEF TablesOK
<1>3. /\ held[q] = << >> /\ call[q].op \notin {"read", "write"}
      /\ call[p].op \notin {"read", "write"} /\ \A fd \in Fds : ofile[q][fd] = 0
  BY <1>1 DEF RingInv, RefsInv, Control, Unborn
<1>4. /\ ofile'[q] = ofile[p] /\ pc'[q] = "user"
      /\ \A r \in Procs : r # q => ofile'[r] = ofile[r] /\ pc'[r] = pc[r]
  BY <1>1, <1>2
<1>5. ASSUME NEW f \in FileNos
      PROVE  /\ Desc(ofile[p], f) \in Nat /\ file[f].ref \in Nat
             /\ file'[f].ref = file[f].ref + Desc(ofile[p], f)
             /\ file'[f].pipe = file[f].pipe /\ file'[f].writable = file[f].writable
             /\ Desc(ofile[p], f) = 0 => file'[f] = file[f]
  BY <1>1, DuppedIs, Shape DEF Desc, FileType
<1>6. ASSUME NEW f \in FileNos
      PROVE  file'[f].ref = file[f].ref - (Desc(ofile[q], f) + Hands(held[q], f))
                            + (Desc(ofile'[q], f) + Hands(held'[q], f))
  <2>1. Desc(ofile[q], f) = 0
    <3>1. ~ (Desc(ofile[q], f) >= 1)
      BY <1>2, <1>3, DescHas, NotZero
    <3> QED BY <3>1, HasNat
  <2>2. Hands(held[q], f) = 0 /\ Hands(held'[q], f) = 0
    BY <1>1, <1>3, HandsAre
  <2> QED BY <1>4, <1>5, <2>1, <2>2
<1>7. RefsCounted'
  <2>1. \A r \in Procs : r # q => ofile'[r] = ofile[r] /\ held'[r] = held[r]
    BY <1>1, <1>4
  <2> QED BY <1>6, <2>1, RefsStep DEF RefsInv
<1>8. FreeOK'
  <2>1. ASSUME NEW f \in FileNos, file'[f].ref = 0
        PROVE  file'[f] = NoFile
    <3>1. Desc(ofile[p], f) = 0 /\ file[f].ref = 0
      BY <1>5, <2>1
    <3> QED BY <1>5, <3>1 DEF RefsInv, FreeOK
  <2> QED BY <2>1 DEF FreeOK
<1>9. ASSUME NEW r \in Procs
      PROVE  Fresh(r)' /\ HasDesc(r)' /\ Unborn(r)'
  <2>1. CASE r \in {p, q}
    BY <1>1, <1>2, <1>3, <1>4, <2>1 DEF Fresh, HasDesc, Unborn
  <2>2. CASE r \notin {p, q}
    <3>1. ASSUME NEW f \in FileNos, Has(r, f) >= 1
          PROVE  file[f].ref = 1 => file'[f] = file[f]
      <4>1. /\ Has(r, f) + Has(p, f) <= file[f].ref /\ Has(r, f) \in Nat
            /\ Desc(ofile[p], f) \in Nat /\ Hands(held[p], f) \in Nat
            /\ Has(p, f) = Desc(ofile[p], f) + Hands(held[p], f)
        BY <2>2, HasRefs, HasNat DEF RefsInv, Has
      <4>2. file[f].ref = 1 => Desc(ofile[p], f) = 0
        BY <3>1, <4>1
      <4> QED BY <1>5, <4>2
    <3>2. pc'[r] = pc[r] /\ call'[r] = call[r] /\ ofile'[r] = ofile[r] /\ held'[r] = held[r]
      BY <1>1, <1>4, <2>2
    <3> QED BY <1>5, <3>1, <3>2, OthersKept
  <2> QED BY <2>1, <2>2
<1> QED BY <1>7, <1>8, <1>9 DEF RefsInv

\* The file that fileclose is at, and the one after it.
LEMMA ClosingFile ==
  ASSUME RingInv, RefsInv, NEW p \in Procs, pc[p] = "close"
  PROVE  LET f == Head(held[p])
         IN  /\ f \in FileNos /\ file[f].ref \in Nat /\ file[f].ref # 0 /\ Has(p, f) >= 1
             /\ Tail(held[p]) \in Short
             /\ \A x \in FileNos :
                  Hands(held[p], x) = (IF f = x THEN 1 ELSE 0) + Hands(Tail(held[p]), x)
<1> DEFINE s == held[p]
<1> DEFINE f == s[1]
<1>1. Len(s) \in {1, 2} /\ s \in Short
  BY Shape DEF RingInv, Control
<1>2. /\ Head(s) = f /\ f \in FileNos /\ Tail(s) \in Short
      /\ \A x \in FileNos : Hands(s, x) = (IF f = x THEN 1 ELSE 0) + Hands(Tail(s), x)
  <2> HIDE DEF s
  <2>1. CASE Len(s) = 1
    <3>1. s = <<f>> /\ f \in FileNos
      BY <1>1, <2>1, HeldIs
    <3> HIDE DEF f
    <3>2. Head(s) = f /\ Tail(s) = << >>
      BY <3>1
    <3>3. \A x \in FileNos : Hands(s, x) = (IF f = x THEN 1 ELSE 0) /\ Hands(Tail(s), x) = 0
      BY <3>1, <3>2, HandsAre
    <3> QED BY <3>1, <3>2, <3>3 DEF Short
  <2>2. CASE Len(s) = 2
    <3> DEFINE h == s[2]
    <3>1. s = <<f, h>> /\ f \in FileNos /\ h \in FileNos
      BY <1>1, <2>2, HeldIs
    <3> HIDE DEF f, h
    <3>2. Head(s) = f /\ Tail(s) = <<h>>
      BY <3>1
    <3>3. \A x \in FileNos : /\ Hands(s, x) = (IF f = x THEN 1 ELSE 0) + (IF h = x THEN 1 ELSE 0)
                             /\ Hands(Tail(s), x) = (IF h = x THEN 1 ELSE 0)
      BY <3>1, <3>2, HandsAre
    <3> QED BY <3>1, <3>2, <3>3 DEF Short
  <2> QED BY <1>1, <2>1, <2>2
<1> HIDE DEF f
<1>3. Has(p, f) >= 1
  <2>1. Hands(s, f) = 1 + Hands(Tail(s), f) /\ Hands(Tail(s), f) \in Nat
    BY <1>2, HandsAre
  <2> QED BY <1>2, <2>1, HasNat DEF Has
<1>4. file[f].ref \in Nat /\ file[f].ref # 0
  <2>1. Has(p, f) <= file[f].ref /\ file[f].ref \in Nat /\ Has(p, f) \in Nat
    BY <1>2, HasRefs, HasNat DEF RefsInv
  <2> QED BY <1>3, <2>1
<1> QED BY <1>2, <1>3, <1>4

LEMMA FilecloseRefs ==
  ASSUME RingInv, RingInv', RefsInv, NEW p \in Procs, Fileclose(p)
  PROVE  RefsInv'
<1> DEFINE f == Head(held[p])
<1> DEFINE e == IF file[f].ref = 1 THEN NoFile ELSE [file[f] EXCEPT !.ref = file[f].ref - 1]
<1>1. pc[p] = "close" /\ ofile' = ofile
  BY DEF Fileclose
<1>2. /\ f \in FileNos /\ file[f].ref \in Nat /\ file[f].ref # 0 /\ Has(p, f) >= 1
      /\ Tail(held[p]) \in Short
      /\ \A x \in FileNos :
           Hands(held[p], x) = (IF f = x THEN 1 ELSE 0) + Hands(Tail(held[p]), x)
  BY <1>1, ClosingFile
<1>3. /\ file' = [file EXCEPT ![f] = e] /\ held'[p] = Tail(held[p])
      /\ \A q \in Procs : q # p => /\ pc'[q] = pc[q] /\ call'[q] = call[q]
                                   /\ ofile'[q] = ofile[q] /\ held'[q] = held[q]
      /\ Fresh(p)' /\ Unborn(p)' /\ call'[p].op \notin {"read", "write"}
  <2>0. call[p].op \notin {"read", "write"} /\ after[p] \in {"user", "exit"}
        /\ pc \in [Procs -> Pcs] /\ held \in [Procs -> Short] /\ call \in [Procs -> Requests]
    BY <1>1, Shape, Split DEF Control, TablesOK
  <2>1. CASE file[f].ref = 1 /\ file[f].pipe # 0
    <3> DEFINE c == [op |-> "close", pipe |-> file[f].pipe, writable |-> file[f].writable]
    <3>1. /\ file' = [file EXCEPT ![f] = NoFile] /\ held' = [held EXCEPT ![p] = Tail(held[p])]
          /\ call' = [call EXCEPT ![p] = c]
          /\ pc' = [pc EXCEPT ![p] = "pipeclose"]
      BY <2>1 DEF Fileclose, Goto
    <3>2. c.op = "close"
      OBVIOUS
    <3> HIDE DEF c
    <3>3. pc'[p] = "pipeclose" /\ call'[p] = c
      BY <2>0, <3>1
    <3>4. Fresh(p)' /\ Unborn(p)'
      BY <3>3 DEF Fresh, Unborn
    <3>5. e = NoFile
      BY <2>1
    <3> HIDE DEF f, e
    <3> QED BY <1>1, <2>0, <3>1, <3>2, <3>3, <3>4, <3>5
  <2>2. CASE ~ (file[f].ref = 1 /\ file[f].pipe # 0)
    <3>1. file' = [file EXCEPT ![f] = e] /\ call' = call /\ CloseAll(p, Tail(held[p]), after[p])
      BY <2>2 DEF Fileclose
    <3> HIDE DEF f, e
    <3>2. /\ held'[p] = Tail(held[p])
          /\ \A q \in Procs : q # p => pc'[q] = pc[q] /\ held'[q] = held[q]
          /\ Fresh(p)' /\ Unborn(p)'
      BY <2>0, <3>1, CloseAllMoves
    <3> QED BY <1>1, <2>0, <3>1, <3>2
  <2> QED BY <2>1, <2>2
<1>4. file \in [FileNos -> FileType]
  BY Shape
<1>5. /\ e.ref = file[f].ref - 1
      /\ file[f].ref # 1 => e.pipe = file[f].pipe /\ e.writable = file[f].writable
      /\ file[f].ref = 1 => e = NoFile
  <2>1. CASE file[f].ref = 1
    BY <2>1 DEF NoFile
  <2>2. CASE file[f].ref # 1
    BY <1>2, <1>4, <2>2 DEF FileType
  <2> QED BY <2>1, <2>2
<1> HIDE DEF e, f
<1>6. ASSUME NEW x \in FileNos
      PROVE  /\ file'[x].ref = file[x].ref - (Desc(ofile[p], x) + Hands(held[p], x))
                               + (Desc(ofile'[p], x) + Hands(held'[p], x))
             /\ file'[x].ref = 0 => file'[x] = NoFile
             /\ \/ file'[x] = file[x]
                \/ /\ file'[x].pipe = file[x].pipe /\ file'[x].writable = file[x].writable
                   /\ file[x].ref = 1 => Has(p, x) >= 1
                \/ Has(p, x) >= file[x].ref
  <2>1. /\ Desc(ofile[p], x) \in Nat /\ file[x].ref \in Nat
        /\ Hands(Tail(held[p]), x) \in Nat
    BY <1>2, <1>4, HasNat, HandsAre DEF FileType
  <2>2. Hands(held[p], x) = (IF f = x THEN 1 ELSE 0) + Hands(Tail(held[p]), x)
    BY <1>2
  <2>3. CASE x = f
    <3>1. file'[x] = e
      BY <1>2, <1>3, <1>4, <2>3
    <3>2. file'[x].ref = file[x].ref - (Desc(ofile[p], x) + Hands(held[p], x))
                         + (Desc(ofile'[p], x) + Hands(held'[p], x))
      BY <1>1, <1>3, <1>5, <2>1, <2>2, <2>3, <3>1
    <3>3. file'[x].ref = 0 => file'[x] = NoFile
      BY <1>5, <2>1, <2>3, <3>1
    <3> QED BY <1>2, <1>5, <2>3, <3>1, <3>2, <3>3
  <2>4. CASE x # f
    <3>1. file'[x] = file[x]
      BY <1>2, <1>3, <1>4, <2>4
    <3>2. file'[x].ref = file[x].ref - (Desc(ofile[p], x) + Hands(held[p], x))
                         + (Desc(ofile'[p], x) + Hands(held'[p], x))
      BY <1>1, <1>3, <2>1, <2>2, <2>4, <3>1
    <3> QED BY <3>1, <3>2 DEF RefsInv, FreeOK
  <2> QED BY <2>3, <2>4
<1> QED BY <1>3, <1>6, RefsOf

\* The files of a new pipe are fresh, and two.
LEMMA FreshFiles ==
  ASSUME RingInv, RefsInv, NEW p \in Procs, pc[p] = "page"
  PROVE  LET h1 == held[p][1]
             h2 == held[p][2]
         IN  /\ held[p] = <<h1, h2>> /\ h1 \in FileNos /\ h2 \in FileNos /\ h1 # h2
             /\ file[h1] = [NoFile EXCEPT !.ref = 1] /\ file[h2] = [NoFile EXCEPT !.ref = 1]
             /\ Has(p, h1) = 1 /\ Has(p, h2) = 1
             /\ \A q \in Procs : q # p => Has(q, h1) = 0 /\ Has(q, h2) = 0
<1> DEFINE h1 == held[p][1]
<1> DEFINE h2 == held[p][2]
<1>1. held[p] = <<h1, h2>> /\ h1 \in FileNos /\ h2 \in FileNos
  <2>1. Len(held[p]) = 2
    BY DEF RingInv, Control
  <2> QED BY <2>1, Shape, HeldIs
<1> HIDE DEF h1, h2
<1>2. file[h1] = [NoFile EXCEPT !.ref = 1] /\ file[h2] = [NoFile EXCEPT !.ref = 1]
  <2>1. Fresh(p) /\ 1 \in 1..Len(<<h1, h2>>) /\ 2 \in 1..Len(<<h1, h2>>)
    BY DEF RefsInv
  <2> QED BY <1>1, <2>1 DEF Fresh
<1>3. file[h1].ref = 1 /\ file[h2].ref = 1
  BY <1>2 DEF NoFile
<1>4. ASSUME NEW x \in {h1, h2}
      PROVE  /\ Has(p, x) = 1 /\ h1 # h2
             /\ \A q \in Procs : q # p => Has(q, x) = 0
  <2>1. x \in FileNos /\ file[x].ref = 1
    BY <1>1, <1>3
  <2>2. Hands(held[p], x) = (IF h1 = x THEN 1 ELSE 0) + (IF h2 = x THEN 1 ELSE 0)
    BY <1>1, <2>1, HandsAre
  <2>3. /\ Has(p, x) = Desc(ofile[p], x) + Hands(held[p], x) /\ Desc(ofile[p], x) \in Nat
        /\ Has(p, x) <= 1
    BY <2>1, HasNat, HasRefs DEF Has, RefsInv
  <2>4. Has(p, x) = 1 /\ h1 # h2
    BY <2>2, <2>3
  <2>5. ASSUME NEW q \in Procs, q # p
        PROVE  Has(q, x) = 0
    <3>1. Has(p, x) + Has(q, x) <= file[x].ref /\ Has(q, x) \in Nat
      BY <2>1, <2>5, HasNat, HasRefs DEF RefsInv
    <3> QED BY <2>1, <2>4, <3>1
  <2> QED BY <2>4, <2>5
<1> QED BY <1>1, <1>2, <1>4 DEF h1, h2

LEMMA PipePageFiles ==
  ASSUME RingInv, RefsInv, NEW p \in Procs, PipePage(p)
  PROVE  \E k \in Pipes :
           /\ ~ pipe[k].used /\ pipe' = [pipe EXCEPT ![k] = NewPipe]
           /\ file'[held[p][1]] = [ref |-> 1, pipe |-> k, writable |-> FALSE]
           /\ file'[held[p][2]] = [ref |-> 1, pipe |-> k, writable |-> TRUE]
           /\ \A f \in FileNos : f # held[p][1] /\ f # held[p][2] => file'[f] = file[f]
<1> DEFINE h1 == held[p][1]
<1> DEFINE h2 == held[p][2]
<1>1. PICK k \in Pipes :
        /\ ~ pipe[k].used
        /\ pipe' = [pipe EXCEPT ![k] = NewPipe]
        /\ file' = [file EXCEPT ![h1].pipe = k, ![h2].pipe = k, ![h2].writable = TRUE]
  BY DEF PipePage
<1>2. /\ h1 \in FileNos /\ h2 \in FileNos /\ h1 # h2
      /\ file[h1] = [NoFile EXCEPT !.ref = 1] /\ file[h2] = [NoFile EXCEPT !.ref = 1]
  BY FreshFiles DEF PipePage
<1> HIDE DEF h1, h2
<1>3. /\ file'[h2] = [file[h2] EXCEPT !.pipe = k, !.writable = TRUE]
      /\ file'[h1] = [file[h1] EXCEPT !.pipe = k]
      /\ \A f \in FileNos : f # h1 /\ f # h2 => file'[f] = file[f]
  BY <1>1, <1>2, EndFiles, Split
<1>4. /\ file'[h1] = [ref |-> 1, pipe |-> k, writable |-> FALSE]
      /\ file'[h2] = [ref |-> 1, pipe |-> k, writable |-> TRUE]
  BY <1>2, <1>3 DEF NoFile
<1> QED BY <1>1, <1>3, <1>4 DEF h1, h2

LEMMA PipePageRefs ==
  ASSUME RingInv, RingInv', RefsInv, NEW p \in Procs, PipePage(p)
  PROVE  RefsInv'
<1> DEFINE h1 == held[p][1]
<1> DEFINE h2 == held[p][2]
<1>1. pc[p] = "page" /\ call' = call /\ call[p].op \notin {"read", "write"}
      /\ ofile \in [Procs -> Rows] /\ ofile[p] \in Rows
  BY Shape DEF PipePage, RingInv, Control
<1>2. /\ held[p] = <<h1, h2>> /\ h1 \in FileNos /\ h2 \in FileNos /\ h1 # h2
      /\ file[h1] = [NoFile EXCEPT !.ref = 1] /\ file[h2] = [NoFile EXCEPT !.ref = 1]
      /\ Has(p, h1) = 1 /\ Has(p, h2) = 1
  BY <1>1, FreshFiles
<1>3. PICK k \in Pipes :
        /\ file'[h1] = [ref |-> 1, pipe |-> k, writable |-> FALSE]
        /\ file'[h2] = [ref |-> 1, pipe |-> k, writable |-> TRUE]
        /\ \A f \in FileNos : f # h1 /\ f # h2 => file'[f] = file[f]
  BY PipePageFiles
<1> HIDE DEF h1, h2
<1>4. file[h1].ref = 1 /\ file[h2].ref = 1
  BY <1>2 DEF NoFile
<1>8. file'[h1].ref = 1 /\ file'[h2].ref = 1
  BY <1>3
<1>9. Has(p, h1) = 1 /\ Has(p, h2) = 1
  BY <1>2
<1>5. ASSUME NEW f \in FileNos
      PROVE  /\ file'[f].ref = file[f].ref /\ file[f].ref \in Nat
             /\ file'[f].ref = 0 => file'[f] = NoFile
             /\ file'[f] = file[f] \/ Has(p, f) >= file[f].ref
             /\ Desc(ofile[p], f) \in Nat
             /\ Hands(held[p], f) = (IF h1 = f THEN 1 ELSE 0) + (IF h2 = f THEN 1 ELSE 0)
  <2>1. Desc(ofile[p], f) \in Nat /\ file[f].ref \in Nat
        /\ Hands(held[p], f) = (IF h1 = f THEN 1 ELSE 0) + (IF h2 = f THEN 1 ELSE 0)
    BY <1>2, HasNat, HandsAre, Shape DEF FileType
  <2>2. CASE f \in {h1, h2}
    <3>1. file'[f].ref = 1 /\ file[f].ref = 1 /\ Has(p, f) = 1
      BY <1>4, <1>8, <1>9, <2>2
    <3> QED BY <2>1, <3>1
  <2>3. CASE f \notin {h1, h2}
    <3>1. file'[f] = file[f]
      BY <1>3, <2>3
    <3> QED BY <2>1, <3>1 DEF RefsInv, FreeOK
  <2> QED BY <2>2, <2>3
<1>6. CASE Cardinality(FreeFds(p)) >= 2
  <2> DEFINE fd0 == Lowest(FreeFds(p))
  <2> DEFINE fd1 == Lowest(FreeFds(p) \ {fd0})
  <2>1. FreeFds(p) # {} /\ FreeFds(p) \ {fd0} # {}
    <3>1. FreeFds(p) # {}
      BY <1>6, FS_EmptySet
    <3>2. FreeFds(p) # {fd0}
      <4>1. Cardinality({fd0}) = 1
        BY FS_Singleton
      <4> QED BY <1>6, <4>1
    <3> QED BY <3>1, <3>2
  <2>2. /\ fd0 \in Fds /\ ofile[p][fd0] = 0
        /\ fd1 \in Fds /\ ofile[p][fd1] = 0 /\ fd1 # fd0
    <3>1. FreeFds(p) \ {fd0} \in SUBSET Fds
      BY DEF FreeFds
    <3>2. fd1 \in FreeFds(p) \ {fd0} /\ fd1 \in Fds
      BY <2>1, <3>1, FirstFd
    <3> QED BY <2>1, <3>2, FirstFreeFd DEF FreeFds
  <2>3. ofile' = [ofile EXCEPT ![p][fd0] = h1, ![p][fd1] = h2] /\ CloseAll(p, << >>, "user")
    BY <1>6 DEF PipePage, h1, h2
  <2> HIDE DEF fd0, fd1
  <2> DEFINE row == [ofile[p] EXCEPT ![fd0] = h1]
  <2>4. /\ ofile'[p] = [row EXCEPT ![fd1] = h2]
        /\ \A q \in Procs : q # p => ofile'[q] = ofile[q]
    BY <1>1, <2>3
  <2>5. /\ held'[p] = << >>
        /\ \A q \in Procs : q # p => pc'[q] = pc[q] /\ held'[q] = held[q]
        /\ Fresh(p)' /\ Unborn(p)'
    BY <2>3, CloseAllMoves
  <2>6. row \in Rows /\ row[fd1] = 0
    BY <1>1, <1>2, <2>2 DEF Rows
  <2>7. ASSUME NEW f \in FileNos
        PROVE  file'[f].ref = file[f].ref - (Desc(ofile[p], f) + Hands(held[p], f))
                              + (Desc(ofile'[p], f) + Hands(held'[p], f))
    <3>1. Desc(row, f) = Desc(ofile[p], f) - (IF ofile[p][fd0] = f THEN 1 ELSE 0)
                         + (IF h1 = f THEN 1 ELSE 0)
      BY <1>1, <1>2, <2>2, DescSet
    <3> HIDE DEF row
    <3>2. Desc(ofile'[p], f) = Desc(row, f) - (IF row[fd1] = f THEN 1 ELSE 0)
                               + (IF h2 = f THEN 1 ELSE 0)
      BY <1>2, <2>2, <2>4, <2>6, DescSet
    <3>3. ofile[p][fd0] # f /\ row[fd1] # f
      BY <2>2, <2>6, NotZero
    <3>4. Hands(held'[p], f) = 0
      BY <2>5, HandsAre
    <3> QED BY <1>5, <3>1, <3>2, <3>3, <3>4
  <2>8. \A q \in Procs : q # p => /\ pc'[q] = pc[q] /\ call'[q] = call[q]
                                  /\ ofile'[q] = ofile[q] /\ held'[q] = held[q]
    BY <1>1, <2>4, <2>5
  <2>9. call'[p].op \notin {"read", "write"}
    BY <1>1
  <2> QED BY <1>5, <2>5, <2>7, <2>8, <2>9, RefsOf
<1>7. CASE ~ (Cardinality(FreeFds(p)) >= 2)
  <2>1. ofile' = ofile /\ CloseAll(p, held[p], "user")
    BY <1>7 DEF PipePage
  <2>2. /\ held'[p] = held[p]
        /\ \A q \in Procs : q # p => pc'[q] = pc[q] /\ held'[q] = held[q]
        /\ Fresh(p)' /\ Unborn(p)'
    BY <2>1, CloseAllMoves
  <2>3. ASSUME NEW f \in FileNos
        PROVE  file'[f].ref = file[f].ref - (Desc(ofile[p], f) + Hands(held[p], f))
                              + (Desc(ofile'[p], f) + Hands(held'[p], f))
    BY <1>5, <2>1, <2>2
  <2>4. \A q \in Procs : q # p => /\ pc'[q] = pc[q] /\ call'[q] = call[q]
                                  /\ ofile'[q] = ofile[q] /\ held'[q] = held[q]
    BY <1>1, <2>1, <2>2
  <2>5. call'[p].op \notin {"read", "write"}
    BY <1>1
  <2> QED BY <1>5, <2>2, <2>3, <2>4, <2>5, RefsOf
<1> QED BY <1>6, <1>7

\* The steps that wake somebody.
LEMMA WokenPcs ==
  ASSUME RingInv, NEW k, NEW l \in {"read", "write"}, NEW q \in Procs,
         Woken(k, l)[q] \in {"file", "page", "unused"}
  PROVE  Woken(k, l)[q] = pc[q]
<1>1. /\ Control(q)
      /\ \/ Woken(k, l)[q] = pc[q]
         \/ pc[q] \in {"readsleep", "writesleep"} /\ Woken(k, l)[q] = call[q].op
  BY WokenIs, Split
<1> QED BY <1>1 DEF Control

LEMMA PipecloseRefs ==
  ASSUME RingInv, RefsInv, NEW p \in Procs, Pipeclose(p)
  PROVE  RefsInv'
<1> DEFINE k == call[p].pipe
<1> DEFINE w == call[p].writable
<1> DEFINE next == IF held[p] = << >> THEN after[p] ELSE "close"
<1>1. /\ pc[p] = "pipeclose" /\ pc' = [Told(k, w) EXCEPT ![p] = next]
      /\ call' = [call EXCEPT ![p] = NoCall] /\ UNCHANGED <<file, ofile, held>>
  BY DEF Pipeclose
<1>2. next \in {"user", "exit", "close"} /\ call \in [Procs -> Requests]
  BY Split DEF TablesOK
<1> HIDE DEF next, k, w
<1>3. ASSUME NEW q \in Procs, pc'[q] \in {"file", "page", "unused"}
      PROVE  pc'[q] = pc[q]
  <2> DEFINE l == IF w THEN "read" ELSE "write"
  <2>1. Told(k, w) = Woken(k, l) /\ l \in {"read", "write"}
    BY DEF Told
  <2> HIDE DEF l
  <2>2. Woken(k, l) \in [Procs -> Pcs]
    BY <2>1, WokenIs, Split
  <2>3. q # p /\ pc'[q] = Woken(k, l)[q]
    BY <1>1, <1>2, <1>3, <2>1, <2>2
  <2> QED BY <1>3, <2>1, <2>3, WokenPcs
<1>4. \A q \in Procs : call'[q].op \notin {"read", "write"} \/ call'[q] = call[q]
  BY <1>1, <1>2 DEF NoCall
<1> QED BY <1>1, <1>3, <1>4, RefsQuiet

LEMMA ReadRefs ==
  ASSUME RingInv, RefsInv, NEW p \in Procs, NEW fd \in Fds, NEW n \in Reads, Read(p, fd, n)
  PROVE  RefsInv'
<1>1. /\ HasEnd(p, fd, FALSE) /\ UNCHANGED <<file, ofile, held>> /\ pc' = [pc EXCEPT ![p] = "read"]
      /\ call' = [call EXCEPT ![p] = [op |-> "read", pipe |-> file[ofile[p][fd]].pipe, n |-> n]]
  BY DEF Read, Goto, tables
<1>2. pc \in [Procs -> Pcs] /\ call \in [Procs -> Requests]
  BY Split DEF TablesOK
<1>3. HasDesc(p)'
  <2>1. call'[p].op = "read" /\ call'[p].pipe = file'[ofile'[p][fd]].pipe /\ HasEnd(p, fd, FALSE)'
    BY <1>1, <1>2 DEF HasEnd
  <2> QED BY <2>1 DEF HasDesc
<1>4. \A q \in Procs : HasDesc(q)' \/ call'[q] = call[q]
  BY <1>1, <1>2, <1>3
<1>5. \A q \in Procs : pc'[q] \in {"file", "page", "unused"} => pc'[q] = pc[q]
  BY <1>1, <1>2
<1> QED BY <1>1, <1>4, <1>5, RefsQuiet

LEMMA WriteRefs ==
  ASSUME RingInv, RefsInv, NEW p \in Procs, NEW fd \in Fds, NEW s \in Writes, Write(p, fd, s)
  PROVE  RefsInv'
<1>1. /\ HasEnd(p, fd, TRUE) /\ UNCHANGED <<file, ofile, held>> /\ pc' = [pc EXCEPT ![p] = "write"]
      /\ call' = [call EXCEPT ![p] = [op |-> "write", pipe |-> file[ofile[p][fd]].pipe, bytes |-> s]]
  BY DEF Write, Goto, tables
<1>2. pc \in [Procs -> Pcs] /\ call \in [Procs -> Requests]
  BY Split DEF TablesOK
<1>3. HasDesc(p)'
  <2>1. call'[p].op = "write" /\ call'[p].pipe = file'[ofile'[p][fd]].pipe /\ HasEnd(p, fd, TRUE)'
    BY <1>1, <1>2 DEF HasEnd
  <2> QED BY <2>1 DEF HasDesc
<1>4. \A q \in Procs : HasDesc(q)' \/ call'[q] = call[q]
  BY <1>1, <1>2, <1>3
<1>5. \A q \in Procs : pc'[q] \in {"file", "page", "unused"} => pc'[q] = pc[q]
  BY <1>1, <1>2
<1> QED BY <1>1, <1>4, <1>5, RefsQuiet

LEMMA ReadWaitsRefs ==
  ASSUME RingInv, RefsInv, NEW p \in Procs, ReadWaits(p)
  PROVE  RefsInv'
<1>1. /\ UNCHANGED <<file, ofile, held>>
      /\ \E l \in {"user", "readsleep"} : pc' = [pc EXCEPT ![p] = l]
      /\ call' \in {call, [call EXCEPT ![p] = NoCall]}
  BY DEF ReadWaits, Return, Sleep, Goto, tables
<1>2. pc \in [Procs -> Pcs] /\ call \in [Procs -> Requests]
  BY Split DEF TablesOK
<1>3. \A q \in Procs : call'[q].op \notin {"read", "write"} \/ call'[q] = call[q]
  BY <1>1, <1>2 DEF NoCall
<1>4. \A q \in Procs : pc'[q] \in {"file", "page", "unused"} => pc'[q] = pc[q]
  BY <1>1, <1>2
<1> QED BY <1>1, <1>3, <1>4, RefsQuiet

\* p is woken, or goes on to l, and wakes others.
LEMMA WakingPcs ==
  ASSUME RingInv, NEW p \in Procs, NEW k, NEW m \in {"read", "write"},
         NEW l \in {"user", "writesleep"}, pc' = [Woken(k, m) EXCEPT ![p] = l]
  PROVE  \A q \in Procs : pc'[q] \in {"file", "page", "unused"} => pc'[q] = pc[q]
<1>1. Woken(k, m) \in [Procs -> Pcs]
  BY WokenIs, Split
<1>2. ASSUME NEW q \in Procs, pc'[q] \in {"file", "page", "unused"}
      PROVE  pc'[q] = pc[q]
  <2>1. q # p /\ pc'[q] = Woken(k, m)[q]
    BY <1>1, <1>2
  <2> QED BY <1>2, <2>1, WokenPcs
<1> QED BY <1>2

LEMMA PipereadRefs ==
  ASSUME RingInv, RefsInv, NEW p \in Procs, Piperead(p)
  PROVE  RefsInv'
<1>1. /\ UNCHANGED <<file, ofile, held>>
      /\ pc' = [Woken(call[p].pipe, "write") EXCEPT ![p] = "user"]
      /\ call' = [call EXCEPT ![p] = NoCall]
  BY DEF Piperead, tables
<1>2. call \in [Procs -> Requests]
  BY Split DEF TablesOK
<1>3. \A q \in Procs : call'[q].op \notin {"read", "write"} \/ call'[q] = call[q]
  BY <1>1, <1>2 DEF NoCall
<1>4. \A q \in Procs : pc'[q] \in {"file", "page", "unused"} => pc'[q] = pc[q]
  BY <1>1, WakingPcs
<1> QED BY <1>1, <1>3, <1>4, RefsQuiet

LEMMA PipewriteRefs ==
  ASSUME RingInv, RefsInv, NEW p \in Procs, Pipewrite(p)
  PROVE  RefsInv'
<1>1. /\ UNCHANGED <<file, ofile, held>>
      /\ pc' = [Woken(call[p].pipe, "read") EXCEPT ![p] = "user"]
      /\ call' = [call EXCEPT ![p] = NoCall]
  BY DEF Pipewrite, tables
<1>2. call \in [Procs -> Requests]
  BY Split DEF TablesOK
<1>3. \A q \in Procs : call'[q].op \notin {"read", "write"} \/ call'[q] = call[q]
  BY <1>1, <1>2 DEF NoCall
<1>4. \A q \in Procs : pc'[q] \in {"file", "page", "unused"} => pc'[q] = pc[q]
  BY <1>1, WakingPcs
<1> QED BY <1>1, <1>3, <1>4, RefsQuiet

\* What is left of a write.
LEMMA RestCall ==
  ASSUME RingInv, NEW p \in Procs, WriteWaits(p), ~ (~ pipe[call[p].pipe].readopen \/ killed[p])
  PROVE  /\ call'[p].op = "write" /\ call'[p].pipe = call[p].pipe
         /\ \A q \in Procs : q # p => call'[q] = call[q]
<1> DEFINE rest == SubSeq(call[p].bytes, Len(Fit(p)) + 1, Len(call[p].bytes))
<1>1. call' = [call EXCEPT ![p] = [call[p] EXCEPT !.bytes = rest]] /\ pc[p] = "write"
  BY DEF WriteWaits
<1>2. call \in [Procs -> Requests] /\ call[p].op = "write"
  BY <1>1, Split DEF TablesOK, Control
<1>3. call[p] \in [op : {"write"}, pipe : Pipes, bytes : Seq(Bytes)]
  BY <1>2 DEF Requests, NoCall
<1> HIDE DEF rest
<1> QED BY <1>1, <1>2, <1>3

LEMMA WriteWaitsRefs ==
  ASSUME RingInv, RefsInv, NEW p \in Procs, WriteWaits(p)
  PROVE  RefsInv'
<1>1. UNCHANGED <<file, ofile, held>>
  BY DEF WriteWaits, tables
<1>2. pc \in [Procs -> Pcs] /\ call \in [Procs -> Requests]
  BY Split DEF TablesOK
<1>3. CASE ~ pipe[call[p].pipe].readopen \/ killed[p]
  <2>1. pc' = [pc EXCEPT ![p] = "user"] /\ call' = [call EXCEPT ![p] = NoCall]
    BY <1>3 DEF WriteWaits, Return, Goto
  <2>2. \A q \in Procs : call'[q].op \notin {"read", "write"} \/ call'[q] = call[q]
    BY <1>2, <2>1 DEF NoCall
  <2>3. \A q \in Procs : pc'[q] \in {"file", "page", "unused"} => pc'[q] = pc[q]
    BY <1>2, <2>1
  <2> QED BY <1>1, <2>2, <2>3, RefsQuiet
<1>4. CASE ~ (~ pipe[call[p].pipe].readopen \/ killed[p])
  <2>1. pc' = [Woken(call[p].pipe, "read") EXCEPT ![p] = "writesleep"]
    BY <1>4 DEF WriteWaits
  <2>2. \A q \in Procs : call'[q].op = call[q].op /\ call'[q].pipe = call[q].pipe
    <3>1. pc[p] = "write"
      BY DEF WriteWaits
    <3>2. call[p].op = "write"
      BY <3>1, Split DEF Control
    <3> QED BY <1>4, <3>2, RestCall
  <2>3. \A q \in Procs : pc'[q] \in {"file", "page", "unused"} => pc'[q] = pc[q]
    BY <2>1, WakingPcs
  <2> QED BY <1>1, <2>2, <2>3, RefsQuiet
<1> QED BY <1>3, <1>4

LEMMA KillRefs ==
  ASSUME RingInv, RefsInv, NEW p \in Procs, Kill(p)
  PROVE  RefsInv'
<1>1. /\ UNCHANGED <<file, ofile, held, call>>
      /\ pc' = [pc EXCEPT ![p] = IF pc[p] \in {"readsleep", "writesleep"} THEN call[p].op ELSE pc[p]]
  BY DEF Kill, tables
<1>2. pc \in [Procs -> Pcs] /\ Control(p)
  BY Split DEF TablesOK
<1>3. \A q \in Procs : pc'[q] \in {"file", "page", "unused"} => pc'[q] = pc[q]
  BY <1>1, <1>2 DEF Control
<1> QED BY <1>1, <1>3, RefsQuiet

-----------------------------------------------------------------------------
(* The third layer: the open ends of pipes, and who sleeps.                *)

EndOpen(k, w) == IF w THEN pipe[k].writeopen ELSE pipe[k].readopen
Stands(k, w)  == (\E f \in FileNos : IsEnd(f, k, w)) \/ (\E p \in Procs : Closes(p, k, w))

\* What EndsInv says besides what follows from the other layers.
Ends ==
  /\ \A k \in Pipes, w \in BOOLEAN : EndOpen(k, w) <=> Stands(k, w)
  /\ \A k \in Pipes : pipe[k].used <=> pipe[k].readopen \/ pipe[k].writeopen
  /\ \A k \in Pipes, w \in BOOLEAN : OneEnd(k, w)

\* Who reads or writes has a file that stands for the end.
LEMMA DescEnd ==
  ASSUME RingInv, RefsInv, NEW p \in Procs
  PROVE  /\ call[p].op = "read" => /\ call[p].pipe \in Pipes
                                   /\ \E f \in FileNos : IsEnd(f, call[p].pipe, FALSE)
         /\ call[p].op = "write" => /\ call[p].pipe \in Pipes
                                    /\ \E f \in FileNos : IsEnd(f, call[p].pipe, TRUE)
<1>1. HasDesc(p) /\ TablesOK
  BY Split DEF RefsInv
<1>2. ASSUME NEW fd \in Fds, NEW w \in BOOLEAN, HasEnd(p, fd, w),
             file[ofile[p][fd]].pipe = call[p].pipe
      PROVE  call[p].pipe \in Pipes /\ \E f \in FileNos : IsEnd(f, call[p].pipe, w)
  <2>1. ofile[p][fd] \in FileNos /\ file[ofile[p][fd]].pipe \in Pipes
    BY <1>1, <1>2, HasEndPipe
  <2> QED BY <1>2, <2>1 DEF IsEnd, HasEnd
<1> QED BY <1>1, <1>2 DEF HasDesc

LEMMA EndsAre == RingInv /\ RefsInv => (EndsInv <=> Ends)
<1> SUFFICES ASSUME RingInv, RefsInv
             PROVE  EndsInv <=> Ends
  OBVIOUS
<1>1. ASSUME NEW k \in Pipes, NEW f \in FileNos, NEW w
      PROVE  file[f].ref > 0 /\ file[f].pipe = k /\ file[f].writable = w <=> IsEnd(f, k, w)
  <2>1. file[f].ref \in Nat
    BY Shape DEF FileType
  <2>2. file[f].ref = 0 => file[f].pipe = 0
    BY DEF RefsInv, FreeOK, NoFile
  <2>3. k # 0
    BY FilesAssumption DEF Pipes
  <2> QED BY <2>1, <2>2, <2>3 DEF IsEnd
<1>2. ASSUME NEW k \in Pipes, NEW w \in BOOLEAN
      PROVE  Stands(k, w) <=>
               \/ \E f \in FileNos : file[f].ref > 0 /\ file[f].pipe = k /\ file[f].writable = w
               \/ \E p \in Procs : call[p] = [op |-> "close", pipe |-> k, writable |-> w]
  BY <1>1 DEF Stands, Closes
<1>3. ASSUME Ends
      PROVE  EndsInv
  <2>1. ASSUME NEW k \in Pipes, NEW p \in Procs
        PROVE  /\ call[p].op = "read" /\ call[p].pipe = k => pipe[k].readopen
               /\ call[p].op = "write" /\ call[p].pipe = k => pipe[k].writeopen
    <3>1. /\ EndOpen(k, TRUE) <=> Stands(k, TRUE)
          /\ EndOpen(k, FALSE) <=> Stands(k, FALSE)
      BY <1>3 DEF Ends
    <3> QED BY <3>1, DescEnd DEF EndOpen, Stands
  <2>2. EndsAgree
    BY <1>2, <1>3, <2>1 DEF EndsAgree, Ends, EndOpen
  <2> QED BY <1>3, <2>2 DEF EndsInv, Ends
<1>4. ASSUME EndsInv
      PROVE  Ends
  BY <1>2, <1>4 DEF EndsInv, EndsAgree, Ends, EndOpen
<1> QED BY <1>3, <1>4

LEMMA EndsAreNext == RingInv' /\ RefsInv' => (EndsInv' <=> Ends')
BY EndsAre, PTL

\* The steps that leave the ends alone.
LEMMA EndsQuiet ==
  ASSUME Ends,
         \A f \in FileNos : \/ file'[f].pipe = file[f].pipe /\ file'[f].writable = file[f].writable
                            \/ file'[f].pipe = 0 /\ file[f].pipe = 0,
         \A p \in Procs : call'[p] = call[p] \/ (call'[p].op # "close" /\ call[p].op # "close"),
         \A k \in Pipes : /\ pipe'[k].used = pipe[k].used
                          /\ pipe'[k].readopen = pipe[k].readopen
                          /\ pipe'[k].writeopen = pipe[k].writeopen
  PROVE  Ends'
<1>0. \A k \in Pipes : k # 0
  BY FilesAssumption DEF Pipes
<1>1. ASSUME NEW f \in FileNos, NEW k \in Pipes, NEW w
      PROVE  IsEnd(f, k, w)' <=> IsEnd(f, k, w)
  BY <1>0 DEF IsEnd
<1>2. ASSUME NEW p \in Procs, NEW k \in Pipes, NEW w
      PROVE  Closes(p, k, w)' <=> Closes(p, k, w)
  BY DEF Closes
<1>3. ASSUME NEW k \in Pipes, NEW w \in BOOLEAN
      PROVE  (EndOpen(k, w) <=> Stands(k, w))' /\ OneEnd(k, w)'
  <2>1. Stands(k, w)' <=> Stands(k, w)
    BY <1>1, <1>2 DEF Stands
  <2>2. EndOpen(k, w)' <=> EndOpen(k, w)
    BY DEF EndOpen
  <2>3. OneEnd(k, w)'
    BY <1>1, <1>2 DEF Ends, OneEnd
  <2> QED BY <2>1, <2>2, <2>3 DEF Ends
<1>4. \A k \in Pipes : pipe'[k].used <=> pipe'[k].readopen \/ pipe'[k].writeopen
  BY DEF Ends
<1> QED BY <1>3, <1>4 DEF Ends

\* The steps that leave the pipes and their ends alone, and wake nobody up but those
\* that they make leave.
LEMMA QuietTop ==
  ASSUME Ends, SleepersRight, UNCHANGED <<pipe, short>>,
         \A f \in FileNos : \/ file'[f].pipe = file[f].pipe /\ file'[f].writable = file[f].writable
                            \/ file'[f].pipe = 0 /\ file[f].pipe = 0,
         \A p \in Procs : call'[p] = call[p] \/ (call'[p].op # "close" /\ call[p].op # "close"),
         \A p \in Procs : pc'[p] \in {"readsleep", "writesleep"}
                            => pc'[p] = pc[p] /\ call'[p].pipe = call[p].pipe
  PROVE  (Ends /\ SleepersRight)'
<1>1. \A k \in Pipes : /\ pipe'[k].used = pipe[k].used
                       /\ pipe'[k].readopen = pipe[k].readopen
                       /\ pipe'[k].writeopen = pipe[k].writeopen
  OBVIOUS
<1>2. Ends'
  BY <1>1, EndsQuiet
<1>3. ASSUME NEW p \in Procs
      PROVE  /\ pc'[p] = "readsleep" => /\ pipe'[call'[p].pipe].writeopen
                                        /\ Empty(pipe'[call'[p].pipe]) \/ short'[call'[p].pipe]
             /\ pc'[p] = "writesleep" => /\ pipe'[call'[p].pipe].readopen
                                         /\ Full(pipe'[call'[p].pipe])
  <2>1. pc'[p] = "readsleep" => pc[p] = "readsleep" /\ call'[p].pipe = call[p].pipe
    OBVIOUS
  <2>2. pc'[p] = "writesleep" => pc[p] = "writesleep" /\ call'[p].pipe = call[p].pipe
    OBVIOUS
  <2> QED BY <2>1, <2>2 DEF SleepersRight
<1>4. SleepersRight'
  BY <1>3 DEF SleepersRight, Empty, Full
<1> QED BY <1>2, <1>4

LEMMA FileallocEnds ==
  ASSUME RingInv, RefsInv, FreeFiles # {}, file' = Filealloc, NEW f \in FileNos
  PROVE  \/ file'[f].pipe = file[f].pipe /\ file'[f].writable = file[f].writable
         \/ file'[f].pipe = 0 /\ file[f].pipe = 0
<1> DEFINE g == Lowest(FreeFiles)
<1>1. /\ file[g] = NoFile /\ file'[g] = [NoFile EXCEPT !.ref = 1]
      /\ f # g => file'[f] = file[f]
  BY FileallocIs
<1> HIDE DEF g
<1>2. file[g].pipe = 0 /\ file'[g].pipe = 0
  BY <1>1 DEF NoFile
<1>3. f # g => file'[f] = file[f]
  BY <1>1
<1> QED BY <1>2, <1>3

LEMMA DupTop ==
  ASSUME RingInv, RefsInv, Ends, SleepersRight, NEW p \in Procs, NEW fd \in Fds, Dup(p, fd)
  PROVE  (Ends /\ SleepersRight)'
<1>1. file' = Dupped(p, {fd}) /\ UNCHANGED <<pipe, short, call, pc>>
  BY DEF Dup
<1>2. \A f \in FileNos : file'[f].pipe = file[f].pipe /\ file'[f].writable = file[f].writable
  BY <1>1, DuppedIs
<1> QED BY <1>1, <1>2, QuietTop

LEMMA ForkTop ==
  ASSUME RingInv, RefsInv, Ends, SleepersRight, NEW p \in Procs, NEW q \in Procs, Fork(p, q)
  PROVE  (Ends /\ SleepersRight)'
<1>1. file' = Dupped(p, Fds) /\ UNCHANGED <<pipe, short, call>> /\ pc' = [pc EXCEPT ![q] = "user"]
      /\ pc \in [Procs -> Pcs]
  BY Split DEF Fork, Goto, TablesOK
<1>2. \A f \in FileNos : file'[f].pipe = file[f].pipe /\ file'[f].writable = file[f].writable
  BY <1>1, DuppedIs
<1>3. \A r \in Procs : pc'[r] \in {"readsleep", "writesleep"}
                         => pc'[r] = pc[r] /\ call'[r].pipe = call[r].pipe
  BY <1>1
<1> QED BY <1>1, <1>2, <1>3, QuietTop

\* p goes on to a place that is not a sleep, and nobody else moves.
LEMMA StepPcs ==
  ASSUME RingInv, NEW p \in Procs, call' = call,
         \/ \E l \in {"user", "file", "page"} : pc' = [pc EXCEPT ![p] = l]
         \/ \E s, l : CloseAll(p, s, l) /\ l \in {"user", "exit", "unused"}
  PROVE  \A r \in Procs : pc'[r] \in {"readsleep", "writesleep"}
                            => pc'[r] = pc[r] /\ call'[r].pipe = call[r].pipe
<1>1. pc \in [Procs -> Pcs]
  BY Split DEF TablesOK
<1>2. CASE \E l \in {"user", "file", "page"} : pc' = [pc EXCEPT ![p] = l]
  BY <1>1, <1>2
<1>3. CASE \E s, l : CloseAll(p, s, l) /\ l \in {"user", "exit", "unused"}
  <2>1. PICK s, l : CloseAll(p, s, l) /\ l \in {"user", "exit", "unused"}
    BY <1>3
  <2>2. pc'[p] = (IF s = << >> THEN l ELSE "close") /\ \A q \in Procs : q # p => pc'[q] = pc[q]
    BY <2>1, CloseAllMoves
  <2> QED BY <2>1, <2>2
<1> QED BY <1>2, <1>3

LEMMA OpenTop ==
  ASSUME RingInv, RefsInv, Ends, SleepersRight, NEW p \in Procs, Open(p)
  PROVE  (Ends /\ SleepersRight)'
<1>1. file' = Filealloc /\ FreeFiles # {} /\ UNCHANGED <<pipe, short, call>>
      /\ \E s, l : CloseAll(p, s, l) /\ l \in {"user", "exit", "unused"}
  BY DEF Open
<1>2. \A f \in FileNos : \/ file'[f].pipe = file[f].pipe /\ file'[f].writable = file[f].writable
                         \/ file'[f].pipe = 0 /\ file[f].pipe = 0
  BY <1>1, FileallocEnds
<1>3. \A r \in Procs : pc'[r] \in {"readsleep", "writesleep"}
                         => pc'[r] = pc[r] /\ call'[r].pipe = call[r].pipe
  BY <1>1, StepPcs
<1> QED BY <1>1, <1>2, <1>3, QuietTop

LEMMA CloseTop ==
  ASSUME RingInv, Ends, SleepersRight, NEW p \in Procs, NEW fd \in Fds, Close(p, fd)
  PROVE  (Ends /\ SleepersRight)'
<1>1. UNCHANGED <<file, pipe, short, call>>
      /\ \E s, l : CloseAll(p, s, l) /\ l \in {"user", "exit", "unused"}
  BY DEF Close
<1>2. \A r \in Procs : pc'[r] \in {"readsleep", "writesleep"}
                         => pc'[r] = pc[r] /\ call'[r].pipe = call[r].pipe
  BY <1>1, StepPcs
<1> QED BY <1>1, <1>2, QuietTop

LEMMA ExitTop ==
  ASSUME RingInv, Ends, SleepersRight, NEW p \in Procs, Exit(p)
  PROVE  (Ends /\ SleepersRight)'
<1>1. UNCHANGED <<file, pipe, short, call>>
      /\ \E s, l : CloseAll(p, s, l) /\ l \in {"user", "exit", "unused"}
  BY DEF Exit
<1>2. \A r \in Procs : pc'[r] \in {"readsleep", "writesleep"}
                         => pc'[r] = pc[r] /\ call'[r].pipe = call[r].pipe
  BY <1>1, StepPcs
<1> QED BY <1>1, <1>2, QuietTop

LEMMA PipeFile0Top ==
  ASSUME RingInv, RefsInv, Ends, SleepersRight, NEW p \in Procs, PipeFile0(p)
  PROVE  (Ends /\ SleepersRight)'
<1>1. file' = Filealloc /\ FreeFiles # {} /\ UNCHANGED <<pipe, short, call>>
      /\ pc' = [pc EXCEPT ![p] = "file"]
  BY DEF PipeFile0, Goto
<1>2. \A f \in FileNos : \/ file'[f].pipe = file[f].pipe /\ file'[f].writable = file[f].writable
                         \/ file'[f].pipe = 0 /\ file[f].pipe = 0
  BY <1>1, FileallocEnds
<1>3. \A r \in Procs : pc'[r] \in {"readsleep", "writesleep"}
                         => pc'[r] = pc[r] /\ call'[r].pipe = call[r].pipe
  BY <1>1, StepPcs
<1> QED BY <1>1, <1>2, <1>3, QuietTop

LEMMA PipeFile1Top ==
  ASSUME RingInv, RefsInv, Ends, SleepersRight, NEW p \in Procs, PipeFile1(p)
  PROVE  (Ends /\ SleepersRight)'
<1>1. UNCHANGED <<pipe, short, call>>
  BY DEF PipeFile1
<1>2. \A f \in FileNos : \/ file'[f].pipe = file[f].pipe /\ file'[f].writable = file[f].writable
                         \/ file'[f].pipe = 0 /\ file[f].pipe = 0
  <2>1. CASE FreeFiles # {}
    BY <2>1, FileallocEnds DEF PipeFile1
  <2>2. CASE FreeFiles = {}
    BY <2>2 DEF PipeFile1
  <2> QED BY <2>1, <2>2
<1>3. \/ \E l \in {"user", "file", "page"} : pc' = [pc EXCEPT ![p] = l]
      \/ \E s, l : CloseAll(p, s, l) /\ l \in {"user", "exit", "unused"}
  BY DEF PipeFile1, Goto
<1>4. \A r \in Procs : pc'[r] \in {"readsleep", "writesleep"}
                         => pc'[r] = pc[r] /\ call'[r].pipe = call[r].pipe
  BY <1>1, <1>3, StepPcs
<1> QED BY <1>1, <1>2, <1>4, QuietTop

LEMMA NoPageTop ==
  ASSUME RingInv, Ends, SleepersRight, NEW p \in Procs, NoPage(p)
  PROVE  (Ends /\ SleepersRight)'
<1>1. UNCHANGED <<file, pipe, short, call>>
      /\ \E s, l : CloseAll(p, s, l) /\ l \in {"user", "exit", "unused"}
  BY DEF NoPage
<1>2. \A r \in Procs : pc'[r] \in {"readsleep", "writesleep"}
                         => pc'[r] = pc[r] /\ call'[r].pipe = call[r].pipe
  BY <1>1, StepPcs
<1> QED BY <1>1, <1>2, QuietTop

\* A call begins.
LEMMA BeginTop ==
  ASSUME RingInv, Ends, SleepersRight, NEW p \in Procs, Calls(p), UNCHANGED <<file, pipe, short>>,
         NEW l \in {"read", "write"}, pc' = [pc EXCEPT ![p] = l],
         NEW c, call' = [call EXCEPT ![p] = c], c.op # "close"
  PROVE  (Ends /\ SleepersRight)'
<1>1. pc \in [Procs -> Pcs] /\ call \in [Procs -> Requests] /\ call[p].op # "close"
  BY CallsControl, Split DEF TablesOK
<1>2. \A q \in Procs : call'[q] = call[q] \/ (call'[q].op # "close" /\ call[q].op # "close")
  BY <1>1
<1>3. \A r \in Procs : pc'[r] \in {"readsleep", "writesleep"}
                         => pc'[r] = pc[r] /\ call'[r].pipe = call[r].pipe
  BY <1>1
<1> QED BY <1>1, <1>2, <1>3, QuietTop

LEMMA ReadTop ==
  ASSUME RingInv, Ends, SleepersRight, NEW p \in Procs, NEW fd \in Fds, NEW n \in Reads,
         Read(p, fd, n)
  PROVE  (Ends /\ SleepersRight)'
<1> DEFINE c == [op |-> "read", pipe |-> file[ofile[p][fd]].pipe, n |-> n]
<1>1. /\ UNCHANGED <<file, pipe, short>> /\ Calls(p) /\ pc' = [pc EXCEPT ![p] = "read"]
      /\ call' = [call EXCEPT ![p] = c] /\ c.op # "close"
  BY DEF Read, Goto, tables
<1> HIDE DEF c
<1> QED BY <1>1, BeginTop

LEMMA WriteTop ==
  ASSUME RingInv, Ends, SleepersRight, NEW p \in Procs, NEW fd \in Fds, NEW s \in Writes,
         Write(p, fd, s)
  PROVE  (Ends /\ SleepersRight)'
<1> DEFINE c == [op |-> "write", pipe |-> file[ofile[p][fd]].pipe, bytes |-> s]
<1>1. /\ UNCHANGED <<file, pipe, short>> /\ Calls(p) /\ pc' = [pc EXCEPT ![p] = "write"]
      /\ call' = [call EXCEPT ![p] = c] /\ c.op # "close"
  BY DEF Write, Goto, tables
<1> HIDE DEF c
<1> QED BY <1>1, BeginTop

LEMMA KillTop ==
  ASSUME RingInv, Ends, SleepersRight, NEW p \in Procs, Kill(p)
  PROVE  (Ends /\ SleepersRight)'
<1>1. /\ UNCHANGED <<file, pipe, short, call>>
      /\ pc' = [pc EXCEPT ![p] = IF pc[p] \in {"readsleep", "writesleep"} THEN call[p].op ELSE pc[p]]
  BY DEF Kill, tables
<1>2. pc \in [Procs -> Pcs] /\ Control(p)
  BY Split DEF TablesOK
<1>3. \A r \in Procs : pc'[r] \in {"readsleep", "writesleep"}
                         => pc'[r] = pc[r] /\ call'[r].pipe = call[r].pipe
  BY <1>1, <1>2 DEF Control
<1> QED BY <1>1, <1>3, QuietTop

SleepOK(p) ==
  LET k == call[p].pipe
  IN  /\ pc[p] = "readsleep" => pipe[k].writeopen /\ (Empty(pipe[k]) \/ short[k])
      /\ pc[p] = "writesleep" => pipe[k].readopen /\ Full(pipe[k])

\* Those who sleep after a step that changes one pipe.
LEMMA SleepOn ==
  ASSUME RingInv, SleepersRight, NEW k \in Pipes, NEW r, pipe' = [pipe EXCEPT ![k] = r],
         \A j \in Pipes : j # k => short'[j] = short[j],
         NEW p \in Procs, call'[p] = call[p],
         pc'[p] \in {"readsleep", "writesleep"} => pc'[p] = pc[p],
         pc'[p] = "readsleep" /\ call[p].pipe = k => r.writeopen /\ (Empty(r) \/ short'[k]),
         pc'[p] = "writesleep" /\ call[p].pipe = k => r.readopen /\ Full(r)
  PROVE  SleepOK(p)'
<1>1. SleepOK(p) /\ Control(p) /\ call[p] \in Requests /\ pipe \in [Pipes -> PipeType]
  BY Split DEF SleepersRight, SleepOK, TablesOK, PipesOK
<1>2. pc[p] \in {"readsleep", "writesleep"} => call[p].pipe \in Pipes
  BY <1>1 DEF Control, Requests, NoCall
<1>3. pipe'[k] = r /\ \A j \in Pipes : j # k => pipe'[j] = pipe[j]
  BY <1>1
<1>4. CASE pc'[p] = "readsleep"
  <2>1. pipe'[call[p].pipe].writeopen
        /\ (Empty(pipe'[call[p].pipe]) \/ short'[call[p].pipe])
    BY <1>1, <1>2, <1>3, <1>4 DEF SleepOK
  <2> QED BY <1>4, <2>1 DEF SleepOK, Empty, Full
<1>5. CASE pc'[p] = "writesleep"
  <2>1. pipe'[call[p].pipe].readopen /\ Full(pipe'[call[p].pipe])
    BY <1>1, <1>2, <1>3, <1>5 DEF SleepOK
  <2> QED BY <1>5, <2>1 DEF SleepOK, Empty, Full
<1> QED BY <1>4, <1>5 DEF SleepOK

\* A wakeup leaves nobody asleep whom it is for.
LEMMA WokenGone ==
  ASSUME RingInv, NEW k, NEW l \in {"read", "write"}, NEW p \in Procs
  PROVE  /\ Woken(k, l)[p] \in {"readsleep", "writesleep"} => Woken(k, l)[p] = pc[p]
         /\ l = "read" /\ Woken(k, l)[p] = "readsleep" => call[p].pipe # k
         /\ l = "write" /\ Woken(k, l)[p] = "writesleep" => call[p].pipe # k
<1>1. Control(p)
  BY Split
<1> QED BY <1>1 DEF Control, Woken

\* The ring of a pipe changes, its ends do not.
LEMMA BusyEnds ==
  ASSUME RingInv, Ends, NEW p \in Procs, NEW k \in Pipes, NEW r, pipe' = [pipe EXCEPT ![k] = r],
         r.used = pipe[k].used, r.readopen = pipe[k].readopen, r.writeopen = pipe[k].writeopen,
         file' = file, call[p].op # "close", call'[p].op # "close",
         \A q \in Procs : q # p => call'[q] = call[q]
  PROVE  Ends'
<1>1. \A j \in Pipes : /\ pipe'[j].used = pipe[j].used
                       /\ pipe'[j].readopen = pipe[j].readopen
                       /\ pipe'[j].writeopen = pipe[j].writeopen
  BY Split DEF PipesOK
<1>2. \A q \in Procs : call'[q] = call[q] \/ (call'[q].op # "close" /\ call[q].op # "close")
  OBVIOUS
<1> QED BY <1>1, <1>2, EndsQuiet

LEMMA ReadWaitsTop ==
  ASSUME RingInv, Ends, SleepersRight, NEW p \in Procs, ReadWaits(p)
  PROVE  (Ends /\ SleepersRight)'
<1> DEFINE k == call[p].pipe
<1>1. /\ pc[p] = "read" /\ UNCHANGED <<file, pipe, short>>
      /\ Empty(pipe[k]) /\ pipe[k].writeopen
      /\ \/ pc' = [pc EXCEPT ![p] = "user"] /\ call' = [call EXCEPT ![p] = NoCall]
         \/ pc' = [pc EXCEPT ![p] = "readsleep"] /\ call' = call
  BY DEF ReadWaits, Return, Sleep, Goto, tables
<1>2. /\ pc \in [Procs -> Pcs] /\ call \in [Procs -> Requests] /\ call[p].op = "read"
      /\ k \in Pipes /\ pipe \in [Pipes -> PipeType]
  BY <1>1, AtRing, Split DEF TablesOK, PipesOK
<1>3. \A q \in Procs : q # p => call'[q] = call[q] /\ pc'[q] = pc[q]
  BY <1>1, <1>2
<1>4. call'[p].op # "close" /\ (pc'[p] = "user" \/ (pc'[p] = "readsleep" /\ call'[p] = call[p]))
  BY <1>1, <1>2 DEF NoCall
<1>6. Ends'
  <2>1. \A q \in Procs : call'[q] = call[q] \/ (call'[q].op # "close" /\ call[q].op # "close")
    BY <1>2, <1>3, <1>4
  <2>2. file' = file /\ pipe' = pipe
    BY <1>1
  <2> QED BY <2>1, <2>2, EndsQuiet
<1>7. ASSUME NEW q \in Procs
      PROVE  SleepOK(q)'
  <2>1. CASE q = p
    <3>1. pc'[p] = "readsleep" => Empty(pipe'[call'[p].pipe]) /\ pipe'[call'[p].pipe].writeopen
      BY <1>1, <1>4
    <3> QED BY <1>4, <2>1, <3>1 DEF SleepOK, Empty
  <2>2. CASE q # p
    <3>1. SleepOK(q)
      BY DEF SleepersRight, SleepOK
    <3> QED BY <1>1, <1>3, <2>2, <3>1 DEF SleepOK, Empty, Full
  <2> QED BY <2>1, <2>2
<1>8. SleepersRight'
  BY <1>7 DEF SleepersRight, SleepOK
<1> QED BY <1>6, <1>8

LEMMA PipereadTop ==
  ASSUME RingInv, Ends, SleepersRight, NEW p \in Procs, Piperead(p)
  PROVE  (Ends /\ SleepersRight)'
<1> DEFINE k == call[p].pipe
<1> DEFINE m == Least(call[p].n, Count(pipe[k]))
<1> DEFINE r == Taken(pipe[k], m)
<1>1. /\ pc[p] = "read" /\ UNCHANGED <<file, short>>
      /\ pipe' = [pipe EXCEPT ![k] = r]
      /\ pc' = [Woken(k, "write") EXCEPT ![p] = "user"]
      /\ call' = [call EXCEPT ![p] = NoCall]
  BY DEF Piperead, tables
<1>2. /\ k \in Pipes /\ pipe[k] \in PipeType /\ Count(pipe[k]) <= PIPESIZE /\ call[p].n \in Nat
      /\ call[p].op = "read" /\ call \in [Procs -> Requests] /\ Woken(k, "write") \in [Procs -> Pcs]
  BY <1>1, AtRing, WokenIs, Split DEF TablesOK
<1>3. m \in Nat /\ m <= Count(pipe[k]) /\ Count(pipe[k]) \in Nat
  BY <1>2, Counters DEF Least
<1> HIDE DEF m
<1>4. /\ r \in PipeType /\ Count(r) = Count(pipe[k]) - m
      /\ r.used = pipe[k].used /\ r.readopen = pipe[k].readopen /\ r.writeopen = pipe[k].writeopen
  BY <1>2, <1>3, TakenIs
<1>5. Empty(pipe[k]) => Empty(r)
  <2>1. Count(r) <= PIPESIZE
    BY <1>2, <1>3, <1>4, Sizes
  <2>2. Empty(pipe[k]) <=> Count(pipe[k]) = 0
    BY <1>2, FullIs
  <2>3. Empty(r) <=> Count(r) = 0
    BY <1>4, <2>1, FullIs
  <2> HIDE DEF r, k
  <2> QED BY <1>3, <1>4, <2>2, <2>3
<1> HIDE DEF r
<1>6. call'[p].op # "close" /\ pc'[p] = "user"
      /\ \A q \in Procs : q # p => call'[q] = call[q] /\ pc'[q] = Woken(k, "write")[q]
  BY <1>1, <1>2 DEF NoCall
<1>7. Ends'
  <2>1. call[p].op # "close" /\ k \in Pipes
    BY <1>2
  <2>2. file' = file /\ pipe' = [pipe EXCEPT ![k] = r]
    BY <1>1
  <2>3. r.used = pipe[k].used /\ r.readopen = pipe[k].readopen /\ r.writeopen = pipe[k].writeopen
    BY <1>4
  <2>4. call'[p].op # "close" /\ \A q \in Procs : q # p => call'[q] = call[q]
    BY <1>6
  <2> HIDE DEF k
  <2> QED BY <2>1, <2>2, <2>3, <2>4, BusyEnds
<1>8. ASSUME NEW q \in Procs
      PROVE  SleepOK(q)'
  <2>1. CASE q = p
    BY <1>6, <2>1 DEF SleepOK
  <2>2. CASE q # p
    <3>1. call'[q] = call[q] /\ pc'[q] = Woken(k, "write")[q]
      BY <1>6, <2>2
    <3>2. pc'[q] \in {"readsleep", "writesleep"} => pc'[q] = pc[q]
      BY <3>1, WokenGone
    <3>3. ~ (pc'[q] = "writesleep" /\ call[q].pipe = k)
      BY <3>1, WokenGone
    <3>4. pc'[q] = "readsleep" /\ call[q].pipe = k => r.writeopen /\ (Empty(r) \/ short'[k])
      <4>1. SleepOK(q)
        BY DEF SleepersRight, SleepOK
      <4> QED BY <1>1, <1>4, <1>5, <3>2, <4>1 DEF SleepOK
    <3>5. \A j \in Pipes : j # k => short'[j] = short[j]
      BY <1>1
    <3> HIDE DEF k
    <3> QED BY <1>1, <1>2, <3>1, <3>2, <3>3, <3>4, <3>5, SleepOn
  <2> QED BY <2>1, <2>2
<1>9. SleepersRight'
  BY <1>8 DEF SleepersRight, SleepOK
<1> QED BY <1>7, <1>9

\* The bytes s come into the ring; those who sleep in piperead are woken, or it is
\* noted that they are not.
LEMMA StoreTop ==
  ASSUME RingInv, Ends, SleepersRight, NEW p \in Procs, pc[p] = "write",
         NEW k, k = call[p].pipe, NEW s \in Seq(Bytes), Count(pipe[k]) + Len(s) <= PIPESIZE,
         pipe' = [pipe EXCEPT ![k] = Stored(pipe[k], s)], file' = file,
         \A j \in Pipes : j # k => short'[j] = short[j],
         \A q \in Procs : q # p => call'[q] = call[q],
         call'[p].op # "close", SleepOK(p)',
         \/ short'[k] /\ \A q \in Procs : q # p => pc'[q] = pc[q]
         \/ \A q \in Procs : q # p => pc'[q] = Woken(k, "read")[q]
  PROVE  (Ends /\ SleepersRight)'
<1> DEFINE r == Stored(pipe[k], s)
<1>1. /\ k \in Pipes /\ pipe[k] \in PipeType /\ Count(pipe[k]) <= PIPESIZE
      /\ call[p].op # "close"
  BY AtRing
<1>2. Count(pipe[k]) \in Nat /\ Len(s) \in Nat
  BY <1>1, Counters
<1>3. /\ r \in PipeType /\ Count(r) = Count(pipe[k]) + Len(s)
      /\ r.used = pipe[k].used /\ r.readopen = pipe[k].readopen /\ r.writeopen = pipe[k].writeopen
  BY <1>1, StoredIs
<1>4. pipe' = [pipe EXCEPT ![k] = r]
  OBVIOUS
<1> HIDE DEF r
<1>5. Full(pipe[k]) => Full(r)
  <2>1. Count(r) <= PIPESIZE
    BY <1>3
  <2>2. Full(pipe[k]) <=> Count(pipe[k]) = PIPESIZE
    BY <1>1, FullIs
  <2>3. Full(r) <=> Count(r) = PIPESIZE
    BY <1>3, <2>1, FullIs
  <2>4. PIPESIZE \in Nat
    BY Sizes
  <2> QED BY <1>2, <1>3, <2>1, <2>2, <2>3, <2>4
<1>6. Ends'
  <2>1. r.used = pipe[k].used /\ r.readopen = pipe[k].readopen /\ r.writeopen = pipe[k].writeopen
    BY <1>3
  <2>2. k \in Pipes /\ call[p].op # "close"
    BY <1>1
  <2>3. \A x \in Pipes : /\ pipe'[x].used = pipe[x].used
                         /\ pipe'[x].readopen = pipe[x].readopen
                         /\ pipe'[x].writeopen = pipe[x].writeopen
    <3>1. pipe \in [Pipes -> PipeType]
      BY Split DEF PipesOK
    <3> QED BY <1>1, <1>4, <2>1, <3>1
  <2>4. \A q \in Procs : call'[q] = call[q] \/ (call'[q].op # "close" /\ call[q].op # "close")
    BY <2>2
  <2>5. \A f \in FileNos : file'[f].pipe = file[f].pipe /\ file'[f].writable = file[f].writable
    OBVIOUS
  <2> HIDE DEF r
  <2> QED BY <2>3, <2>4, <2>5, EndsQuiet
<1>7. ASSUME NEW q \in Procs, q # p
      PROVE  SleepOK(q)'
  <2>1. SleepOK(q)
    BY DEF SleepersRight, SleepOK
  <2>2. pc'[q] \in {"readsleep", "writesleep"} => pc'[q] = pc[q]
    BY <1>7, WokenGone
  <2>3. pc'[q] = "readsleep" /\ call[q].pipe = k => r.writeopen /\ (Empty(r) \/ short'[k])
    <3>1. pc'[q] = "readsleep" /\ call[q].pipe = k => short'[k]
      BY <1>7, WokenGone
    <3> QED BY <1>3, <2>1, <2>2, <3>1 DEF SleepOK
  <2>4. pc'[q] = "writesleep" /\ call[q].pipe = k => r.readopen /\ Full(r)
    BY <1>3, <1>5, <2>1, <2>2 DEF SleepOK
  <2>5. call'[q] = call[q] /\ k \in Pipes
    BY <1>1, <1>7
  <2> QED BY <1>4, <2>2, <2>3, <2>4, <2>5, SleepOn
<1>8. SleepersRight'
  BY <1>7 DEF SleepersRight, SleepOK
<1> QED BY <1>6, <1>8

LEMMA PipewriteTop ==
  ASSUME RingInv, Ends, SleepersRight, NEW p \in Procs, Pipewrite(p)
  PROVE  (Ends /\ SleepersRight)'
<1> DEFINE k == call[p].pipe
<1> DEFINE s == call[p].bytes
<1>1. /\ pc[p] = "write" /\ file' = file
      /\ pipe' = [pipe EXCEPT ![k] = Stored(pipe[k], s)]
      /\ short' = [short EXCEPT ![k] = FALSE]
      /\ pc' = [Woken(k, "read") EXCEPT ![p] = "user"]
      /\ call' = [call EXCEPT ![p] = NoCall] /\ Fit(p) = s
  BY DEF Pipewrite, tables
<1>2. /\ s \in Seq(Bytes) /\ Count(pipe[k]) + Len(s) <= PIPESIZE /\ k \in Pipes
  BY <1>1, AtRing, FitIs
<1>3. /\ call \in [Procs -> Requests] /\ short \in [Pipes -> BOOLEAN]
      /\ Woken(k, "read") \in [Procs -> Pcs]
  BY WokenIs, Split DEF TablesOK, PipesOK
<1>4. /\ call'[p].op # "close" /\ pc'[p] = "user"
      /\ \A q \in Procs : q # p => call'[q] = call[q] /\ pc'[q] = Woken(k, "read")[q]
  BY <1>1, <1>3 DEF NoCall
<1>5. \A j \in Pipes : j # k => short'[j] = short[j]
  BY <1>1, <1>3
<1>6. SleepOK(p)'
  BY <1>4 DEF SleepOK
<1> HIDE DEF s
<1>7. pc[p] = "write" /\ file' = file /\ pipe' = [pipe EXCEPT ![k] = Stored(pipe[k], s)]
  BY <1>1
<1> QED BY <1>2, <1>4, <1>5, <1>6, <1>7, StoreTop

LEMMA WriteWaitsTop ==
  ASSUME RingInv, Ends, SleepersRight, NEW p \in Procs, WriteWaits(p)
  PROVE  (Ends /\ SleepersRight)'
<1> DEFINE k == call[p].pipe
<1> DEFINE s == Fit(p)
<1>1. /\ pc[p] = "write" /\ file' = file
      /\ pipe' = [pipe EXCEPT ![k] = Stored(pipe[k], s)] /\ s # call[p].bytes
  BY DEF WriteWaits, tables
<1>2. /\ s \in Seq(Bytes) /\ Count(pipe[k]) + Len(s) <= PIPESIZE /\ k \in Pipes
      /\ Count(pipe[k]) + Len(s) = PIPESIZE /\ pipe[k] \in PipeType
  BY <1>1, AtRing, FitIs
<1>3. /\ call \in [Procs -> Requests] /\ short \in [Pipes -> BOOLEAN] /\ pc \in [Procs -> Pcs]
      /\ pipe \in [Pipes -> PipeType] /\ Woken(k, "read") \in [Procs -> Pcs]
  BY WokenIs, Split DEF TablesOK, PipesOK
<1>4. CASE ~ pipe[k].readopen \/ killed[p]
  <2>1. /\ pc' = [pc EXCEPT ![p] = "user"] /\ call' = [call EXCEPT ![p] = NoCall]
        /\ short' = [short EXCEPT ![k] = TRUE]
    BY <1>4 DEF WriteWaits, Return, Goto
  <2>2. /\ call'[p].op # "close" /\ pc'[p] = "user" /\ short'[k]
        /\ \A q \in Procs : q # p => call'[q] = call[q] /\ pc'[q] = pc[q]
    BY <1>2, <1>3, <2>1 DEF NoCall
  <2>3. \A j \in Pipes : j # k => short'[j] = short[j]
    BY <1>3, <2>1
  <2>4. SleepOK(p)'
    BY <2>2 DEF SleepOK
  <2> HIDE DEF s
  <2> QED BY <1>1, <1>2, <2>2, <2>3, <2>4, StoreTop
<1>5. CASE ~ (~ pipe[k].readopen \/ killed[p])
  <2> DEFINE r == Stored(pipe[k], s)
  <2>1. /\ pc' = [Woken(k, "read") EXCEPT ![p] = "writesleep"]
        /\ short' = [short EXCEPT ![k] = FALSE]
    BY <1>5 DEF WriteWaits
  <2>2. /\ call'[p].op # "close" /\ pc'[p] = "writesleep" /\ call'[p].pipe = k
        /\ \A q \in Procs : q # p => call'[q] = call[q] /\ pc'[q] = Woken(k, "read")[q]
    BY <1>3, <1>5, <2>1, RestCall
  <2>3. \A j \in Pipes : j # k => short'[j] = short[j]
    BY <1>3, <2>1
  <2> HIDE DEF s
  <2>4. r \in PipeType /\ Count(r) = PIPESIZE /\ r.readopen = pipe[k].readopen
    BY <1>2, StoredIs
  <2>5. pipe' = [pipe EXCEPT ![k] = r] /\ pipe'[k] = r
    BY <1>1, <1>2, <1>3
  <2> HIDE DEF r
  <2>6. Full(r)
    <3>1. Count(r) <= PIPESIZE
      BY <2>4, Sizes
    <3> QED BY <2>4, <3>1, FullIs
  <2>7. SleepOK(p)'
    BY <1>5, <2>2, <2>4, <2>5, <2>6 DEF SleepOK, Full
  <2>8. pc[p] = "write" /\ file' = file /\ pipe' = [pipe EXCEPT ![k] = Stored(pipe[k], s)]
    BY <1>1
  <2> HIDE DEF k
  <2>9. k = call[p].pipe
    BY DEF k
  <2> QED BY <1>2, <2>2, <2>3, <2>7, <2>8, <2>9, StoreTop
<1> QED BY <1>4, <1>5

\* The last reference goes: the process stands for the end that the file has been.
LEMMA LastTop ==
  ASSUME RingInv, Ends, SleepersRight, NEW p \in Procs, NEW f \in FileNos,
         file[f].pipe # 0, file' = [file EXCEPT ![f] = NoFile], call[p].op # "close",
         call' = [call EXCEPT ![p] = [op |-> "close", pipe |-> file[f].pipe,
                                      writable |-> file[f].writable]],
         UNCHANGED <<pipe, short>>, pc' = [pc EXCEPT ![p] = "pipeclose"]
  PROVE  (Ends /\ SleepersRight)'
<1> DEFINE k0 == file[f].pipe
<1> DEFINE w0 == file[f].writable
<1> DEFINE c == [op |-> "close", pipe |-> k0, writable |-> w0]
<1>1. /\ file \in [FileNos -> FileType] /\ call \in [Procs -> Requests] /\ pc \in [Procs -> Pcs]
      /\ \A k \in Pipes : k # 0
  BY Shape, Split, FilesAssumption DEF TablesOK, Pipes
<1>2. /\ file'[f].pipe = 0 /\ pc'[p] = "pipeclose" /\ call'[p] = c
      /\ \A g \in FileNos : g # f => file'[g] = file[g]
      /\ \A q \in Procs : q # p => call'[q] = call[q] /\ pc'[q] = pc[q]
  BY <1>1 DEF NoFile
<1>3. ASSUME NEW k \in Pipes, NEW w
      PROVE  /\ \A g \in FileNos : IsEnd(g, k, w)' <=> g # f /\ IsEnd(g, k, w)
             /\ \A q \in Procs : q # p => (Closes(q, k, w)' <=> Closes(q, k, w))
             /\ IsEnd(f, k, w) <=> k = k0 /\ w = w0
             /\ Closes(p, k, w)' <=> k = k0 /\ w = w0
             /\ ~ Closes(p, k, w)
  <2>1. ASSUME NEW g \in FileNos
        PROVE  IsEnd(g, k, w)' <=> g # f /\ IsEnd(g, k, w)
    BY <1>1, <1>2 DEF IsEnd
  <2>2. ASSUME NEW q \in Procs, q # p
        PROVE  Closes(q, k, w)' <=> Closes(q, k, w)
    BY <1>2, <2>2 DEF Closes
  <2>3. IsEnd(f, k, w) <=> k = k0 /\ w = w0
    BY DEF IsEnd
  <2>4. Closes(p, k, w)' <=> k = k0 /\ w = w0
    BY <1>2 DEF Closes
  <2>5. ~ Closes(p, k, w)
    BY DEF Closes
  <2> QED BY <2>1, <2>2, <2>3, <2>4, <2>5
<1> HIDE DEF k0, w0, c
<1>4. ASSUME NEW k \in Pipes, NEW w \in BOOLEAN
      PROVE  (EndOpen(k, w) <=> Stands(k, w))' /\ OneEnd(k, w)'
  <2>1. (EndOpen(k, w) <=> Stands(k, w)) /\ OneEnd(k, w)
    BY DEF Ends
  <2>2. Stands(k, w)' <=> Stands(k, w)
    BY <1>3 DEF Stands
  <2>3. EndOpen(k, w)' <=> EndOpen(k, w)
    BY DEF EndOpen
  <2>4. OneEnd(k, w)'
    BY <1>3, <2>1 DEF OneEnd
  <2> QED BY <2>1, <2>2, <2>3, <2>4
<1>5. Ends'
  BY <1>4 DEF Ends
<1>6. ASSUME NEW q \in Procs
      PROVE  SleepOK(q)'
  <2>1. SleepOK(q)
    BY DEF SleepersRight, SleepOK
  <2>2. CASE q = p
    BY <1>2, <2>2 DEF SleepOK
  <2>3. CASE q # p
    BY <1>2, <2>1, <2>3 DEF SleepOK, Empty, Full
  <2> QED BY <2>2, <2>3
<1>7. SleepersRight'
  BY <1>6 DEF SleepersRight, SleepOK
<1> QED BY <1>5, <1>7

LEMMA FilecloseTop ==
  ASSUME RingInv, RefsInv, Ends, SleepersRight, NEW p \in Procs, Fileclose(p)
  PROVE  (Ends /\ SleepersRight)'
<1> DEFINE f == Head(held[p])
<1>1. pc[p] = "close" /\ UNCHANGED <<pipe, short>>
  BY DEF Fileclose
<1>2. /\ f \in FileNos /\ file[f].ref \in Nat /\ call[p].op # "close"
      /\ file \in [FileNos -> FileType] /\ pc \in [Procs -> Pcs] /\ after[p] \in {"user", "exit"}
  BY <1>1, ClosingFile, Shape, Split DEF Control, TablesOK
<1>3. CASE file[f].ref = 1 /\ file[f].pipe # 0
  <2>1. /\ file' = [file EXCEPT ![f] = NoFile]
        /\ call' = [call EXCEPT ![p] = [op |-> "close", pipe |-> file[f].pipe,
                                        writable |-> file[f].writable]]
        /\ pc' = [pc EXCEPT ![p] = "pipeclose"]
    BY <1>3 DEF Fileclose, Goto
  <2> HIDE DEF f
  <2> QED BY <1>1, <1>2, <1>3, <2>1, LastTop
<1>4. CASE ~ (file[f].ref = 1 /\ file[f].pipe # 0)
  <2> DEFINE e == IF file[f].ref = 1 THEN NoFile ELSE [file[f] EXCEPT !.ref = file[f].ref - 1]
  <2>1. file' = [file EXCEPT ![f] = e] /\ call' = call /\ CloseAll(p, Tail(held[p]), after[p])
    BY <1>4 DEF Fileclose
  <2> HIDE DEF f
  <2>2. \/ e.pipe = file[f].pipe /\ e.writable = file[f].writable
        \/ e.pipe = 0 /\ file[f].pipe = 0
    <3>1. CASE file[f].ref = 1
      BY <1>4, <3>1 DEF NoFile
    <3>2. CASE file[f].ref # 1
      BY <1>2, <3>2 DEF FileType
    <3> QED BY <3>1, <3>2
  <2> HIDE DEF e
  <2>3. \A x \in FileNos : \/ file'[x].pipe = file[x].pipe /\ file'[x].writable = file[x].writable
                           \/ file'[x].pipe = 0 /\ file[x].pipe = 0
    BY <1>2, <2>1, <2>2
  <2>4. \A r \in Procs : pc'[r] \in {"readsleep", "writesleep"}
                           => pc'[r] = pc[r] /\ call'[r].pipe = call[r].pipe
    BY <1>2, <2>1, StepPcs
  <2>5. \A r \in Procs : call'[r] = call[r]
    BY <2>1
  <2> QED BY <1>1, <2>3, <2>4, <2>5, QuietTop
<1> QED BY <1>3, <1>4

\* The files of a new pipe are its two ends; nobody has known the page.
LEMMA PipePageTop ==
  ASSUME RingInv, RefsInv, Ends, SleepersRight, NEW p \in Procs, PipePage(p)
  PROVE  (Ends /\ SleepersRight)'
<1> DEFINE h1 == held[p][1]
<1> DEFINE h2 == held[p][2]
<1>1. /\ h1 \in FileNos /\ h2 \in FileNos /\ h1 # h2
      /\ file[h1] = [NoFile EXCEPT !.ref = 1] /\ file[h2] = [NoFile EXCEPT !.ref = 1]
  BY FreshFiles DEF PipePage
<1>2. PICK k \in Pipes :
        /\ ~ pipe[k].used /\ pipe' = [pipe EXCEPT ![k] = NewPipe]
        /\ file'[h1] = [ref |-> 1, pipe |-> k, writable |-> FALSE]
        /\ file'[h2] = [ref |-> 1, pipe |-> k, writable |-> TRUE]
        /\ \A f \in FileNos : f # h1 /\ f # h2 => file'[f] = file[f]
  BY PipePageFiles
<1> HIDE DEF h1, h2
<1>3. /\ file[h1].pipe = 0 /\ file[h2].pipe = 0
      /\ file'[h1].pipe = k /\ file'[h1].writable = FALSE
      /\ file'[h2].pipe = k /\ file'[h2].writable = TRUE
  BY <1>1, <1>2 DEF NoFile
<1>4. /\ pipe \in [Pipes -> PipeType] /\ pc \in [Procs -> Pcs] /\ \A j \in Pipes : j # 0
  BY Split, FilesAssumption DEF TablesOK, PipesOK, Pipes
<1>5. UNCHANGED <<call, short>> /\ \E s, l : CloseAll(p, s, l) /\ l \in {"user", "exit", "unused"}
  BY DEF PipePage
<1>6. /\ pipe'[k].used /\ pipe'[k].readopen /\ pipe'[k].writeopen
      /\ \A j \in Pipes : j # k => pipe'[j] = pipe[j]
  BY <1>2, <1>4 DEF NewPipe, NoPipe
<1>7. ~ pipe[k].readopen /\ ~ pipe[k].writeopen
  BY <1>2 DEF Ends
<1>8. ASSUME NEW w \in BOOLEAN
      PROVE  ~ Stands(k, w)
  BY <1>7 DEF Ends, EndOpen
<1>9. ASSUME NEW j \in Pipes, NEW f \in FileNos, NEW w \in BOOLEAN
      PROVE  /\ j # k => (IsEnd(f, j, w)' <=> IsEnd(f, j, w))
             /\ IsEnd(f, k, w)' <=> f = (IF w THEN h2 ELSE h1)
  <2>1. CASE f = h1
    BY <1>1, <1>3, <1>4, <2>1 DEF IsEnd
  <2>2. CASE f = h2
    BY <1>1, <1>3, <1>4, <2>2 DEF IsEnd
  <2>3. CASE f # h1 /\ f # h2
    <3>1. file'[f] = file[f] /\ ~ IsEnd(f, k, w)
      BY <1>2, <1>8, <2>3 DEF Stands
    <3> QED BY <2>3, <3>1 DEF IsEnd
  <2> QED BY <2>1, <2>2, <2>3
<1>10. \A j \in Pipes, w \in BOOLEAN, q \in Procs :
         (Closes(q, j, w)' <=> Closes(q, j, w)) /\ ~ Closes(q, k, w)
  BY <1>5, <1>8 DEF Closes, Stands
<1>11. ASSUME NEW j \in Pipes, NEW w \in BOOLEAN
       PROVE  (EndOpen(j, w) <=> Stands(j, w))' /\ OneEnd(j, w)'
  <2>1. (EndOpen(j, w) <=> Stands(j, w)) /\ OneEnd(j, w)
    BY DEF Ends
  <2>2. CASE j = k
    <3>1. EndOpen(j, w)'
      BY <1>6, <2>2 DEF EndOpen
    <3>2. Stands(j, w)'
      BY <1>1, <1>9, <2>2 DEF Stands
    <3>3. OneEnd(j, w)'
      BY <1>9, <1>10, <2>2 DEF OneEnd
    <3> QED BY <3>1, <3>2, <3>3
  <2>3. CASE j # k
    <3>1. EndOpen(j, w)' <=> EndOpen(j, w)
      BY <1>6, <2>3 DEF EndOpen
    <3>2. Stands(j, w)' <=> Stands(j, w)
      BY <1>9, <1>10, <2>3 DEF Stands
    <3>3. OneEnd(j, w)'
      BY <1>9, <1>10, <2>1, <2>3 DEF OneEnd
    <3> QED BY <2>1, <3>1, <3>2, <3>3
  <2> QED BY <2>2, <2>3
<1>12. Ends'
  BY <1>6, <1>11 DEF Ends
<1>13. ASSUME NEW q \in Procs
       PROVE  SleepOK(q)'
  <2>1. SleepOK(q) /\ call'[q] = call[q]
    BY <1>5 DEF SleepersRight, SleepOK
  <2>2. pc'[q] \in {"readsleep", "writesleep"} => pc'[q] = pc[q]
    BY <1>5, StepPcs
  <2>3. pc'[q] \in {"readsleep", "writesleep"} => call[q].pipe # k
    BY <1>7, <2>1, <2>2 DEF SleepOK
  <2> DEFINE r == NewPipe
  <2>4. pipe' = [pipe EXCEPT ![k] = r]
    BY <1>2
  <2> HIDE DEF r
  <2> QED BY <1>5, <2>1, <2>2, <2>3, <2>4, SleepOn
<1>14. SleepersRight'
  BY <1>13 DEF SleepersRight, SleepOK
<1> QED BY <1>12, <1>14

\* The end w of the pipe goes, and the page with the second one.
LEMMA FreedEnds ==
  ASSUME NEW r \in PipeType, NEW w \in BOOLEAN, r.used <=> r.readopen \/ r.writeopen,
         NEW q, q = Freed(IF w THEN [r EXCEPT !.writeopen = FALSE] ELSE [r EXCEPT !.readopen = FALSE])
  PROVE  /\ q.used <=> q.readopen \/ q.writeopen
         /\ w => ~ q.writeopen /\ q.readopen = r.readopen
         /\ ~ w => ~ q.readopen /\ q.writeopen = r.writeopen
<1> DEFINE x == IF w THEN [r EXCEPT !.writeopen = FALSE] ELSE [r EXCEPT !.readopen = FALSE]
<1>1. /\ r.readopen \in BOOLEAN /\ r.writeopen \in BOOLEAN /\ r.used \in BOOLEAN
  BY DEF PipeType
<1>2. /\ w => x.writeopen = FALSE /\ x.readopen = r.readopen
      /\ ~ w => x.readopen = FALSE /\ x.writeopen = r.writeopen
      /\ x.used = r.used
  <2>1. CASE w
    BY <2>1 DEF PipeType
  <2>2. CASE ~ w
    BY <2>2 DEF PipeType
  <2> QED BY <2>1, <2>2
<1>3. q = Freed(x)
  OBVIOUS
<1> HIDE DEF x
<1>4. CASE x.readopen \/ x.writeopen
  <2>1. q = x
    BY <1>3, <1>4 DEF Freed
  <2> QED BY <1>1, <1>2, <1>4, <2>1
<1>5. CASE ~ (x.readopen \/ x.writeopen)
  <2>1. q.used = FALSE /\ q.readopen = FALSE /\ q.writeopen = FALSE
    BY <1>3, <1>5 DEF Freed, NoPipe
  <2> QED BY <1>1, <1>2, <1>5, <2>1
<1> QED BY <1>4, <1>5

LEMMA PipecloseTop ==
  ASSUME RingInv, RefsInv, Ends, SleepersRight, NEW p \in Procs, Pipeclose(p)
  PROVE  (Ends /\ SleepersRight)'
<1> DEFINE k == call[p].pipe
<1> DEFINE w == call[p].writable
<1> DEFINE r == Freed(IF w THEN [pipe[k] EXCEPT !.writeopen = FALSE]
                      ELSE [pipe[k] EXCEPT !.readopen = FALSE])
<1> DEFINE next == IF held[p] = << >> THEN after[p] ELSE "close"
<1> DEFINE l == IF w THEN "read" ELSE "write"
<1>1. /\ pc[p] = "pipeclose" /\ file' = file
      /\ pipe' = [pipe EXCEPT ![k] = r]
      /\ short' = [short EXCEPT ![k] = short[k] /\ ~ w]
      /\ pc' = [Woken(k, l) EXCEPT ![p] = next]
      /\ call' = [call EXCEPT ![p] = NoCall]
  BY DEF Pipeclose, Told
<1>2. /\ pipe \in [Pipes -> PipeType] /\ pc \in [Procs -> Pcs] /\ call \in [Procs -> Requests]
      /\ short \in [Pipes -> BOOLEAN] /\ after[p] \in {"user", "exit"} /\ Control(p)
  BY Split DEF TablesOK, PipesOK
<1>3. k \in Pipes /\ w \in BOOLEAN /\ Closes(p, k, w)
  BY <1>1, <1>2 DEF Control, Requests, NoCall, Closes
<1>4. next \notin {"readsleep", "writesleep"}
  BY <1>2
<1>5. /\ r.used <=> r.readopen \/ r.writeopen
      /\ w => ~ r.writeopen /\ r.readopen = pipe[k].readopen
      /\ ~ w => ~ r.readopen /\ r.writeopen = pipe[k].writeopen
  <2>1. pipe[k] \in PipeType /\ (pipe[k].used <=> pipe[k].readopen \/ pipe[k].writeopen)
    BY <1>2, <1>3 DEF Ends
  <2> HIDE DEF w, k
  <2> QED BY <1>3, <2>1, FreedEnds
<1>6. l \in {"read", "write"} /\ Woken(k, l) \in [Procs -> Pcs]
  BY WokenIs, Split
<1> HIDE DEF r, next
<1>7. /\ call'[p] = NoCall /\ pc'[p] = next /\ pipe'[k] = r
      /\ \A q \in Procs : q # p => call'[q] = call[q] /\ pc'[q] = Woken(k, l)[q]
      /\ \A j \in Pipes : j # k => pipe'[j] = pipe[j] /\ short'[j] = short[j]
  BY <1>1, <1>2, <1>3, <1>6
<1> HIDE DEF l
<1>8. ASSUME NEW j \in Pipes, NEW v \in BOOLEAN
      PROVE  /\ \A f \in FileNos : IsEnd(f, j, v)' <=> IsEnd(f, j, v)
             /\ \A q \in Procs : Closes(q, j, v)' <=> q # p /\ Closes(q, j, v)
             /\ Closes(p, j, v) <=> j = k /\ v = w
  <2>1. ASSUME NEW f \in FileNos
        PROVE  IsEnd(f, j, v)' <=> IsEnd(f, j, v)
    BY <1>1 DEF IsEnd
  <2>2. ASSUME NEW q \in Procs
        PROVE  Closes(q, j, v)' <=> q # p /\ Closes(q, j, v)
    BY <1>7 DEF Closes, NoCall
  <2>3. Closes(p, j, v) <=> j = k /\ v = w
    BY <1>3 DEF Closes
  <2> QED BY <2>1, <2>2, <2>3
<1> HIDE DEF w, k
<1>9. \A f \in FileNos : ~ IsEnd(f, k, w)
  BY <1>3 DEF Ends, OneEnd
<1>10. ASSUME NEW j \in Pipes, NEW v \in BOOLEAN
       PROVE  (EndOpen(j, v) <=> Stands(j, v))' /\ OneEnd(j, v)'
  <2>1. (EndOpen(j, v) <=> Stands(j, v)) /\ OneEnd(j, v)
    BY DEF Ends
  <2>2. OneEnd(j, v)'
    BY <1>8, <2>1 DEF OneEnd
  <2>3. CASE j = k /\ v = w
    <3>1. ~ Stands(j, v)'
      BY <1>3, <1>8, <1>9, <2>1, <2>3 DEF Stands, OneEnd
    <3>2. ~ EndOpen(j, v)'
      BY <1>3, <1>5, <1>7, <2>3 DEF EndOpen
    <3> QED BY <2>2, <3>1, <3>2
  <2>4. CASE ~ (j = k /\ v = w)
    <3>1. Stands(j, v)' <=> Stands(j, v)
      BY <1>8, <2>4 DEF Stands
    <3>2. EndOpen(j, v)' <=> EndOpen(j, v)
      <4>1. CASE j # k
        BY <1>7, <4>1 DEF EndOpen
      <4>2. CASE j = k
        BY <1>3, <1>5, <1>7, <2>4, <4>2 DEF EndOpen
      <4> QED BY <4>1, <4>2
    <3> QED BY <2>1, <2>2, <3>1, <3>2
  <2> QED BY <2>3, <2>4
<1>11. Ends'
  <2>1. \A j \in Pipes : pipe'[j].used <=> pipe'[j].readopen \/ pipe'[j].writeopen
    BY <1>5, <1>7 DEF Ends
  <2> QED BY <1>10, <2>1 DEF Ends
<1>12. ASSUME NEW q \in Procs
       PROVE  SleepOK(q)'
  <2>1. CASE q = p
    BY <1>4, <1>7, <2>1 DEF SleepOK
  <2>2. CASE q # p
    <3>1. call'[q] = call[q] /\ pc'[q] = Woken(k, l)[q]
      BY <1>7, <2>2
    <3>2. pc'[q] \in {"readsleep", "writesleep"} => pc'[q] = pc[q]
      BY <1>6, <3>1, WokenGone
    <3>3. /\ pc'[q] = "readsleep" /\ call[q].pipe = k => ~ w
          /\ pc'[q] = "writesleep" /\ call[q].pipe = k => w
      BY <1>6, <3>1, WokenGone DEF l
    <3>4. /\ call[q].op = "read" /\ call[q].pipe = k => w
          /\ call[q].op = "write" /\ call[q].pipe = k => ~ w
      BY <1>3, <1>9, DescEnd
    <3>5. Control(q)
      BY Split
    <3>6. pc'[q] \in {"readsleep", "writesleep"} => call[q].pipe # k
      BY <3>2, <3>3, <3>4, <3>5 DEF Control
    <3>7. \A j \in Pipes : j # k => short'[j] = short[j]
      BY <1>7
    <3> QED BY <1>1, <1>3, <3>1, <3>2, <3>6, <3>7, SleepOn
  <2> QED BY <2>1, <2>2
<1>13. SleepersRight'
  BY <1>12 DEF SleepersRight, SleepOK
<1> QED BY <1>11, <1>13

-----------------------------------------------------------------------------
(* The invariant, and what it says of the specification.                   *)

LEMMA InitInv ==
  ASSUME Init
  PROVE  IndInv
<1>1. /\ \A f \in FileNos : file[f] = NoFile
      /\ \A p \in Procs : /\ ofile[p] = [fd \in Fds |-> 0] /\ pc[p] \in {"user", "unused"}
                          /\ call[p] = NoCall /\ held[p] = << >> /\ after[p] = "user"
                          /\ killed[p] = FALSE
      /\ \A k \in Pipes : pipe[k] = NoPipe /\ flow[k] = << >> /\ short[k] = FALSE
  BY DEF Init
<1>2. /\ NoFile \in FileType /\ NoFile.ref = 0 /\ NoFile.pipe = 0 /\ NoCall.op = "none"
      /\ NoPipe.used = FALSE /\ NoPipe.readopen = FALSE /\ NoPipe.writeopen = FALSE
  BY DEF NoFile, FileType, NoCall, NoPipe
<1>3. (\A f \in FileNos : f # 0) /\ (\A k \in Pipes : k # 0)
  BY FilesAssumption DEF FileNos, Pipes
<1>4. TablesOK
  <2>1. file \in [FileNos -> FileType]
    BY <1>2 DEF Init
  <2>2. ofile \in [Procs -> [Fds -> FileNos \cup {0}]]
    BY DEF Init
  <2>3. pc \in [Procs -> Pcs]
    BY DEF Init, Pcs
  <2>4. call \in [Procs -> Requests]
    BY DEF Init, Requests
  <2>5. /\ held \in [Procs -> Seq(FileNos)] /\ after \in [Procs -> {"user", "exit"}]
        /\ killed \in [Procs -> BOOLEAN]
    BY DEF Init
  <2> QED BY <2>1, <2>2, <2>3, <2>4, <2>5 DEF TablesOK
<1>5. PipesOK
  BY NewRing DEF Init, PipesOK
<1>6. ASSUME NEW p \in Procs
      PROVE  Control(p) /\ Fresh(p) /\ HasDesc(p) /\ Unborn(p) /\ SleepOK(p)
  BY <1>1, <1>2 DEF Control, Fresh, HasDesc, Unborn, SleepOK
<1>7. ASSUME NEW k \in Pipes
      PROVE  Ring(k)
  <2>1. pipe[k] = NoPipe /\ flow[k] = InRing(NoPipe) /\ Count(NoPipe) <= PIPESIZE
    BY <1>1, NewRing, Sizes
  <2> QED BY <2>1, NewRing DEF Ring, InOrder, InRing
<1>8. RingInv
  BY <1>4, <1>5, <1>6, <1>7, Split
<1>9. RefsInv
  <2>1. ASSUME NEW f \in FileNos
        PROVE  RefsTo(f) = {}
    <3>1. ASSUME NEW x \in Procs \X Places
          PROVE  At(x[1], x[2]) = 0
      <4>1. x[1] \in Procs /\ ofile[x[1]] = [fd \in Fds |-> 0] /\ held[x[1]] = << >>
        BY <1>1
      <4>2. x[2] \in Places /\ NOFILE \in Nat
        BY FilesAssumption
      <4>3. x[2] < NOFILE => x[2] \in Fds
        BY <4>2 DEF Fds, Places
      <4>4. ~ (x[2] < NOFILE) => ~ (x[2] - NOFILE < 0)
        BY <4>2 DEF Places
      <4>5. Len(<< >>) = 0
        OBVIOUS
      <4> QED BY <4>1, <4>3, <4>4, <4>5 DEF At
    <3> QED BY <1>3, <3>1 DEF RefsTo
  <2>2. RefsCounted
    BY <1>1, <1>2, <2>1, FS_EmptySet DEF RefsCounted
  <2> QED BY <1>1, <1>6, <2>2 DEF RefsInv, FreeOK
<1>10. Ends
  <2>1. ASSUME NEW k \in Pipes, NEW w \in BOOLEAN
        PROVE  /\ ~ EndOpen(k, w) /\ \A f \in FileNos : ~ IsEnd(f, k, w)
               /\ \A p \in Procs : ~ Closes(p, k, w)
    BY <1>1, <1>2, <1>3 DEF EndOpen, IsEnd, Closes
  <2> QED BY <1>1, <1>2, <2>1 DEF Ends, Stands, OneEnd
<1>11. SleepersRight
  BY <1>6 DEF SleepersRight, SleepOK
<1> QED BY <1>8, <1>9, <1>10, <1>11, EndsAre DEF IndInv

\* What process p can do next.
Step(p) ==
  \/ \E fd \in Fds : \/ Dup(p, fd) \/ Close(p, fd)
                     \/ \E n \in Reads : Read(p, fd, n)
                     \/ \E s \in Writes : Write(p, fd, s)
  \/ \E q \in Procs : Fork(p, q)
  \/ Open(p) \/ PipeFile0(p) \/ PipeFile1(p) \/ NoPage(p) \/ PipePage(p)
  \/ Fileclose(p) \/ Pipeclose(p) \/ Exit(p) \/ Kill(p)
  \/ ReadWaits(p) \/ Piperead(p) \/ Pipewrite(p) \/ WriteWaits(p)

\* A step keeps the layers one after the other.
LEMMA RingStep ==
  ASSUME RingInv, RefsInv, Ends, NEW p \in Procs, Step(p)
  PROVE  RingInv'
<1>1. ASSUME NEW fd \in Fds, Dup(p, fd)
      PROVE  RingInv'
  BY <1>1, DupRing
<1>2. ASSUME NEW fd \in Fds, Close(p, fd)
      PROVE  RingInv'
  BY <1>2, CloseRing
<1>3. ASSUME NEW fd \in Fds, NEW n \in Reads, Read(p, fd, n)
      PROVE  RingInv'
  BY <1>3, ReadRing
<1>4. ASSUME NEW fd \in Fds, NEW s \in Writes, Write(p, fd, s)
      PROVE  RingInv'
  BY <1>4, WriteRing
<1>5. ASSUME NEW q \in Procs, Fork(p, q)
      PROVE  RingInv'
  BY <1>5, ForkRing
<1>6. CASE Open(p)
  BY <1>6, OpenRing
<1>7. CASE PipeFile0(p)
  BY <1>7, PipeFile0Ring
<1>8. CASE PipeFile1(p)
  BY <1>8, PipeFile1Ring
<1>9. CASE NoPage(p)
  BY <1>9, NoPageRing
<1>10. CASE PipePage(p)
  BY <1>10, PipePageRing
<1>11. CASE Fileclose(p)
  <2>1. pc[p] = "close"
    BY <1>11 DEF Fileclose
  <2>2. file[Head(held[p])].ref # 0
    BY <2>1, ClosingFile
  <2> QED BY <1>11, <2>2, FilecloseRing
<1>12. CASE Pipeclose(p)
  BY <1>12, PipecloseRing
<1>13. CASE Exit(p)
  BY <1>13, ExitRing
<1>14. CASE Kill(p)
  BY <1>14, KillRing
<1>15. CASE ReadWaits(p)
  BY <1>15, ReadWaitsRing
<1>16. CASE Piperead(p)
  BY <1>16, PipereadRing
<1>17. pc[p] = "write" => pipe[call[p].pipe].used
  <2> SUFFICES ASSUME pc[p] = "write"
               PROVE  pipe[call[p].pipe].used
    OBVIOUS
  <2> DEFINE k == call[p].pipe
  <2>1. call[p].op = "write"
    BY Split DEF Control
  <2>2. k \in Pipes /\ \E f \in FileNos : IsEnd(f, k, TRUE)
    BY <2>1, DescEnd
  <2> HIDE DEF k
  <2>3. EndOpen(k, TRUE)
    BY <2>2 DEF Ends, Stands
  <2>4. pipe[k].used
    BY <2>2, <2>3 DEF Ends, EndOpen
  <2> QED BY <2>4 DEF k
<1>18. CASE Pipewrite(p)
  <2>1. pipe[call[p].pipe].used
    BY <1>17, <1>18 DEF Pipewrite
  <2> QED BY <1>18, <2>1, PipewriteRing
<1>19. CASE WriteWaits(p)
  <2>1. pipe[call[p].pipe].used
    BY <1>17, <1>19 DEF WriteWaits
  <2> QED BY <1>19, <2>1, WriteWaitsRing
<1> QED BY <1>1, <1>2, <1>3, <1>4, <1>5, <1>6, <1>7, <1>8, <1>9, <1>10, <1>11, <1>12, <1>13,
           <1>14, <1>15, <1>16, <1>18, <1>19 DEF Step

LEMMA RefsKept ==
  ASSUME RingInv, RingInv', RefsInv, NEW p \in Procs, Step(p)
  PROVE  RefsInv'
<1>1. ASSUME NEW fd \in Fds, Dup(p, fd)
       PROVE  RefsInv'
  BY <1>1, DupRefs
<1>2. ASSUME NEW fd \in Fds, Close(p, fd)
       PROVE  RefsInv'
  BY <1>2, CloseRefs
<1>3. ASSUME NEW fd \in Fds, NEW n \in Reads, Read(p, fd, n)
       PROVE  RefsInv'
  BY <1>3, ReadRefs
<1>4. ASSUME NEW fd \in Fds, NEW s \in Writes, Write(p, fd, s)
       PROVE  RefsInv'
  BY <1>4, WriteRefs
<1>5. ASSUME NEW q \in Procs, Fork(p, q)
       PROVE  RefsInv'
  BY <1>5, ForkRefs
<1>6. CASE Open(p)
  BY <1>6, OpenRefs
<1>7. CASE PipeFile0(p)
  BY <1>7, PipeFile0Refs
<1>8. CASE PipeFile1(p)
  BY <1>8, PipeFile1Refs
<1>9. CASE NoPage(p)
  BY <1>9, NoPageRefs
<1>10. CASE PipePage(p)
  BY <1>10, PipePageRefs
<1>11. CASE Fileclose(p)
  BY <1>11, FilecloseRefs
<1>12. CASE Pipeclose(p)
  BY <1>12, PipecloseRefs
<1>13. CASE Exit(p)
  BY <1>13, ExitRefs
<1>14. CASE Kill(p)
  BY <1>14, KillRefs
<1>15. CASE ReadWaits(p)
  BY <1>15, ReadWaitsRefs
<1>16. CASE Piperead(p)
  BY <1>16, PipereadRefs
<1>17. CASE Pipewrite(p)
  BY <1>17, PipewriteRefs
<1>18. CASE WriteWaits(p)
  BY <1>18, WriteWaitsRefs
<1> QED BY <1>1, <1>2, <1>3, <1>4, <1>5, <1>6, <1>7, <1>8, <1>9, <1>10, <1>11, <1>12, <1>13, <1>14,
           <1>15, <1>16, <1>17, <1>18 DEF Step

LEMMA TopKept ==
  ASSUME RingInv, RefsInv, Ends, SleepersRight, NEW p \in Procs, Step(p)
  PROVE  (Ends /\ SleepersRight)'
<1>1. ASSUME NEW fd \in Fds, Dup(p, fd)
       PROVE  (Ends /\ SleepersRight)'
  BY <1>1, DupTop
<1>2. ASSUME NEW fd \in Fds, Close(p, fd)
       PROVE  (Ends /\ SleepersRight)'
  BY <1>2, CloseTop
<1>3. ASSUME NEW fd \in Fds, NEW n \in Reads, Read(p, fd, n)
       PROVE  (Ends /\ SleepersRight)'
  BY <1>3, ReadTop
<1>4. ASSUME NEW fd \in Fds, NEW s \in Writes, Write(p, fd, s)
       PROVE  (Ends /\ SleepersRight)'
  BY <1>4, WriteTop
<1>5. ASSUME NEW q \in Procs, Fork(p, q)
       PROVE  (Ends /\ SleepersRight)'
  BY <1>5, ForkTop
<1>6. CASE Open(p)
  BY <1>6, OpenTop
<1>7. CASE PipeFile0(p)
  BY <1>7, PipeFile0Top
<1>8. CASE PipeFile1(p)
  BY <1>8, PipeFile1Top
<1>9. CASE NoPage(p)
  BY <1>9, NoPageTop
<1>10. CASE PipePage(p)
  BY <1>10, PipePageTop
<1>11. CASE Fileclose(p)
  BY <1>11, FilecloseTop
<1>12. CASE Pipeclose(p)
  BY <1>12, PipecloseTop
<1>13. CASE Exit(p)
  BY <1>13, ExitTop
<1>14. CASE Kill(p)
  BY <1>14, KillTop
<1>15. CASE ReadWaits(p)
  BY <1>15, ReadWaitsTop
<1>16. CASE Piperead(p)
  BY <1>16, PipereadTop
<1>17. CASE Pipewrite(p)
  BY <1>17, PipewriteTop
<1>18. CASE WriteWaits(p)
  BY <1>18, WriteWaitsTop
<1> QED BY <1>1, <1>2, <1>3, <1>4, <1>5, <1>6, <1>7, <1>8, <1>9, <1>10, <1>11, <1>12, <1>13, <1>14,
           <1>15, <1>16, <1>17, <1>18 DEF Step

LEMMA StepInv ==
  ASSUME IndInv, [Next]_vars
  PROVE  IndInv'
<1>1. RingInv /\ RefsInv /\ Ends /\ SleepersRight
  BY EndsAre DEF IndInv
<1>2. CASE Next
  <2>1. PICK p \in Procs : Step(p)
    BY <1>2 DEF Next, Step
  <2>2. RingInv'
    BY <1>1, <2>1, RingStep
  <2>3. RefsInv'
    BY <1>1, <2>1, <2>2, RefsKept
  <2>4. Ends' /\ SleepersRight'
    BY <1>1, <2>1, TopKept
  <2> QED BY <2>2, <2>3, <2>4, EndsAreNext DEF IndInv
<1>3. CASE UNCHANGED vars
  <2>1. UNCHANGED <<file, ofile, held, after, pipe, pc, call, killed, flow, short>>
    BY <1>3 DEF vars, tables
  <2>2. RingInv'
    <3>1. TypeOK'
      BY <1>1, <2>1 DEF RingInv, TypeOK
    <3>2. \A p \in Procs : Control(p)'
      BY <1>1, <2>1 DEF RingInv, Control
    <3>3. \A k \in Pipes : Ring(k)'
      BY <1>1, <2>1 DEF RingInv, Ring, InOrder, Count
    <3> QED BY <3>1, <3>2, <3>3 DEF RingInv
  <2>3. RefsInv'
    BY <1>1, <2>1, RefsQuiet
  <2>4. Ends' /\ SleepersRight'
    BY <1>1, <2>1, QuietTop
  <2> QED BY <2>2, <2>3, <2>4, EndsAreNext DEF IndInv
<1> QED BY <1>2, <1>3

\* The invariant of pipes and the file table: places in the code, the ring,
\* reference counts and open ends agree on every path of sysfile.c, file.c and
\* pipe.c, whoever runs in between.
THEOREM Invariance == Spec => []IndInv
<1>1. Init => IndInv
  BY InitInv
<1>2. IndInv /\ [Next]_vars => IndInv'
  BY StepInv
<1> QED BY <1>1, <1>2, PTL DEF Spec

\* f->ref counts the references of all processes, and an end of a pipe is open
\* until its file has lost the last of them and pipeclose has run (filedup,
\* fileclose, pipealloc, pipeclose, fork, exit).
THEOREM EndsAreCounted == Spec => []EndsCounted
<1>1. IndInv => EndsCounted
  BY DEF IndInv, RingInv, RefsInv, EndsInv, EndsCounted
<1> QED BY <1>1, Invariance, PTL

\* piperead returns what pipewrite has put into p->data, in order and nothing
\* twice, also after p->nread and p->nwrite have wrapped.
THEOREM BytesInOrderKept == Spec => []BytesInOrder
<1>1. IndInv => BytesInOrder
  BY DEF IndInv, RingInv, Ring, InOrder, BytesInOrder
<1> QED BY <1>1, Invariance, PTL

\* The sleeps of piperead and pipewrite: nobody sleeps who has something to read,
\* room to write or no partner, but for the reader whom a killed writer has not
\* woken (pipe.c:85).
THEOREM SleepersAreRight == Spec => []SleepersRight
<1>1. IndInv => SleepersRight
  BY DEF IndInv
<1> QED BY <1>1, Invariance, PTL
=============================================================================
