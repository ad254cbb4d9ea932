-------------------------------- MODULE Files -------------------------------
(***************************************************************************)
(* Pipes (pipe.c) under the file table (file.c) and the descriptors of     *)
(* processes that fork, exit and are killed (sysfile.c, proc.c).           *)
(*                                                                         *)
(* A critical section of ftable.lock or of a pipe's lock is a step, up to  *)
(* the next sleep.  Descriptors are private to their process, so that a    *)
(* step changes them together with what it does to the file.  The files    *)
(* are those of pipes; module Inodes has the others.                       *)
(***************************************************************************)
EXTENDS Integers, Sequences, FiniteSets

CONSTANTS
  Procs,
  NFile, NOFILE,
  NPipe,      \* the pages kalloc has for pipes
  PIPESIZE,
  Wrap,       \* nread and nwrite are unsigned: they count modulo Wrap
  Writes,     \* what processes write: sequences of bytes
  Reads       \* how many bytes they read

FileNos == 1..NFile
Fds     == 0..(NOFILE - 1)
Pipes   == 1..NPipe
Bytes   == {0} \cup UNION {{w[i] : i \in DOMAIN w} : w \in Writes}

ASSUME FilesAssumption ==
  /\ {NFile, NOFILE, NPipe, PIPESIZE, Wrap} \subseteq Nat \ {0}
  /\ Wrap > PIPESIZE /\ Wrap % PIPESIZE = 0
  /\ IsFiniteSet(Procs)
  /\ Writes \subseteq Seq(Nat) /\ Reads \subseteq Nat \ {0}

VARIABLES
  file,       \* ftable.file: [ref, pipe, writable]; pipe is 0 for FD_NONE
  ofile,      \* p->ofile
  pipe,       \* [used, nread, nwrite, data, readopen, writeopen]; used: the page is
              \* allocated
  pc,
  call,       \* what a process does with a pipe, if anything
  held,       \* the files it has references to outside of ofile, those in fileclose first
  after,      \* where it goes on when they are closed
  killed,
  flow,       \* history: the bytes written to a pipe and not yet read
  short       \* history: a killed writer gave up since readers were last woken

tables == <<file, ofile, held, after>>
vars   == <<tables, pipe, pc, call, killed, flow, short>>

Pcs    == {"unused", "user", "exit", "file", "page", "close", "pipeclose",
           "read", "readsleep", "write", "writesleep"}
NoCall == [op |-> "none"]
Requests == {NoCall} \cup [op : {"close"}, pipe : Pipes, writable : BOOLEAN]
            \cup [op : {"read"}, pipe : Pipes, n : Reads]
            \cup [op : {"write"}, pipe : Pipes, bytes : Seq(Bytes)]
NoFile == [ref |-> 0, pipe |-> 0, writable |-> FALSE]
NoPipe == [used |-> FALSE, nread |-> 0, nwrite |-> 0, data |-> [j \in 0..(PIPESIZE - 1) |-> 0],
           readopen |-> FALSE, writeopen |-> FALSE]
NewPipe == [NoPipe EXCEPT !.used = TRUE, !.readopen = TRUE, !.writeopen = TRUE]

Lowest(S)   == CHOOSE x \in S : \A y \in S : x <= y
Goto(p, l)  == pc' = [pc EXCEPT ![p] = l]
Calls(p)    == pc[p] = "user" /\ ~ killed[p]  \* a killed process only exits (trap.c)
Return(p)   == Goto(p, "user") /\ call' = [call EXCEPT ![p] = NoCall]

-----------------------------------------------------------------------------
(* The file table and the descriptors.                                     *)

FreeFiles  == {f \in FileNos : file[f].ref = 0}
FreeFds(p) == {fd \in Fds : ofile[p][fd] = 0}

\* filealloc takes the first file without references.
Filealloc == [file EXCEPT ![Lowest(FreeFiles)].ref = 1]

\* Mutant: the references are copied and not counted.
NotDupped(p, S) == file

\* filedup for the files of the descriptors S.
Dupped(p, S) ==
  [f \in FileNos |-> [file[f] EXCEPT !.ref = @ + Cardinality({fd \in S : ofile[p][fd] = f})]]

\* sys_dup, unless there is no free descriptor.
Dup(p, fd) ==
  /\ Calls(p)
  /\ ofile[p][fd] # 0 /\ FreeFds(p) # {}
  /\ ofile' = [ofile EXCEPT ![p][Lowest(FreeFds(p))] = ofile[p][fd]]
  /\ file' = Dupped(p, {fd})
  /\ UNCHANGED <<pipe, pc, call, held, after, killed, flow, short>>

\* fileclose for the files s, then go on at l.
CloseAll(p, s, l) ==
  /\ held' = [held EXCEPT ![p] = s]
  /\ IF s = << >>
     THEN Goto(p, l) /\ after' = [after EXCEPT ![p] = "user"]
     ELSE Goto(p, "close") /\ after' = [after EXCEPT ![p] = l]

\* sys_open, of which module Inodes has the rest: a file that is not of a pipe.
Open(p) ==
  /\ Calls(p)
  /\ FreeFiles # {}
  /\ file' = Filealloc
  /\ IF FreeFds(p) # {}
     THEN /\ ofile' = [ofile EXCEPT ![p][Lowest(FreeFds(p))] = Lowest(FreeFiles)]
          /\ CloseAll(p, << >>, "user")
     ELSE UNCHANGED ofile /\ CloseAll(p, <<Lowest(FreeFiles)>>, "user")
  /\ UNCHANGED <<pipe, call, killed, flow, short>>

\* fork: filedup of every open file, which nobody else can close meanwhile.
Fork(p, q) ==
  /\ Calls(p)
  /\ pc[q] = "unused"
  /\ file' = Dupped(p, Fds)
  /\ ofile' = [ofile EXCEPT ![q] = ofile[p]]
  /\ Goto(q, "user")
  /\ UNCHANGED <<pipe, call, held, after, killed, flow, short>>

\* sys_close
Close(p, fd) ==
  /\ Calls(p)
  /\ ofile[p][fd] # 0
  /\ ofile' = [ofile EXCEPT ![p][fd] = 0]
  /\ CloseAll(p, <<ofile[p][fd]>>, "user")
  /\ UNCHANGED <<file, pipe, call, killed, flow, short>>

\* exit closes all descriptors, from the first, and does not look at killed again.
Exit(p) ==
  /\ pc[p] \in {"user", "exit"}
  /\ IF FreeFds(p) = Fds
     THEN CloseAll(p, << >>, "unused") /\ UNCHANGED ofile
     ELSE LET fd == Lowest(Fds \ FreeFds(p))
          IN  /\ ofile' = [ofile EXCEPT ![p][fd] = 0]
              /\ CloseAll(p, <<ofile[p][fd]>>, "exit")
  /\ killed' = [killed EXCEPT ![p] = FALSE]
  /\ UNCHANGED <<file, pipe, call, flow, short>>

\* fileclose, under ftable.lock: the last reference goes on to pipeclose.
Fileclose(p) ==
  /\ pc[p] = "close"
  /\ LET f == Head(held[p])
     IN  IF file[f].ref = 1 /\ file[f].pipe # 0
         THEN /\ file' = [file EXCEPT ![f] = NoFile]
              /\ held' = [held EXCEPT ![p] = Tail(@)]
              /\ call' = [call EXCEPT ![p] = [op |-> "close", pipe |-> file[f].pipe,
                                              writable |-> file[f].writable]]
              /\ Goto(p, "pipeclose")
              /\ UNCHANGED after
         ELSE /\ file' = [file EXCEPT ![f] = IF file[f].ref = 1 THEN NoFile
                                             ELSE [file[f] EXCEPT !.ref = @ - 1]]
              /\ CloseAll(p, Tail(held[p]), after[p])
              /\ UNCHANGED call
  /\ UNCHANGED <<ofile, pipe, killed, flow, short>>

-----------------------------------------------------------------------------
(* sys_pipe and pipealloc.                                                 *)

PipeFile0(p) ==
  /\ Calls(p)
  /\ FreeFiles # {}
  /\ file' = Filealloc
  /\ held' = [held EXCEPT ![p] = <<Lowest(FreeFiles)>>]
  /\ Goto(p, "file")
  /\ UNCHANGED <<ofile, pipe, call, after, killed, flow, short>>

PipeFile1(p) ==
  /\ pc[p] = "file"
  /\ IF FreeFiles # {}
     THEN /\ file' = Filealloc
          /\ held' = [held EXCEPT ![p] = Append(@, Lowest(FreeFiles))]
          /\ Goto(p, "page")
          /\ UNCHANGED after
     ELSE UNCHANGED file /\ CloseAll(p, held[p], "user")
  /\ UNCHANGED <<ofile, pipe, call, killed, flow, short>>

\* kalloc fails.
NoPage(p) ==
  /\ pc[p] = "page"
  /\ \A k \in Pipes : pipe[k].used
  /\ CloseAll(p, held[p], "user")
  /\ UNCHANGED <<file, ofile, pipe, call, killed, flow, short>>

\* The new pipe, with two descriptors for its files, or none and they are closed.
PipePage(p) ==
  /\ pc[p] = "page"
  /\ \E k \in Pipes :
       /\ ~ pipe[k].used /\ \A j \in 1..(k - 1) : pipe[j].used
       /\ pipe' = [pipe EXCEPT ![k] = NewPipe]
       /\ file' = [file EXCEPT ![held[p][1]].pipe = k, ![held[p][2]].pipe = k,
                               ![held[p][2]].writable = TRUE]
  /\ IF Cardinality(FreeFds(p)) >= 2
     THEN LET fd0 == Lowest(FreeFds(p))
              fd1 == Lowest(FreeFds(p) \ {fd0})
          IN  /\ ofile' = [ofile EXCEPT ![p][fd0] = held[p][1], ![p][fd1] = held[p][2]]
              /\ CloseAll(p, << >>, "user")
     ELSE UNCHANGED ofile /\ CloseAll(p, held[p], "user")
  /\ UNCHANGED <<call, killed, flow, short>>

-----------------------------------------------------------------------------
(* pipeclose, piperead and pipewrite.                                      *)

\* wakeup(&nread) wakes those asleep in piperead, wakeup(&nwrite) the others.
Woken(k, l) ==
  [p \in Procs |->
    IF pc[p] \in {"readsleep", "writesleep"} /\ call[p].pipe = k /\ call[p].op = l THEN l
    ELSE pc[p]]

\* Mutant: the reader who goes wakes nobody.
ToldWriter(k, w) == IF w THEN Woken(k, "read") ELSE pc

\* Those the close of an end wakes: the other end's.
Told(k, w) == Woken(k, IF w THEN "read" ELSE "write")

Freed(q) == IF q.readopen \/ q.writeopen THEN q ELSE NoPipe

Pipeclose(p) ==
  /\ pc[p] = "pipeclose"
  /\ LET k    == call[p].pipe
         w    == call[p].writable
         next == IF held[p] = << >> THEN after[p] ELSE "close"
     IN  /\ pipe' = [pipe EXCEPT ![k] = Freed(IF w THEN [@ EXCEPT !.writeopen = FALSE]
                                                   ELSE [@ EXCEPT !.readopen = FALSE])]
         /\ flow' = [flow EXCEPT ![k] = IF pipe'[k].used THEN @ ELSE << >>]
         /\ short' = [short EXCEPT ![k] = @ /\ ~ w]
         /\ pc' = [Told(k, w) EXCEPT ![p] = next]
         /\ after' = [after EXCEPT ![p] = IF next = "close" THEN @ ELSE "user"]
  /\ call' = [call EXCEPT ![p] = NoCall]
  /\ UNCHANGED <<file, ofile, held, killed>>

\* The descriptor is of the reading or of the writing end of a pipe.
HasEnd(p, fd, w) ==
  ofile[p][fd] # 0 /\ LET f == file[ofile[p][fd]] IN f.pipe # 0 /\ f.writable = w

\* fileread and filewrite, with a descriptor that allows it.
Read(p, fd, n) ==
  /\ Calls(p)
  /\ HasEnd(p, fd, FALSE)
  /\ call' = [call EXCEPT ![p] = [op |-> "read", pipe |-> file[ofile[p][fd]].pipe, n |-> n]]
  /\ Goto(p, "read")
  /\ UNCHANGED <<tables, pipe, killed, flow, short>>

Write(p, fd, s) ==
  /\ Calls(p)
  /\ HasEnd(p, fd, TRUE)
  /\ call' = [call EXCEPT ![p] = [op |-> "write", pipe |-> file[ofile[p][fd]].pipe, bytes |-> s]]
  /\ Goto(p, "write")
  /\ UNCHANGED <<tables, pipe, killed, flow, short>>

Count(q) == (q.nwrite - q.nread) % Wrap
Empty(q) == q.nread = q.nwrite
\* Mutant: one byte too many.
FullLate(q) == Count(q) = PIPESIZE + 1
Full(q)  == q.nwrite = (q.nread + PIPESIZE) % Wrap

\* sleep: a kill that comes between the test of killed and the sleep wakes nobody.
Sleep(p, l) ==
  /\ Goto(p, l)
  /\ \/ UNCHANGED killed
     \/ killed' = [killed EXCEPT ![p] = TRUE]

\* piperead: wait for a byte or for the last writer to go.
ReadWaits(p) ==
  /\ pc[p] = "read"
  /\ LET q == pipe[call[p].pipe] IN Empty(q) /\ q.writeopen
  /\ IF killed[p] THEN Return(p) /\ UNCHANGED killed
     ELSE Sleep(p, "readsleep") /\ UNCHANGED call
  /\ UNCHANGED <<tables, pipe, flow, short>>

Least(a, b) == IF a < b THEN a ELSE b

\* m bytes from nread on.  What is read is cleared, which the code does not do: it
\* is not read again before it is overwritten, as BytesInOrder shows.
Taken(q, m) ==
  [q EXCEPT !.nread = (@ + m) % Wrap,
            !.data = [j \in DOMAIN @ |->
              IF \E i \in 0..(m - 1) : (q.nread + i) % PIPESIZE = j THEN 0 ELSE @[j]]]

\* piperead takes what there is, which may be nothing: end of file.
Piperead(p) ==
  /\ pc[p] = "read"
  /\ LET k == call[p].pipe
         q == pipe[k]
         m == Least(call[p].n, Count(q))
     IN  /\ ~ (Empty(q) /\ q.writeopen)
         /\ pipe' = [pipe EXCEPT ![k] = Taken(@, m)]
         /\ flow' = [flow EXCEPT ![k] = SubSeq(@, m + 1, Len(@))]
         /\ pc' = [Woken(k, "write") EXCEPT ![p] = "user"]
  /\ call' = [call EXCEPT ![p] = NoCall]
  /\ UNCHANGED <<tables, killed, short>>

\* The bytes s, from nwrite on.
Stored(q, s) ==
  [q EXCEPT !.nwrite = (@ + Len(s)) % Wrap,
            !.data = [j \in DOMAIN @ |->
              LET I == {i \in 1..Len(s) : (q.nwrite + i - 1) % PIPESIZE = j}
              IN  IF I = {} THEN @[j] ELSE s[CHOOSE i \in I : \A h \in I : h <= i]]]

\* The bytes that are written before the pipe is full.
Fit(p) ==
  LET q == pipe[call[p].pipe]
      s == call[p].bytes
      N == {i \in 0..Len(s) : \A j \in 0..(i - 1) : ~ Full([q EXCEPT !.nwrite = (@ + j) % Wrap])}
  IN  SubSeq(s, 1, CHOOSE i \in N : \A j \in N : j <= i)

\* pipewrite: everything is written, and the readers are woken.
Pipewrite(p) ==
  /\ pc[p] = "write"
  /\ Fit(p) = call[p].bytes
  /\ LET k == call[p].pipe
     IN  /\ pipe' = [pipe EXCEPT ![k] = Stored(@, call[p].bytes)]
         /\ flow' = [flow EXCEPT ![k] = @ \o call[p].bytes]
         /\ short' = [short EXCEPT ![k] = FALSE]
         /\ pc' = [Woken(k, "read") EXCEPT ![p] = "user"]
  /\ call' = [call EXCEPT ![p] = NoCall]
  /\ UNCHANGED <<tables, killed>>

\* pipewrite: the pipe is full before that; give up, without a wakeup, if nobody
\* reads or the process is killed, or else wake the readers and sleep.
WriteWaits(p) ==
  /\ pc[p] = "write"
  /\ Fit(p) # call[p].bytes
  /\ LET k    == call[p].pipe
         s    == Fit(p)
         rest == SubSeq(call[p].bytes, Len(s) + 1, Len(call[p].bytes))
     IN  /\ pipe' = [pipe EXCEPT ![k] = Stored(@, s)]
         /\ flow' = [flow EXCEPT ![k] = @ \o s]
         /\ IF ~ pipe[k].readopen \/ killed[p]
            THEN /\ Return(p)
                 /\ short' = [short EXCEPT ![k] = TRUE]
                 /\ UNCHANGED killed
            ELSE /\ pc' = [Woken(k, "read") EXCEPT ![p] = "writesleep"]
                 /\ call' = [call EXCEPT ![p].bytes = rest]
                 /\ short' = [short EXCEPT ![k] = FALSE]
                 /\ killed' \in {killed, [killed EXCEPT ![p] = TRUE]}
  /\ UNCHANGED tables

\* kill, by another process or by a trap; it wakes the process from sleep.  One
\* that exits does not look at killed again.
Kill(p) ==
  /\ pc[p] \notin {"unused", "exit"} /\ after[p] # "exit"
  /\ killed' = [killed EXCEPT ![p] = TRUE]
  /\ pc' = [pc EXCEPT ![p] = IF @ \in {"readsleep", "writesleep"} THEN call[p].op ELSE @]
  /\ UNCHANGED <<tables, pipe, call, flow, short>>

-----------------------------------------------------------------------------
\* One process without files.
Init ==
  /\ file = [f \in FileNos |-> NoFile]
  /\ ofile = [p \in Procs |-> [fd \in Fds |-> 0]]
  /\ pipe = [k \in Pipes |-> NoPipe]
  /\ \E p \in Procs : pc = [q \in Procs |-> IF q = p THEN "user" ELSE "unused"]
  /\ call = [p \in Procs |-> NoCall]
  /\ held = [p \in Procs |-> << >>]
  /\ after = [p \in Procs |-> "user"]
  /\ killed = [p \in Procs |-> FALSE]
  /\ flow = [k \in Pipes |-> << >>]
  /\ short = [k \in Pipes |-> FALSE]

Next ==
  \E p \in Procs :
    \/ \E fd \in Fds :
         \/ Dup(p, fd) \/ Close(p, fd)
         \/ \E n \in Reads : Read(p, fd, n)
         \/ \E s \in Writes : Write(p, fd, s)
    \/ \E q \in Procs : Fork(p, q)
    \/ Open(p) \/ PipeFile0(p) \/ PipeFile1(p) \/ NoPage(p) \/ PipePage(p)
    \/ Fileclose(p) \/ Pipeclose(p) \/ Exit(p) \/ Kill(p)
    \/ ReadWaits(p) \/ Piperead(p) \/ Pipewrite(p) \/ WriteWaits(p)

Spec == Init /\ [][Next]_vars

-----------------------------------------------------------------------------
\* Every variable keeps its type; the counters stay unsigned.
TypeOK ==
  /\ file \in [FileNos -> [ref : Nat, pipe : Pipes \cup {0}, writable : BOOLEAN]]
  /\ ofile \in [Procs -> [Fds -> FileNos \cup {0}]]
  /\ pipe \in [Pipes -> [used : BOOLEAN, nread : 0..(Wrap - 1), nwrite : 0..(Wrap - 1),
                         data : [0..(PIPESIZE - 1) -> Bytes],
                         readopen : BOOLEAN, writeopen : BOOLEAN]]
  /\ pc \in [Procs -> Pcs]
  /\ call \in [Procs -> Requests]
  /\ held \in [Procs -> Seq(FileNos)]
  /\ after \in [Procs -> {"user", "exit"}]
  /\ killed \in [Procs -> BOOLEAN]
  /\ flow \in [Pipes -> Seq(Bytes)]
  /\ short \in [Pipes -> BOOLEAN]

\* Where a process has references: its descriptors, and two places more for the files
\* it is making or closing.
Places   == 0..(NOFILE + 1)
At(p, i) == IF i < NOFILE THEN ofile[p][i]
            ELSE IF i - NOFILE < Len(held[p]) THEN held[p][i - NOFILE + 1] ELSE 0
RefsTo(f) == {x \in Procs \X Places : At(x[1], x[2]) = f}

\* f->ref is the number of the references to the file in all processes.
RefsCounted == \A f \in FileNos : file[f].ref = Cardinality(RefsTo(f))

\* An end is open until its file has lost the last reference and pipeclose has
\* seen it; the page lives as long as an end; who reads or writes has the page.
EndsAgree ==
  \A k \in Pipes :
    /\ \A w \in BOOLEAN :
         (IF w THEN pipe[k].writeopen ELSE pipe[k].readopen) <=>
           \/ \E f \in FileNos : file[f].ref > 0 /\ file[f].pipe = k /\ file[f].writable = w
           \/ \E p \in Procs : call[p] = [op |-> "close", pipe |-> k, writable |-> w]
    /\ pipe[k].used <=> pipe[k].readopen \/ pipe[k].writeopen
    /\ \A p \in Procs : call[p].op = "read" /\ call[p].pipe = k => pipe[k].readopen
    /\ \A p \in Procs : call[p].op = "write" /\ call[p].pipe = k => pipe[k].writeopen

\* What is in the ring is what has been written and not been read, in order,
\* also after the counters have wrapped.
BytesInOrder ==
  \A k \in Pipes :
    flow[k] = [i \in 1..Count(pipe[k]) |-> pipe[k].data[(pipe[k].nread + i - 1) % PIPESIZE]]

\* A reader sleeps only while the pipe is empty and somebody can write, a writer
\* only while it is full and somebody can read.  The exception is a reader of
\* what a killed writer has written before it gave up: nobody wakes him
\* (pipe.c:85).
SleepersRight ==
  \A p \in Procs :
    LET k == call[p].pipe
    IN  /\ pc[p] = "readsleep" => pipe[k].writeopen /\ (Empty(pipe[k]) \/ short[k])
        /\ pc[p] = "writesleep" => pipe[k].readopen /\ Full(pipe[k])

\* References and open ends agree on every path of the calls, their failures included
\* (filedup, fileclose, pipealloc, pipeclose, fork, exit).
EndsCounted == TypeOK /\ RefsCounted /\ EndsAgree
=============================================================================
