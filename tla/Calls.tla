------------------------------- MODULE Calls --------------------------------
(***************************************************************************)
(* The system calls as programs use them (sysfile.c, sysproc.c and what they *)
(* call): a call takes effect at once, or blocks until it can.  What happens *)
(* inside a call is the business of Inodes, Files, Proc and Memory; here     *)
(* references are not counted: a file, a pipe or an inode is there as long   *)
(* as something refers to it.                                              *)
(*                                                                         *)
(* A program is a sequence of calls, each with the results it goes on with;  *)
(* with another result it reports a failure and exits.                      *)
(***************************************************************************)
EXTENDS Integers, FiniteSets, SequencesExt, FiniteSetsExt, TLC

CONSTANTS
  NPROC, NOFILE, NFILE, PIPESIZE,
  DIRSIZ,      \* characters of a name that count
  MAXFILE,     \* the longest file, in bytes
  PGSIZE,
  NPages,      \* pages for user memory
  ImageSize,   \* the size of a program when it starts
  Programs     \* what is run: [main: the calls of a program, out: what it prints]

VARIABLES
  kernel,   \* ip: the inodes; ft: the open files; pp: what is in the pipes; pr: the
            \* processes; out: what was written to the console
  failed,   \* a program got a result it does not expect
  test      \* the program that is run

callVars == <<kernel, failed, test>>

ROOTINO == 1
Init1   == 1     \* initproc; a pid is the slot of the process

-----------------------------------------------------------------------------
\* Paths (fs.c).

\* skipelem, all at once: the names in a path, each cut to DIRSIZ characters.
Path(path) ==
  LET cuts == SetToSortSeq({0, Len(path) + 1}
                             \cup {i \in 1..Len(path) : SubSeq(path, i, i) = "/"}, <)
      names == [j \in 1..(Len(cuts) - 1) |-> SubSeq(path, cuts[j] + 1, cuts[j + 1] - 1)]
      Cut(n) == IF Len(n) > DIRSIZ THEN SubSeq(n, 1, DIRSIZ) ELSE n
      some == SelectSeq(names, LAMBDA n : n # "")
  IN  [abs |-> Len(path) > 0 /\ SubSeq(path, 1, 1) = "/",
       names |-> [j \in DOMAIN some |-> Cut(some[j])]]

Entry(n, i) == [name |-> n, inum |-> i]
NoEntry     == Entry("", 0)

\* dirlookup; 0 where the name is not.
Dirlookup(k, d, n) ==
  LET hits == {e \in ToSet(k.ip[d].data) : e.inum # 0 /\ e.name = n}
  IN  IF hits = {} THEN 0 ELSE (CHOOSE e \in hits : TRUE).inum

\* dirlink, of a name that is not there: in the first free entry.
Dirlink(k, d, n, i) ==
  LET data == k.ip[d].data
      free == {j \in DOMAIN data : data[j].inum = 0} \cup {Len(data) + 1}
  IN  [k EXCEPT !.ip[d].data = IF Min(free) > Len(data) THEN Append(@, Entry(n, i))
                               ELSE [@ EXCEPT ![Min(free)] = Entry(n, i)]]

\* namex
Walk(k, p, path, names) ==
  FoldLeft(LAMBDA i, n : IF i = 0 \/ k.ip[i].type # "dir" THEN 0 ELSE Dirlookup(k, i, n),
           IF path.abs THEN ROOTINO ELSE k.pr[p].cwd, names)

Namei(k, p, path) == Walk(k, p, path, path.names)

Nameiparent(k, p, path) ==
  IF path.names = << >> THEN 0
  ELSE LET d == Walk(k, p, path, Front(path.names))
       IN  IF d = 0 \/ k.ip[d].type # "dir" THEN 0 ELSE d

FileName(path) == Last(path.names)

-----------------------------------------------------------------------------
\* Open files (file.c).  A descriptor is 0 when it is closed.

Used(k)  == UNION {Range(k.pr[p].fd) : p \in DOMAIN k.pr} \ {0}
Fdalloc(k, p) ==
  LET free == {d \in 0..(NOFILE - 1) : k.pr[p].fd[d] = 0} IN IF free = {} THEN -1 ELSE Min(free)
Filealloc(k) ==
  LET free == (1..NFILE) \ DOMAIN k.ft IN IF free = {} THEN 0 ELSE Min(free)

Readopen(k, q)  == \E f \in DOMAIN k.ft : k.ft[f].pipe = q /\ k.ft[f].readable
Writeopen(k, q) == \E f \in DOMAIN k.ft : k.ft[f].pipe = q /\ k.ft[f].writable

\* fileclose, pipeclose and iput: what nothing refers to any more is free.
Keep(f, S) == [x \in DOMAIN f \cap S |-> f[x]]
Collect(k) ==
  LET ft   == Keep(k.ft, Used(k))
      refs == {ft[f].ip : f \in DOMAIN ft} \cup {k.pr[p].cwd : p \in DOMAIN k.pr}
  IN  [k EXCEPT !.ft = ft,
                !.pp = Keep(@, {ft[f].pipe : f \in DOMAIN ft}),
                !.ip = Keep(@, {i \in DOMAIN @ : @[i].nlink > 0 \/ i \in refs})]

-----------------------------------------------------------------------------
\* The calls on names (sysfile.c).  A call returns the kernel and a number.

Ret(k, v) == [k |-> k, v |-> v]
Fail(k)   == Ret(k, -1)
First(S)  == Min((1..(Cardinality(S) + 1)) \ S)     \* ialloc and allocproc take the first

\* create: i is 0 where it fails.
Create(k, p, path, type) ==
  LET d   == Nameiparent(k, p, path)
      n   == FileName(path)
      old == Dirlookup(k, d, n)
      i   == First(DOMAIN k.ip)
      new == [type |-> type, nlink |-> 1,
              data |-> IF type = "dir" THEN <<Entry(".", i), Entry("..", d)>> ELSE << >>]
      k1  == [k EXCEPT !.ip = (i :> new) @@ [@ EXCEPT ![d].nlink = @ + (IF type = "dir" THEN 1
                                                                        ELSE 0)]]
  IN  IF d = 0 THEN [k |-> k, i |-> 0]
      ELSE IF old # 0
           THEN [k |-> k, i |-> IF type = "file" /\ k.ip[old].type = "file" THEN old ELSE 0]
           ELSE [k |-> Dirlink(k1, d, n, i), i |-> i]

File(type, i, q, mode) ==
  [type |-> type, ip |-> i, pipe |-> q, off |-> 0,
   readable |-> "WRONLY" \notin mode, writable |-> {"WRONLY", "RDWR"} \cap mode # {}]

\* With O_CREATE the file stays when there is no descriptor for it.
Sys_open(k, p, c) ==
  LET made == IF "CREATE" \in c.mode THEN Create(k, p, c.path, "file")
              ELSE [k |-> k, i |-> Namei(k, p, c.path)]
      f == Filealloc(k)
      d == Fdalloc(k, p)
  IN  IF \/ made.i = 0
         \/ made.k.ip[made.i].type = "dir" /\ c.mode # {}
         \/ f = 0 \/ d = -1
      THEN Fail(made.k)
      ELSE Ret([made.k EXCEPT !.ft = (f :> File("inode", made.i, 0, c.mode)) @@ @,
                              !.pr[p].fd[d] = f], d)

Sys_mkdir(k, p, c) ==
  LET made == Create(k, p, c.path, "dir") IN Ret(made.k, IF made.i = 0 THEN -1 ELSE 0)
Sys_mknod(k, p, c) ==
  LET made == Create(k, p, c.path, "dev") IN Ret(made.k, IF made.i = 0 THEN -1 ELSE 0)

Sys_link(k, p, c) ==
  LET i == Namei(k, p, c.path)
      d == Nameiparent(k, p, c.new)
  IN  IF \/ i = 0 \/ d = 0
         \/ k.ip[i].type = "dir"
         \/ Dirlookup(k, d, FileName(c.new)) # 0
      THEN Fail(k)
      ELSE Ret(Dirlink([k EXCEPT !.ip[i].nlink = @ + 1], d, FileName(c.new), i), 0)

\* Mutant: a directory goes with the files in it.
IsdiremptyAlways(k, i) == i \in DOMAIN k.ip

Isdirempty(k, i) == \A j \in 3..Len(k.ip[i].data) : k.ip[i].data[j].inum = 0

Sys_unlink(k, p, c) ==
  LET d == Nameiparent(k, p, c.path)
      n == FileName(c.path)
      i == Dirlookup(k, d, n)
  IN  IF \/ d = 0
         \/ n \in {".", ".."}
         \/ i = 0
         \/ k.ip[i].type = "dir" /\ ~ Isdirempty(k, i)
      THEN Fail(k)
      ELSE Ret([k EXCEPT !.ip[d].data = [j \in DOMAIN @ |->
                                           IF @[j].name = n THEN NoEntry ELSE @[j]],
                         !.ip[d].nlink = @ - (IF k.ip[i].type = "dir" THEN 1 ELSE 0),
                         !.ip[i].nlink = @ - 1], 0)

Sys_chdir(k, p, c) ==
  LET i == Namei(k, p, c.path)
  IN  IF i = 0 \/ k.ip[i].type # "dir" THEN Fail(k) ELSE Ret([k EXCEPT !.pr[p].cwd = i], 0)

-----------------------------------------------------------------------------
\* The calls on descriptors.  A variable of the program holds the descriptor.

Fd(k, p, c) == k.pr[p].reg[c.fd]
IsOpen(k, p, d) == d \in 0..(NOFILE - 1) /\ k.pr[p].fd[d] # 0
The(k, p, c) == k.ft[k.pr[p].fd[Fd(k, p, c)]]

Sys_close(k, p, c) ==
  IF IsOpen(k, p, Fd(k, p, c)) THEN Ret([k EXCEPT !.pr[p].fd[Fd(k, p, c)] = 0], 0) ELSE Fail(k)

Sys_dup(k, p, c) ==
  LET d == Fdalloc(k, p)
  IN  IF d = -1 \/ ~ IsOpen(k, p, Fd(k, p, c)) THEN Fail(k)
      ELSE Ret([k EXCEPT !.pr[p].fd[d] = k.pr[p].fd[Fd(k, p, c)]], d)

\* The reader is k.pr[p].reg["r"], the writer "w"; they are set with the call.
Sys_pipe(k, p, c) ==
  LET rf == Filealloc(k)
      k1 == [k EXCEPT !.ft = (rf :> File("pipe", 0, rf, {})) @@ @, !.pr[p].fd[Fdalloc(k, p)] = rf]
      wf == Filealloc(k1)
      k2 == [k1 EXCEPT !.ft = (wf :> File("pipe", 0, rf, {"WRONLY"})) @@ @,
                       !.pr[p].fd[Fdalloc(k1, p)] = wf,
                       !.pp = (rf :> << >>) @@ @,
                       !.pr[p].reg = ("r" :> Fdalloc(k, p)) @@ ("w" :> Fdalloc(k1, p)) @@ @]
  IN  IF rf = 0 \/ Fdalloc(k, p) = -1 THEN Fail(k)
      ELSE IF wf = 0 \/ Fdalloc(k1, p) = -1 THEN Fail(k)
      ELSE Ret(k2, 0)

\* The kernel after a read of n bytes, or entries of a directory, and what was read
\* (fileread, readi, piperead).
Fileread(k, p, c, n) ==
  LET f   == The(k, p, c)
      got == IF f.type = "pipe" THEN SubSeq(k.pp[f.pipe], 1, Min({n, Len(k.pp[f.pipe])}))
             ELSE SubSeq(k.ip[f.ip].data, f.off + 1, Min({f.off + n, Len(k.ip[f.ip].data)}))
  IN  [got |-> got,
       k |-> IF f.type = "pipe"
             THEN [k EXCEPT !.pp[f.pipe] = SubSeq(@, Len(got) + 1, Len(@))]
             ELSE [k EXCEPT !.ft[k.pr[p].fd[Fd(k, p, c)]].off = @ + Len(got)]]

\* piperead waits while a writer may come.
MayRead(k, p, c) ==
  LET f == The(k, p, c) IN f.type = "pipe" => k.pp[f.pipe] # << >> \/ ~ Writeopen(k, f.pipe)

\* writei, of bytes at the offset of the file.
Stored(data, off, text) ==
  [j \in 1..Max({Len(data), off + Len(text)}) |->
     IF j - off \in DOMAIN text THEN text[j - off] ELSE data[j]]

\* filewrite to an inode, of no more than goes into one transaction.
Filewrite(k, p, c) ==
  LET f == The(k, p, c)
  IN  IF ~ f.writable THEN Fail(k)
      ELSE IF k.ip[f.ip].type = "dev" THEN Ret([k EXCEPT !.out = @ \o c.text], Len(c.text))
      ELSE IF f.off + Len(c.text) > MAXFILE THEN Fail(k)
      ELSE Ret([k EXCEPT !.ip[f.ip].data = Stored(@, f.off, c.text),
                         !.ft[k.pr[p].fd[Fd(k, p, c)]].off = @ + Len(c.text)], Len(c.text))

\* pipewrite: the bytes there is room for, and waits while there is none and a reader.
Room(k, p, c) == PIPESIZE - Len(k.pp[The(k, p, c).pipe])
Pipewrite(k, p, c) ==
  [k EXCEPT !.pp[The(k, p, c).pipe] = @ \o SubSeq(c.text, 1, Min({Room(k, p, c), Len(c.text)}))]

-----------------------------------------------------------------------------
\* The calls on processes and memory (proc.c, vm.c, exec.c).

Pages(size)  == (size + PGSIZE - 1) \div PGSIZE
FreePages(k) == NPages - MapThenSumSet(LAMBDA p : Pages(k.pr[p].sz), DOMAIN k.pr)

Process(parent, cwd, fd, todo, reg, sz, mem) ==
  [state |-> "RUNNABLE", parent |-> parent, killed |-> FALSE, cwd |-> cwd, fd |-> fd,
   todo |-> todo, reg |-> reg, sz |-> sz, mem |-> mem]

Sys_fork(k, p, c) ==
  LET s == First(DOMAIN k.pr)
      r == k.pr[p]
  IN  IF s > NPROC \/ Pages(r.sz) > FreePages(k) THEN Fail(k)
      ELSE Ret([k EXCEPT !.pr = (s :> Process(p, r.cwd, r.fd, c.child, (c.var :> 0) @@ r.reg,
                                              r.sz, r.mem)) @@ @], s)

\* exit: the files and the directory go, children go to init.
ExitOf(k, p) ==
  [k EXCEPT !.pr = [q \in DOMAIN @ |->
     IF q = p THEN [@[q] EXCEPT !.state = "ZOMBIE", !.cwd = 0, !.todo = << >>,
                                !.fd = [d \in DOMAIN @ |-> 0]]
     ELSE IF @[q].parent = p THEN [@[q] EXCEPT !.parent = Init1] ELSE @[q]]]

Children(k, p) == {q \in DOMAIN k.pr : k.pr[q].parent = p}
Zombies(k, p)  == {q \in Children(k, p) : k.pr[q].state = "ZOMBIE"}
MayWait(k, p)  == Zombies(k, p) # {} \/ Children(k, p) = {}

Sys_wait(k, p) ==
  IF Zombies(k, p) = {} THEN Fail(k)
  ELSE LET z == Min(Zombies(k, p)) IN Ret([k EXCEPT !.pr = Keep(@, DOMAIN @ \ {z})], z)

Sys_kill(k, p, c) ==
  LET q == k.pr[p].reg[c.pid]
  IN  IF q \in DOMAIN k.pr THEN Ret([k EXCEPT !.pr[q].killed = TRUE], 0) ELSE Fail(k)

\* exec of a program that is there; its arguments go into one page.
Sys_exec(k, p, c) ==
  IF Namei(k, p, c.path) = 0 \/ c.bytes > PGSIZE THEN Fail(k)
  ELSE Ret([k EXCEPT !.pr[p] = [@ EXCEPT !.todo = <<c>> \o c.main, !.sz = ImageSize, !.mem = {},
                                         !.reg = [v \in {"stdout"} |-> 1]]], 0)

\* growproc: memory that is given back and allocated again is zero.
Sys_sbrk(k, p, c) ==
  LET sz  == k.pr[p].sz
      new == sz + c.n
  IN  IF new <= 0 \/ Pages(new) - Pages(sz) > FreePages(k) THEN Fail(k)
      ELSE Ret([k EXCEPT !.pr[p].sz = new,
                         !.pr[p].mem = {a \in @ : a < Pages(new) * PGSIZE}], sz)

\* A byte the process may use is in one of its pages; it is killed for any other.
Mapped(k, p, a) == a < Pages(k.pr[p].sz) * PGSIZE

-----------------------------------------------------------------------------
\* Programs.  What a call must return for the program to go on is its `want'.

Works  == {TRUE}
Fails  == {FALSE}
Either == BOOLEAN
O_RDONLY == {}
O_WRONLY == {"WRONLY"}
O_RDWR   == {"RDWR"}
O_CREATE == {"CREATE"}

Step(op, var, want)     == [op |-> op, var |-> var, want |-> want]
Open(v, path, m, w)     == [path |-> Path(path), mode |-> m] @@ Step("open", v, w)
OnPath(op, path, w)     == [path |-> Path(path)] @@ Step(op, "", w)
Mkdir(path, w)          == OnPath("mkdir", path, w)
Mknod(path, w)          == OnPath("mknod", path, w)
Unlink(path, w)         == OnPath("unlink", path, w)
Chdir(path, w)          == OnPath("chdir", path, w)
Link(path, new, w)      == [new |-> Path(new)] @@ OnPath("link", path, w)
OnFd(op, fd, v, w)      == [fd |-> fd] @@ Step(op, v, w)
Close(fd)               == OnFd("close", fd, "", Either)
Dup(fd, v)              == OnFd("dup", fd, v, Either)
Write(fd, text, w)      == [text |-> text] @@ OnFd("write", fd, "", w)
Read(fd, n, texts)      == [n |-> n] @@ OnFd("read", fd, "", texts)
ReadNames(fd, letter, names) == [letter |-> letter] @@ OnFd("names", fd, "", names)
ReadAll(fd, ns, texts)  == [ns |-> ns, got |-> << >>] @@ OnFd("drain", fd, "", texts)
Copy(fd, n)             == [n |-> n] @@ OnFd("copy", fd, "", {})
Pipe                    == Step("pipe", "", Works)
Fork(v, child, w)       == [child |-> child] @@ Step("fork", v, w)
Wait(w)                 == [pid |-> ""] @@ Step("wait", "", w)
WaitFor(v)              == [pid |-> v] @@ Step("wait", "", Works)
Reap                    == [pid |-> ""] @@ Step("reap", "", Works)
Kill(v)                 == [pid |-> v] @@ Step("kill", "", Either)
Getpid(v)               == Step("getpid", v, Works)
Sleep                   == Step("sleep", "", Works)
Spin                    == Step("spin", "", Works)
Exec(path, main, n, w)  == [main |-> main, bytes |-> n] @@ OnPath("exec", path, w)
Sbrk(n, sizes)          == [n |-> n] @@ Step("sbrk", "", sizes)
Store(a)                == [a |-> a] @@ Step("store", "", Works)
Load(a, bytes)          == [a |-> a] @@ Step("load", "", bytes)
IfPid(v, then)          == [then |-> then] @@ Step("if", v, Works)
OneOf(scripts)          == [of |-> scripts] @@ Step("oneof", "", Works)
Exit                    == Step("exit", "", Works)

Now(p) == Head(kernel.pr[p].todo)

\* A process that is killed makes no other call (trap).
Runs(p, op) ==
  /\ kernel.pr[p].state = "RUNNABLE" /\ ~ kernel.pr[p].killed
  /\ kernel.pr[p].todo # << >> /\ Now(p).op = op

Become(p, k, rest) == kernel' = Collect([k EXCEPT !.pr[p].todo = rest])

\* The call returns r; the program goes on if that is right, or exits.
Return(p, r, right) ==
  LET v  == Now(p).var
      k1 == IF v = "" THEN r.k ELSE [r.k EXCEPT !.pr[p].reg = (v :> r.v) @@ @]
  IN  /\ Become(p, k1, IF right THEN Tail(r.k.pr[p].todo) ELSE << >>)
      /\ failed' = (failed \/ ~ right)

Call(p, op, result) ==
  Runs(p, op) /\ \E r \in {result} : Return(p, r, (r.v # -1) \in Now(p).want)

\* read
DoRead(p) ==
  /\ Runs(p, "read") /\ MayRead(kernel, p, Now(p))
  /\ LET r == Fileread(kernel, p, Now(p), Now(p).n)
     IN  Return(p, Ret(r.k, Len(r.got)), r.got \in Now(p).want)

\* while((n = read(fd, buf, cc)) > 0): the sizes are those of the list, the last again
\* and again.
DoReadAll(p) ==
  /\ Runs(p, "drain") /\ MayRead(kernel, p, Now(p))
  /\ LET c == Now(p)
         r == Fileread(kernel, p, c, Head(c.ns))
     IN  IF r.got = << >>
         THEN Return(p, Ret(r.k, 0), c.got \in c.want)
         ELSE /\ Become(p, r.k, <<[c EXCEPT !.got = @ \o r.got,
                                            !.ns = IF Len(@) > 1 THEN Tail(@) ELSE @]>>
                                  \o Tail(kernel.pr[p].todo))
              /\ UNCHANGED failed

\* while(read(fd, &de, sizeof(de)) > 0), of a directory: the names that begin with a letter.
DoReadNames(p) ==
  /\ Runs(p, "names")
  /\ LET c    == Now(p)
         r    == Fileread(kernel, p, c, Len(kernel.ip[The(kernel, p, c).ip].data))
         mine == SelectSeq(r.got, LAMBDA e : e.inum # 0 /\ SubSeq(e.name, 1, 1) = c.letter)
     IN  Return(p, Ret(r.k, 0), /\ {e.name : e \in ToSet(mine)} = c.want
                                /\ Len(mine) = Cardinality(c.want))

\* while((n = read(fd, buf, sizeof(buf))) > 0) write(1, buf, n)
DoCopy(p) ==
  /\ Runs(p, "copy") /\ MayRead(kernel, p, Now(p))
  /\ LET r == Fileread(kernel, p, Now(p), Now(p).n)
     IN  Become(p, r.k, IF r.got = << >> THEN Tail(kernel.pr[p].todo)
                        ELSE <<Write("stdout", r.got, Either)>> \o kernel.pr[p].todo)
  /\ UNCHANGED failed

\* write, to a pipe until all is in it.
DoWrite(p) ==
  /\ Runs(p, "write")
  /\ LET c == Now(p)
         q == The(kernel, p, c).pipe
     IN  IF q = 0 THEN LET r == Filewrite(kernel, p, c) IN Return(p, r, (r.v # -1) \in c.want)
         ELSE IF ~ Readopen(kernel, q) THEN Return(p, Fail(kernel), FALSE \in c.want)
         ELSE LET k1 == Pipewrite(kernel, p, c)
              IN  /\ Room(kernel, p, c) > 0
                  /\ IF Room(kernel, p, c) >= Len(c.text)
                     THEN Return(p, Ret(k1, 0), TRUE \in c.want)
                     ELSE /\ Become(p, k1, <<[c EXCEPT !.text = SubSeq(@, Room(kernel, p, c) + 1,
                                                                         Len(@))]>>
                                            \o Tail(kernel.pr[p].todo))
                          /\ UNCHANGED failed

DoWait(p) ==
  /\ Runs(p, "wait") /\ MayWait(kernel, p)
  /\ LET r == Sys_wait(kernel, p)
     IN  Return(p, r, /\ (r.v # -1) \in Now(p).want
                      /\ Now(p).pid # "" => r.v = kernel.pr[p].reg[Now(p).pid])

\* init waits for its shell, and for any process that is left.
DoReap(p) ==
  /\ Runs(p, "reap") /\ Zombies(kernel, p) # {}
  /\ Become(p, Sys_wait(kernel, p).k, kernel.pr[p].todo)
  /\ UNCHANGED failed

DoSbrk(p) ==
  LET r == Sys_sbrk(kernel, p, Now(p)) IN Runs(p, "sbrk") /\ Return(p, r, r.v \in Now(p).want)

\* An access to memory that is not there is a trap, which kills the process.
DoAccess(p) ==
  \/ /\ Runs(p, "store") \/ Runs(p, "load")
     /\ ~ Mapped(kernel, p, Now(p).a)
     /\ kernel' = [kernel EXCEPT !.pr[p].killed = TRUE]
     /\ UNCHANGED failed
  \/ /\ Runs(p, "store") /\ Mapped(kernel, p, Now(p).a)
     /\ Return(p, Ret([kernel EXCEPT !.pr[p].mem = @ \cup {Now(p).a}], 0), TRUE)
  \/ /\ Runs(p, "load") /\ Mapped(kernel, p, Now(p).a)
     /\ Return(p, Ret(kernel, 0), (Now(p).a \in kernel.pr[p].mem) \in Now(p).want)

\* Branches of a program.
DoBranch(p) ==
  /\ UNCHANGED failed
  /\ \/ /\ Runs(p, "if")
        /\ Become(p, kernel, (IF kernel.pr[p].reg[Now(p).var] > 0 THEN Now(p).then ELSE << >>)
                               \o Tail(kernel.pr[p].todo))
     \/ /\ Runs(p, "oneof")
        /\ \E s \in Now(p).of : Become(p, kernel, s \o Tail(kernel.pr[p].todo))

\* exit, at the end of a program and of one that is killed.
DoExit(p) ==
  /\ kernel.pr[p].state = "RUNNABLE" /\ p # Init1
  /\ kernel.pr[p].killed \/ kernel.pr[p].todo = << >> \/ Runs(p, "exit")
  /\ kernel' = Collect(ExitOf(kernel, p))
  /\ UNCHANGED failed

ProcessStep(p) ==
  \/ Call(p, "open", Sys_open(kernel, p, Now(p)))
  \/ Call(p, "mkdir", Sys_mkdir(kernel, p, Now(p)))
  \/ Call(p, "mknod", Sys_mknod(kernel, p, Now(p)))
  \/ Call(p, "link", Sys_link(kernel, p, Now(p)))
  \/ Call(p, "unlink", Sys_unlink(kernel, p, Now(p)))
  \/ Call(p, "chdir", Sys_chdir(kernel, p, Now(p)))
  \/ Call(p, "close", Sys_close(kernel, p, Now(p)))
  \/ Call(p, "dup", Sys_dup(kernel, p, Now(p)))
  \/ Call(p, "pipe", Sys_pipe(kernel, p, Now(p)))
  \/ Call(p, "fork", Sys_fork(kernel, p, Now(p)))
  \/ Call(p, "kill", Sys_kill(kernel, p, Now(p)))
  \/ Call(p, "exec", Sys_exec(kernel, p, Now(p)))
  \/ Call(p, "getpid", Ret(kernel, p))
  \/ Call(p, "sleep", Ret(kernel, 0))
  \/ DoRead(p) \/ DoReadAll(p) \/ DoReadNames(p) \/ DoCopy(p) \/ DoWrite(p)
  \/ DoWait(p) \/ DoReap(p) \/ DoExit(p)
  \/ DoSbrk(p) \/ DoAccess(p) \/ DoBranch(p)

\* All is over: init is alone.
Over == DOMAIN kernel.pr = {Init1} /\ Runs(Init1, "reap")

-----------------------------------------------------------------------------
\* init runs a program in place of the shell, and waits for processes.  (init.c)
InitMain(shell) ==
  <<Open("fd", "console", O_RDWR, Fails), Mknod("console", Works),
    Open("fd", "console", O_RDWR, Works), Dup("fd", ""), Dup("fd", ""),
    Fork("pid", <<Exec("sh", shell, 1, Works)>>, Works), Reap>>

\* The image mkfs makes: the root with a file and programs.
OnImage == <<"README", "cat", "echo", "ln", "mkdir", "rm", "sh", "zombie">>

CallsInit ==
  /\ test \in Programs
  /\ failed = FALSE
  /\ kernel =
       [ip |-> [i \in 1..(Len(OnImage) + 1) |->
                  IF i = ROOTINO
                  THEN [type |-> "dir", nlink |-> 1,
                        data |-> <<Entry(".", i), Entry("..", i)>>
                                   \o [j \in DOMAIN OnImage |-> Entry(OnImage[j], j + 1)]]
                  ELSE [type |-> "file", nlink |-> 1,
                        data |-> IF i = 2 THEN <<"R", "M">> ELSE << >>]],
        ft |-> << >>, pp |-> << >>, out |-> << >>,
        pr |-> Init1 :> Process(0, ROOTINO, [d \in 0..(NOFILE - 1) |-> 0],
                                InitMain(test.main), [v \in {"stdout"} |-> 1], ImageSize, {})]

CallsNext ==
  \/ (\E p \in DOMAIN kernel.pr : ProcessStep(p)) /\ UNCHANGED test
  \/ Over /\ UNCHANGED callVars

-----------------------------------------------------------------------------
\* No test finds what it complains of, whatever the order its processes run in, and
\* each ends: a process that waits for ever, or a test that does, is a deadlock.
TestsPass == ~ failed /\ (Over => kernel.out = test.out)

\* An inode counts the names it has in directories that are themselves linked, and
\* such a directory names no inode that is gone (sys_link, sys_unlink, create, iput).
LinksCounted ==
  LET linked == {d \in DOMAIN kernel.ip : kernel.ip[d].type = "dir" /\ kernel.ip[d].nlink > 0}
      inums  == {i \in UNION {{e.inum : e \in ToSet(kernel.ip[d].data)} : d \in linked} : i # 0}
      Names(i) == MapThenSumSet(LAMBDA d : Quantify(DOMAIN kernel.ip[d].data, LAMBDA j :
                     kernel.ip[d].data[j].inum = i /\ kernel.ip[d].data[j].name # "."), linked)
  IN  /\ inums \subseteq DOMAIN kernel.ip
      /\ \A i \in DOMAIN kernel.ip : kernel.ip[i].nlink = Names(i)

CallsRight == TestsPass /\ LinksCounted
=============================================================================
