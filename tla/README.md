# A verification project for xv6 (src/pdos/xv6-comment)

The repository holds a commented copy of xv6, the teaching operating system: a
small Unix kernel for several x86 processors, with its file system maker, shell
and user programs. (`csapp/` has only course material: assembly and
transcripts.) This directory holds TLA+ models of the kernel, the TLC runs that
check them and the TLAPS proofs of what matters most. File names below are
relative to `src/pdos/xv6-comment/`.

## 1. The system

| part | state it keeps | operations | who calls it, what it calls |
|---|---|---|---|
| spinlocks, `spinlock.c` | `locked`, `cpu` of every lock; `ncli`, `intena`, FL_IF of every CPU | `acquire`, `release`, `holding`, `pushcli`, `popcli` | everybody, interrupt handlers included |
| scheduler, sleep and wakeup, `proc.c`, `swtch.S` | `ptable.lock`; `state`, `chan`, `context`, `killed` of a process; `proc` of a CPU | `scheduler`, `sched`, `yield`, `forkret`, `sleep`, `wakeup`, `kill` | the timer (`trap.c`), every blocking operation |
| process table, `proc.c` | `ptable.proc[]`, `nextpid`, `initproc` | `allocproc`, `userinit`, `fork`, `exit`, `wait`, `kill`, `growproc` | system calls; calls `kalloc`, `copyuvm`, `filedup`, `fileclose` |
| log, `log.c` | `log` in memory, log header and log blocks on disk | `initlog`, `begin_op`, `log_write`, `end_op`; `commit`, `recover_from_log` inside | every system call that writes the file system; calls the buffer cache |
| buffer cache, `bio.c` | `NBUF` buffers with B_BUSY, B_VALID, B_DIRTY, in LRU order | `bread`, `bwrite`, `brelse` | log, inodes; calls the disk driver |
| disk driver, `ide.c` | the queue of requests | `iderw`, `ideintr` | buffer cache; the interrupt wakes the waiters |
| inodes, directories, names, `fs.c` | `icache` (references, I_BUSY, I_VALID); inodes, bitmap and directories on disk | `ialloc`, `iget`, `ilock`, `iput`, `readi`, `writei`, `dirlookup`, `dirlink`, `namex` | file table, system calls; calls log and buffer cache |
| file contents, `fs.c`, `file.c` | bitmap, `addrs` and indirect blocks, `f->off` | `bmap`, `balloc`, `bfree`, `itrunc`, `readi`, `writei`, `fileread`, `filewrite` | file table, `exec`; calls log and buffer cache |
| file system maker, `mkfs.c` | the image | `ialloc`, `iappend`, `balloc` | the build; `fs.c` and `log.c` find what it made |
| file table, `file.c`, `sysfile.c` | `ftable` with reference counts; `ofile[]` of a process | `filealloc`, `filedup`, `fileclose`, `fileread`, `filewrite`; `open`, `link`, `unlink`, `dup`, `pipe` | system calls |
| pipes, `pipe.c` | ring of `PIPESIZE` bytes, `nread`, `nwrite`, two open flags | `pipealloc`, `pipeclose`, `pipewrite`, `piperead` | file table; sleeps and wakes |
| pages, `kalloc.c` | free list, `use_lock` | `kinit1`, `kinit2`, `kalloc`, `kfree` | page tables, process table, pipes |
| user memory, `vm.c`, `exec.c` | page tables | `setupkvm`, `allocuvm`, `deallocuvm`, `copyuvm`, `freevm`, `exec` | process table, system calls |
| console input, `console.c` | input ring with `r`, `w`, `e` | `consoleintr`, `consoleread` | keyboard and serial interrupts, file table |
| console output, `console.c` | `cons.lock`, `cons.locking`, `panicked` | `cprintf`, `consolewrite`, `panic` | everybody |
| start, `main.c`, `mp.c`, `lapic.c`, `entryother.S` | `cpus`, `ncpu`, `ismp`, `started`; page 0x7000 | `main`, `mpinit`, `startothers`, `mpenter`, `mpmain` | the boot loader; calls everything once |
| traps and clock, `trap.c`, `syscall.c`, `sysproc.c` | `ticks` | `trap`, `syscall`, `sys_sleep` | hardware, user programs |
| user memory allocator, `umalloc.c` | circular free list | `malloc`, `free` | user programs |
| shell, `sh.c` | the command of a line | `parsecmd`, `runcmd` | the user; calls the system calls |
| library and tools, `ulib.c`, `printf.c`, `string.c`, `grep.c`, `wc.c`, ... | | | programs |
| tests, `usertests.c`, `stressfs.c`, `forktest.c` | | one procedure each | the user; call the system calls |

What is hard, and where: several CPUs and interrupts run all of this at once
(spinlocks, scheduler, driver); a lock is handed from one thread to another
across a context switch (scheduler); a test and the sleep that follows it must
look atomic to the waker (sleep); a machine can stop between any two disk writes
(log); a fork, an exec or a directory update can fail half-way and must give
back what it took (process table, user memory); caches and references are read
under one lock and used under another (inodes); rings, tables and counters have
limits and wrap (pipe, console, log, buffer cache). `PROJECT.json` lists the
hazards one by one with their lines, and the properties that cover them.

What makes each part correct:

* spinlocks: mutual exclusion; no interrupt while a lock is held; the interrupt
  flag comes back as it was; no CPU waits for itself;
* scheduler: one CPU per kernel stack; the table agrees with the CPUs whenever
  its lock is free; no wakeup is lost; everybody runs;
* process table: no process or page is lost on any path; a zombie
  always has somebody to reap it, who is awake;
* log: whole groups of calls survive a crash, in order, or nothing of them; its
  space suffices; nobody waits for ever;
* buffer cache and driver: one buffer per block, changed by its holder only, and
  never recycled while it is the only copy;
* inodes: an inode is freed only when neither a name nor a reference is left; a
  link count is the number of names; directories stay a tree;
* file table: a file's reference count is the number of descriptors for it;
* pipes and console: bytes come out once and in order; end of file and errors
  come when they should; nobody sleeps for ever;
* file contents: a block is in one place of one file or free; what is read is what
  was written last; the inode on disk is the one in memory between calls;
* pages and user memory: a page has one owner, on the paths of failure too; memory is
  private, zeroed, and copied by `fork`;
* console output: a panic is shown whoever holds the lock;
* clock: `sleep` returns at its tick, also when the counter wraps;
* start: the boot processor leaves each processor a stack and a page table it can
  use, and nobody uses the page allocator without its lock once there are several;
* `malloc`: the blocks in use and the free ones divide the heap;
* shell: a line means what the grammar says, and has its whole effect before the next
  prompt; nobody keeps an end of a pipe open that another waits on;
* the system calls together: what the tests of the repository expect of them.

## 2. The modules

| module | models | checked by | proved in |
|---|---|---|---|
| `Transactions` | what the log promises (abstract) | as the property `Atomic` of `Log` | `CoreProofs` |
| `Log` | `log.c`, with the buffer cache and disk it uses | `Core`, `Live`, `Log_full`, `Log_race` | `CoreProofs` |
| `Spinlock` | `spinlock.c` | `Core` | `CoreProofs` |
| `Sched` | scheduler, sleep, wakeup of `proc.c` | `Sched_lock`, `Sched_live` | `SchedProofs` |
| `Proc` | fork, exit, wait, kill of `proc.c` | `Processes` | `ProcProofs` |
| `BlockStore` | what the buffer cache promises (abstract) | as the property `Promise` of `Disk` | `StorageProofs` |
| `Disk` | `bio.c` over `ide.c` | `Storage` | `StorageProofs` |
| `Content` | blocks of files: `fs.c`, `file.c`, the image of `mkfs.c` | `Storage`, `Blocks_log` | `StorageProofs` |
| `AddressSpaces` | what user memory promises (abstract) | as the property `Private` of `Memory` | `MemoryProofs` |
| `Memory` | `vm.c`, `exec.c`, pages in `proc.c` | `Storage` | `MemoryProofs` |
| `Files` | `pipe.c`, `file.c`, descriptors of `sysfile.c` | `Files_pipes` | `FilesProofs` |
| `Inodes` | `fs.c` under the name space calls of `sysfile.c` | `Inodes_safety`, `Inodes_dotdot` | `InodesProofs` |
| `LineDiscipline` | what the console promises its readers (abstract) | as the property `Disciplined` of `Console` | `LiveProofs` |
| `Console` | input of `console.c` | `Live` | `LiveProofs` |
| `Printing` | output of `console.c`, and `panic` | `Live` | `LiveProofs` |
| `Clock` | `ticks` and `sys_sleep` | `Live` | `LiveProofs` |
| `Boot` | `main.c`, `mp.c`, `entryother.S`, `kalloc.c` | `Live` | `LiveProofs` |
| `Shell` | `sh.c` | `Processes` | |
| `Malloc` | `umalloc.c` | `Processes` | |
| `Text` | `string.c`, `ulib.c`, `grep.c`, `wc.c`, `skipelem`, `printint` | `Processes` | |
| `Calls` | the system calls as a program sees them | `Core` | |
| `Usertests` | the programs: `usertests.c`, `stressfs.c`, `forktest.c`, `init.c`, the tools | `Core` | |

The modules `MCCore`, `MCLive`, `MCProcesses`, `MCStorage`, `MCSched`, `MCFiles`,
`MCInodes` and `MCLog` give the constants their values. The first four put several
models side by side that share nothing: the variable `which` says of which of them a
behaviour is, and the others stay in their initial state. Such a run checks each model
as a run of its own would: nothing of one constrains another, and the number of states
is the sum and not the product. The properties are those of the modules; where one
holds of a single model's behaviours only, the MC module says so
(`ProcessorsStart`, `LinesRunEnd`, `CallsRight`).

In each module the variables carry the names of the C variables and struct
fields, and every action the name of the function it belongs to. Definitions
introduced by a comment "Mutant" are the wrong variants of the definition next
to them: replacing that definition by the variant makes one of the properties
fail. They are used in no specification.

Where a property is a conjunction, its parts have names and comments of their own, and
the conjunction stands where a run states it (`CacheRight` is `RefsCounted`,
`CacheAgrees` and `InUse`; `InterruptsKept` is `InterruptsOff` and `FlagRestored`; `LogLives` is
`SleepersEnter` and `UpdatesReachDisk`; `LinesRight` is `ParserRight` and `LineDone`; and so
on).

### Log

`outstanding`, `committing`, `lh` are the fields of `log`; `hdr` and `logd` are
the log on disk; `mem`, `dirty` and `disk` stand for the buffer cache and the home
blocks: `mem[b]` is what `bread(b)` returns, B_DIRTY pins the buffer, and `Evict`
is `bget` recycling a clean free buffer. Every disk write is a step. Critical
sections of `log.lock` are steps; `log_write`, which takes no lock, is three
steps (`LogWriteCheck`, `LogWriteScan`, `LogWriteRecord`). `Crash` is possible in
every state, recovery included. `Modify` stands for the client (`bread` and a
change of the data), limited to `OpBlocks` different blocks per call.

The refinement to `Transactions` maps the disk to the contents a reboot would
find (`Durable`: home blocks overlaid with the log if its header is not empty).
Under it `WriteHead` is the commit, and every other write a stutter.

The constant `SerialLogWrite` keeps two calls of `log_write` from overlapping in
time. The safety properties need it, and nothing in the code provides it (finding
`Log_race`); with it the rest of the log is correct.

### Spinlock

A CPU runs a thread and, on top of it, an interrupt handler that can start
whenever FL_IF is set. `acquire` is `Acquire`, `ReadEflags`, `Cli`,
`CheckHolding`, `Xchg`, `SetCpu`; `release` is `Release`, `Unlock`, `Popcli`.
The callers take locks in the order `Order` and release them in any order;
handlers start with a lock in `HandlerLocks`, which threads may hold too.

### Sched

A CPU has a place in the code of the stack it runs on (`stack`, `at`) and maybe a
handler on top of it; a process that does not run has its resume point in
`context` and its interrupt frame in `back`. `ToScheduler` is `swtch` to the
scheduler, `Run` is `swtch` to a process; `ptable.lock` is held over both and
`holder` shows it. `acquire` is `Pushcli` and then, once the lock is free, the
action it guards; a critical section without a switch in it is one step. The
clients are those of `sleep1.p`: consumers test a condition under a lock and
sleep, producers make it true and call `wakeup`, from processes or from
handlers. `SleepLock` chooses whether the lock is another than `ptable.lock` (a
pipe) or `ptable.lock` itself (`wait`).

### Proc

The table, with the steps of `fork` and `exit` that are outside `ptable.lock` as
steps of their own, because other processes act between them. Pages are counted:
a process owns its kernel stack and one page for its page table and memory;
`Others` allocates and frees pages so that `fork` fails in both places where it
can. `RUNNABLE` stands for RUNNABLE and RUNNING, since which process runs is
`Sched`'s business. What `fork` and `exit` do with open files is in `Files`.

### BlockStore and Disk

`BlockStore` is the comment at the head of `bio.c`: a block has one content; a
process gets a block, sees its content, changes it and puts it back, and nobody
else has it meanwhile; a holder can bring the content to disk. `Log` rests on
this and no more (its `mem` and `disk`).

`Disk` has `NBUF` buffers in the order of `bcache.head`, the queue of the driver
and the drive. A critical section of `bcache.lock` or `idelock` is a step: `BgetHit`
and `BgetMiss` are the two loops of `bget`, a process asleep in them is at `busy`;
`BreadIderw` and `Bwrite` call `iderw`, whose sleep is `iowait`. `Ideintr` is the
completion of the drive's command together with the interrupt: nobody can see the
one without the other. An interrupt without a request changes nothing and is left
out. Of the sectors in `Bad` the drive reports an error; `ideintr` marks the buffer
valid all the same, and the promise is made for the other sectors only. `LogWrite` is
`log_write` setting B_DIRTY, which pins the buffer till somebody calls `bwrite`
for it. The data a recycled buffer still has is `Nothing`, so that reading it before
the drive has would show.

The refinement: the content of a block is that of its valid buffer, or else of the
disk; its holder is the process that has set B_BUSY.

### Content

`fs` has the bitmap, the content of the blocks and the inodes in memory; a block has
`BSIZE` cells, each a byte or, in an indirect block, a block number. `Bmap`, `Balloc`,
`Bfree`, `Itrunc` and `Readi` are operators on it. A step of `filewrite` is `BeginPiece`
(`begin_op` and `ilock`), then `WriteChunk` for each iteration of the loop of `writei`,
then `EndPiece`; between them other processes write to other inodes and take blocks.
Several open files may share an inode. `text` is history: the bytes the calls have
written, as one sequence, and `ReadsBack` compares every possible read with it. The
first state is what `iappend` of `mkfs` leaves. That the disk is full is
`outOfBlocks`, the panic of `balloc`, after which nothing happens. `Remove` is `itrunc`
with what follows when the name is made anew.

### AddressSpaces and Memory

`AddressSpaces` says what a process may rely on: a page it gets is zeroed, `fork` copies,
`exec` loads the program or leaves all as it was, and otherwise only its own stores
change what it finds. The child's copy may end before the parent's does: `copyuvm` copies
the pages below `sz`, and a page above it may be left over (see Remarks). How far it goes
is for `SizeMapped`, by which parent and child have the pages below their common `sz`.
`Memory` has the pages, the page tables (`pgdir[p].tabs` are the
page table pages, `map` their entries) and `kalloc`'s list. A step is one allocation
with what follows it, because calls of different processes meet in the list only.
`Grow`, `GrowTable` and `Grown` are `allocuvm` (the page, the page table page, the end),
`Copy` and `CopyTable` are `copyuvm`, `Setup` is `setupkvm`, `Load` and `Commit` are
`exec` from `loaduvm` on. `Sizes` are the sizes of memory to start with, so that each
allocation is the one that fails in some behaviour.

`short` says that an allocation of a page table page has failed. `PagesOwned` promises
that no page is lost only as long as that has not happened (see Remarks). What is
abstracted: of the content of a page whether it is zeroed, freed, text, arguments or
a value stored; the bytes of `copyout`; `switchuvm`. The mappings of the kernel are
`KTabs` page table pages that every directory has. `Map` leaves an entry that is there as it
is, since `mappages` panics ("remap") before it writes.

### Files

`file` is `ftable`, `ofile` the descriptors; `held` are the references a process has
outside of them, between `filealloc` and `fdalloc` or on the way to `fileclose`.
Critical sections of `ftable.lock` and of a pipe's lock are steps: `Fileclose` is the
first and `Pipeclose` the second half of `fileclose`, `PipeFile0`, `PipeFile1`, `NoPage`
and `PipePage` are `sys_pipe` with its four ways to fail. `fork` copies
every descriptor in one step (nobody else can close them meanwhile), `exit` closes them
one by one. Of a file that is not a pipe (`Open`) only its references
are kept.

`piperead` and `pipewrite` run under the pipe's lock from one sleep to the next;
`Pipewrite` and `Piperead` are the last such piece, `WriteWaits` and `ReadWaits` the
others. `nread` and `nwrite` count modulo `Wrap` (2^32 in the code), of which `PIPESIZE`
is a divisor. `flow` and `short` are history: the bytes written and not yet read,
and that a killed writer has given up. `Sleep` and `WriteWaits` allow for a `kill`
that comes after the test of `killed` and before the sleep: it wakes nobody.

### Inodes

`dinode` and `dir` are the inodes and directories on disk, `icache` the cache. It
has one entry per inode number, because `iget` finds or makes the entry in one
critical section of `icache.lock`; `busy` is I_BUSY with the process that has set
it, `valid` I_VALID. Every process has at most one call in progress, and `cur`,
`ip`, `drop`, `cwd`, `file` are the pointers to inodes that it has: the local
variables `dp` and `ip` of the calls, the argument of `iput`, `proc->cwd` and the
inode of an open file. `RefsCounted` compares `ref` with them.

A step is what a process does between two waits: a critical section of
`icache.lock`, or what it does under I_BUSY locks it already holds. `LockCur` and
`LockIp` are `ilock` at every place where it is called. `iput` is `Put`, and, when
it is the last one of an inode without names, `Itrunc` (outside `icache.lock`,
visible to `ialloc` on other CPUs) and `Freed`. `namex` is `LookNext`,
`LookParent` and `LookFails`, one for each of its ways out of an iteration.
`sys_link` is `LinkOld`, `NewName`, `Dirlink`, `LinkDone` and on failure
`DropLink`; `sys_unlink` is `Target`, `Unlink`, `DropLink`, or `NotEmpty` and
`Bad`; `create` is `Existing`, `Existed`, or `Ialloc`, `Fill`.

What is abstracted: the content of files and the block map (module `Content`); `begin_op` and
`end_op` (module `Log` shows that the calls between them are atomic in a crash);
the name "." (it leads to the directory itself and is refused by `unlink`). Whether
`filealloc` or `fdalloc` fail is open (`OpenFails`), as is whether `open` asks to
write a directory. `fork`, `exit` and `dup` copy and drop references as `Files`
describes; `mknod` is `create` as for a file. `Room` keeps `ialloc` from its panic
"no inodes", and `MaxLinks` bounds the links of an inode (`nlink` is a `short`, and
nothing in the code checks it).

### LineDiscipline and Console

`LineDiscipline` is what a terminal promises: an edit buffer, complete lines, no read
past the end of a line. `Console` is the ring with `r`, `w` and `e` that count up and
wrap at `Wrap` (2^32). A critical section of `input.lock` is a step: `Typed`,
`BackspaceKey` and `KillLineKey` are the cases of `consoleintr`; `NothingThere` and
`TakeLine` are what `consoleread` does from one sleep to the next. The refinement reads the
line that is ready between `r` and `w`, and the one being edited between `w` and `e`.
`kill` wakes a reader. The key that calls `procdump` prints only.

### Printing

`cprintf` and `consolewrite` under `cons.lock`, and `panic`, character by character, for
several CPUs. The test of `panicked` in `consputc` and the output that follows it are
two steps (`Consputc`, `Putc`), so that a CPU may put out one more character after the
freeze; `late` counts them. A CPU in `cprintf` that has read `cons.locking` before a
panic cleared it keeps what it read (`locked1`). Interrupts are off in a CPU that
panics, so it takes no step but its own.

### Clock

`Tick` is the timer interrupt of CPU 0, `SleepLoop` a pass through the loop of
`sys_sleep`. `passed` is history, the ticks since the call. `Lag` bounds how many ticks go
by until a process that was woken runs; the upper bound that `SleepsOnTime` states on the
length of a sleep has it as its term. `SleepsRight` says that a sleep ends.

### Boot

The steps of `main` in their order, with what `freerange`, `mpinit` and `startothers`
do in their loops; `After` is the order of the calls. `Entryother`, `Mpenter`, `Lapicinit`
and `Mpmain` are the other processors. `kalloc` and `kfree` are two steps each, the
read of the list and the write of it, with the lock if `use_lock` says so. In the end
all run processes that take and give back pages. `Tables` are what the firmware may
say: a table that is in order, with the boot processor in the middle or as the last, one with
a gap in the ids (`mpinit` then falls back to one processor), none, and one with an entry of
an unknown type. The drive's interrupt goes to the last processor of the table
(`ioapicenable`), whose `started` is what the boot processor waits for; only if it is itself
the last one does it come to its first process before anybody can take that interrupt. `code` is the word below
0x7000 through which the boot processor hands over the stack.

### Shell

A line is a sequence of tokens. `Parsecmd` and the operators below it are the recursive
descent of `parsecmd`; `LineSet` is the grammar, as the set of the commands a line can be
read as, and `ParserRight` says that the parser finds the one there is. `runcmd` is run
by processes that interleave at their system calls (`RunExec`, `RunRedir`, `RunList`,
`RunPipe`, `PipeForks`, `PipeDup`, `PipeClose`, `RunBack`, `WaitTask`). A program named by a
command writes its name and copies its input to its output. `Meaning` is the effect of
a command by the meaning of its parts, and `LineDone` compares. `LinesRight` is both.

### Malloc

A call of `malloc` or `free` is a step, since a program has one thread. `hdr` are the
headers, `freep` the start of the circular list. `Sbrk1` is the program calling `sbrk`
itself, which leaves a gap between two pieces of heap.

### Text

Functions, each with a definition that says what it should return: the matcher of
`grep` with its buffer, `wc`, `memmove` on ranges that overlap either way, comparisons and
copies, `skipelem`, `printint` on words of `WordBits` bits. The state is a sample of
arguments, and does not change. (`Shell`, `Malloc` and `Text` use RECURSIVE operators,
where the C code has recursion or loops over lists.)

### Calls and Usertests

`Calls` is the kernel as a program sees it: inodes, open files, pipes, processes, and
each system call as a function from kernel to kernel and result. A call takes effect at
once, at the point where the code holds the lock that decides it; blocking calls wait
until they can. What happens inside is the business of the modules above: `Calls` is not
their abstraction in a formal sense, but the interface they are used by. A pid is the
slot of the process. A program is a sequence of calls with the results after which it
goes on; any other result makes the program fail.

`Usertests` are the programs themselves, one operator for a test, with the loops
shortened to `N` iterations and `Kids` children. `Tests` is the set of those that are
run; each is started by `init`, on a new image, and its processes interleave in every
way. `CallsRight` says that no test complains, that it prints what it should, and that the
link counts are the numbers of names all the time; deadlock is checked, so that every
test ends.

## 3. The runs

| run | instance | what it shows |
|---|---|---|
| `Core` | `Spinlock`: 2 CPUs, 3 locks. `Log`: 2 processes, 2 blocks, 2 values, MAXOPBLOCKS 2, LOGSIZE 6. `Calls`: the 37 programs of `Tests` | mutual exclusion and interrupts, and no CPU waits for itself; group commit, absorption, pinning, crash at every write and during recovery, `Log` implements `Transactions`; no test of the repository fails, and each ends |
| `Live` | `Log`: 2 processes, 3 blocks, LOGSIZE 4. `Console`: 2 readers, ring of 2. `Printing`: 2 CPUs. `Clock`: 2 sleepers. `Boot`: up to 3 processors | a second call of `begin_op` that waits for space is not forgotten, every update reaches the disk, the log does not overflow; the console is a line discipline whose readers are served; messages stay apart until a panic, which is shown; `sleep` returns at its tick; the processors start without disturbing each other, and all come up |
| `Log_full` | 2 calls of MAXOPBLOCKS blocks, 5 blocks | violated: `log_write` panics with "too big a transaction" |
| `Log_race` | `SerialLogWrite` FALSE | violated: a dirty block in no transaction |
| `Sched_lock` | 2 CPUs, 2 processes, handlers produce, kill | hand-over of `ptable.lock` and of stacks, no lost wakeup, no panic |
| `Sched_live` | the same with `ptable.lock` passed to `sleep` | no starvation, sleepers are served, interrupts come back |
| `Processes` | `Proc`: 4 slots, 8 pages, others take up to 2. `Shell`: 14 lines that are run by up to 8 processes, and every line of up to 4 tokens parsed. `Malloc`: heap of 12 units. `Text`: every input up to the bounds | parents, waiters, pages; init reaps what it inherits; lines are parsed and run right, and end; the heap is sound; the functions on text are right |
| `Storage` | `Disk`: 2 processes, 3 buffers, 4 sectors one of which is bad, 1 pinned buffer. `Content`: 2 writers, 3 open files of 2 inodes, 5 data blocks. `Memory`: 2 slots, 9, 11 or 14 pages | the cache over the driver implements `BlockStore`, nobody asleep is forgotten; blocks have one owner and reads return what was written; pages have one owner, memory is private |
| `Blocks_log` | as `Storage` | violated: a file gets a block of the log |
| `Files_pipes` | 2 processes, 3 files, 2 descriptors each, 1 pipe of 2 bytes, counters modulo 4 | references, open ends, bytes in order, nobody asleep without a reason |
| `Inodes_safety` | 2 processes, 3 inodes, 2 names; paths `/a`, `/a/b` and `b` | references and links are counted on every path, no inode is freed in use, no circle of locks, no panic |
| `Inodes_dotdot` | 1 process, 3 inodes, `..` | violated: `ilock` panics with "no type" |

Bounds, and why they are enough:

* `MAXOPBLOCKS` is 10 and `LOGSIZE` 30 in `param.h`. `Core` keeps the
  ratio of 3 and has room for two calls that absorb each other's writes. The
  third call that 30/10 would admit adds another process that does the same.
* two CPUs and two or three locks: with two CPUs every race on one lock occurs;
  three locks allow releases out of order and a handler's lock inside and outside
  of a thread's. The proofs of `CoreProofs` have no bound.
* `Sched`: two processes on two CPUs give preemption, migration, an idle CPU and
  a process picked by one CPU while another still leaves its stack. `MaxItems`
  bounds what has been made and not consumed.
* `Proc`: four slots give init, a child, a grandchild and an orphan at once.
  `MaxPid` bounds the number of forks; slots and pids are reused within it.
  `fork` and the choice of a pid by `kill` stop at that bound, so `Proc` may stop
  making processes, but never deadlocks: init can always wait.
* `Disk`: three buffers for two processes and one pinned buffer are what
  `DiskAssumption` asks for, and fewer than the four sectors, so that buffers are
  recycled. The real constants do not meet the assumption: NBUF is LOGSIZE, and
  with a full log pinned there is one buffer left, which the commit needs while
  others may read; `bget` then panics with "no buffers".
* `Files`: a write of three bytes into a ring of two waits in the middle, reads of one
  and of three bytes leave something or find less than they ask for, and the counters
  wrap. With three files a pipe fails for want of a file, of a page or of
  descriptors. The system stops when both processes have exited, which is why
  the run does not check for deadlock; a sleeper without anybody to wake it is what
  `SleepersRight` excludes.
* `Inodes`: `/a` can be a file or a directory, in which `/a/b` or `b` from the inside
  can be made, linked and removed, while the other process removes or enters `/a`. So
  there are a directory removed with somebody in it, a name that goes between two
  steps of a lookup, a link whose old name is gone, and an inode number taken again
  while the last `iput` of its former user is still on. Three inodes are the root, a
  directory and a file. The calls of `Inodes_safety` do not use "..", because with it
  the code panics: `Inodes_dotdot` has the calls that lead there, and the property
  `NeverPanics` is the same.

* `Console`: a ring of two characters whose indexes wrap at four, reads of one and of
  three: less than a line, and more than the ring can hold.
* `Printing`: two characters, so that messages can mix in the middle. `Clock`: a counter
  that wraps at six, sleeps of one tick and of five, the most whose end can be told.
* `Boot`: three processors of which the second boots (so that the loop of `startothers`
  passes over itself in the middle, or at its end), five pages below 4 MB and one above: more
  than a table has entries, for the stacks and the page `kvmalloc` takes.
* `Content`: blocks of two cells, one direct and two indirect blocks, pieces of four
  cells and writes of five: a write crosses from direct to indirect blocks, and two
  writers together need more blocks than there are. `MaxChanges` bounds the calls.
* `Memory`: two entries to a page table page, so that a process has several; segments that
  end within a page, an unreadable file and arguments that do not fit; `MaxCalls` bounds
  the calls. The sizes are the one with which all fails, one with which `exec` fails at
  its end, and one with which a child gets its memory while another call fails.
* `Shell`: lines with every operator, and the combinations in which descriptors are
  shared: pipes of three, a pipe in a block in a pipe, redirections of both ends, jobs.
* `Calls`: NPROC 5, NOFILE 6, NFILE 8, PIPESIZE 2, 12 pages, two iterations and three
  children where a test has tens or hundreds. Each table can be filled: `Forktest` takes all
  slots, `Mem` and `Sbrktest1` all pages, `Pipe1` writes more than the ring holds.

### Fairness

* `Log`: a process that can take the next step of its call takes it (the
  scheduler runs every runnable process and the disk answers), a call ends in
  the end (strong fairness of `EndOp`, since every call does finitely many
  writes: see `sysfile.c` and `filewrite`), and recovery goes on. Nobody has to
  begin a call; there may be crashes. The two properties assume that, from some
  moment on, no more calls come: the comment in `Log` gives the reason. (With a
  stream of new calls a sleeper can be overtaken for ever and a commit postponed
  for ever: `begin_op` has no queue, and only the last call out commits.)
* `Sched`: a CPU that can go on again and again does so. Strong fairness is
  needed where it spins for a lock others take and release: `xchg` under
  contention is fair in practice and not by construction. The timer interrupts
  every CPU again and again (`lapic.c` runs it periodically), but not always
  before the first step of the process just switched to.
* `Proc`: a process goes on with its system call, a killed one exits when it is
  back from it, and init calls `wait` again and again (`init.c:34`).
* `Shell`: every process takes its next step (weak fairness of each: nothing disables
  a step of a process but its own).
* `Console`: a reader that is runnable runs; nobody has to type. `Printing`: a CPU goes
  on with what it prints; nobody has to print or panic. `Clock`: the timer ticks, and
  a process in the loop of `sys_sleep` runs. `Boot`: each processor takes its next step.

In a run that puts models side by side the fairness is that of each model.

## 4. The proofs

The first part of `CoreProofs` proves, for any number of CPUs and locks, mutual exclusion, that
interrupts are off while a lock is held, that the flag comes back (both are
`InterruptsAreKept`), that
`acquire`, `release` and `popcli` never panic, and type correctness. The
inductive invariant `LockInv` says for each place in `acquire` and `release` how `ncli`
relates to the number of locks held (one more between `pushcli` and `xchg` and
between the last store of `release` and `popcli`), that `intena` is the flag the
thread had when `ncli` left zero, that `locked` holds exactly for the locks in
`held` of one activity, and that `owner` is set but in the two windows in which
that activity is itself between the two stores. `MutualExclusion` alone is not
inductive: `Unlock` needs to know that the CPU that clears `locked` is the one
that took it. The proofs assume finitely many locks (they count them).

The second part of `CoreProofs` proves, for any number of processes, blocks and values and any size
of the log, that `Log` implements `Transactions` (theorem
`LogImplementsTransactions`) and the invariants it rests on, under the
assumption `SerialLogWrite`. There are two layers. `IndInv` is about control: it
relates `outstanding` to the processes in a call, `committing` to the one that
commits, `phase` to both, and `slot` to `lh`. `DataInv` is about contents: what
is dirty is in `lh`; the log blocks written so far agree with the cache; from the
commit point on `hdr` is `lh` and `logd` has the contents of the whole group; what
is not pinned agrees with the disk. From the two follows, action by action, that
a step maps to a step of `Transactions` or to a stutter. Here `InstallTrans` is
the hard case: the disk changes and what a reboot would find does not.

A third layer, `SizeInv`, gives `LogHasRoom`: the log never overflows, if calls write fewer
than MAXOPBLOCKS blocks and those are fewer than LOGSIZE. A sum over the calls in
progress would be an induction; instead the places a call has reserved and not yet used
are a set of pairs (the call, a number), and `log_write` takes a pair away for each block it
adds to `lh`. So `lh` and the set never have more than
`LOGSIZE-2` elements together: a call that `begin_op` admits adds to the set what its
test has left room for. The one block less per call is what makes the difference to
`Log_full`, where the panic is reached.

The type invariants of `Spinlock` and `Log` and the invariants `CommitAlone`, `Pinned`
and `Absorbed` of `Log` (nothing changes blocks while a commit copies them; a
logged block is pinned until it is installed; no block is in the log twice) are
proved and have no run: the proofs cover every instance. `IndInv` and `DataInv` rest
on them.

`NoPanic` of `Spinlock` has no run of its own either: the run `Core` reaches the panics
as deadlocks, and there are none.

`SchedProofs` proves all four invariants of the runs of `Sched`, for any number of CPUs and
processes, both ways to sleep, and with interrupts anywhere. That no process is on two
CPUs (`OneStack`) is not inductive: when a CPU goes from the scheduler to a process, it
must be known that nobody else has that process's stack. `IndInv` says for each place in
the code which locks the CPU there holds and by how much `ncli` is ahead of them, whoever
took the locks (`LockOf`: the CPU that releases `ptable.lock` after `swtch` is not the one
that took it, or the thread is another); what the interrupt flag and `intena` are
(`FlagOf`); and which place the scheduler, the process and the table agree on
(`StackOf`, `ContextOK`). `NoLostWakeup` rests on `WakeOK`: between the test of the
condition and the sleep the lock of the sleeper is held, so that items that come into
being have a CPU that is about to call `wakeup`.

`ProcProofs` proves `TableSound`, which is nearly inductive. What it needs besides is what a
`fork` half-way says of the slot it has taken: the EMBRYO is its own, has the pages that
have been given so far, and gets its parent last (`ForkOK`); a slot whose `parent` is set can
be found by `wait` (`ParentOK`). Pages are counted by the slots that have them. The
assumptions are those of a table with room for init: at least two pages, and two pids.

`StorageProofs` proves of `Disk` `BuffersServed` and that `Disk` implements `BlockStore`
(`CacheImplementsStore`). The invariant ties each place of a process in `bread`, `iderw`
and `bwrite` to the flags of its buffer and to the queue (`ProcOK`, `BufOK`), says that a
sector has one buffer and a request is queued once, and that the list has all buffers.
That `bget` finds a buffer is counting: every busy buffer has a process of its own, at
most `MaxPinned` others are dirty, and the assumption `NBUF >= Cardinality(Procs) +
MaxPinned` leaves one (see Bounds for what that says of the real NBUF). In the refinement
the hard cases are those without a visible effect: recycling a buffer, where the disk
must have what the buffer had, and the interrupt, where the disk or the buffer changes and
the content of the block does not.

`FilesProofs` proves the three invariants of `Files_pipes`, for any number of processes,
files, descriptors and pipes, any PIPESIZE, any writes and reads, and counters that wrap
(`Wrap` is a multiple of PIPESIZE, as 2^32 is of 512; without that the ring would lose its
order at the wrap). None of the three is inductive, and they need each other. The
invariant has three layers:

* `RingInv`: the place of a process in the code says what it does with which pipe and how
  many files it has at hand; the bytes between `nread` and `nwrite` are the ones written
  and not read. The lemmas on remainders (`WrapOnce`, `Apart`, `WrapInRing`) say that fewer
  than PIPESIZE bytes are in different places of the ring, wrapped or not.
* `RefsInv`: `f->ref` is the number of references. They are counted process by process
  (`RefsSplit`), so that a step changes the count by what it changes for one process and
  `fork` by what the child gets. Files that `pipealloc` has just taken are nobody else's,
  and who reads or writes a pipe has a descriptor for it, which it keeps meanwhile.
* `EndsInv`: an open end has one file, or one process that is between `fileclose` and
  `pipeclose`, and not both. Without it two files for an end could each close it.

A step keeps the first layer by the first two, the second by the first two, and
`EndsInv` with `SleepersRight` by all: a writer asleep when the reading end goes has
itself a descriptor for the writing end, so that `pipeclose` is the one of the other end
and wakes it.

`InodesProofs` proves the four invariants of `Inodes_safety`, for any number of processes,
inodes, names and paths, under the hypothesis `NoDotDot`: no path has "..". The run
`Inodes_dotdot` shows what happens without it. The hypothesis is used in one place of the
argument: a process goes down only, from a directory it has to an entry with a link. The
inductive invariant `IndInv` has four parts.

* What a process has at each place of the code: which of `cur`, `ip`, `drop` are set, which
  of them it has locked, and which links it owes (`PlaceOK`, `LockOK`).
* References: `ref` is the sum of what the processes have, taken process by process
  (`RefsCounted`); an entry that is valid agrees with the disk, but between `itrunc` and
  the last step of `iput`, when another processor may have taken the inode from the disk
  already (`CopyOK`); an inode under a pointer is on the disk (`LiveOK`, `NewOK`, `TruncOK`).
* Links: the names of an inode, the links that are owed for it and one for the root are no
  more than its `nlink` (`CountOK`). So a name has an inode, and a directory that is
  removed has no name left.
* The directories are a tree (`DiskOK` with `Acyclic`). That is what keeps processes from
  waiting in a circle: who waits for an inode with another one locked has the parent of
  it (`unlink`, `create`, and not `namex`, which lets go first). A circle of such waits
  would be a circle of directories.

`NoWaitCycle` needs the third part, since the tree must stay one while names go and
inodes are used again, and that needs the second.

`StorageProofs` also proves both invariants of `Content`, for any number of writers, files and
inodes, any sizes of blocks and pieces, and any image `mkfs` makes that fits on its disk (the
assumption `Cardinality(MkfsBlocks) <= NData`; that `mkfs` then finds room at each step
is counting). A place `<<i, n>>` is where the inode `i` keeps the address of its n-th block,
or of its indirect block at -1.

* `BlocksOwnedAlways`: no two places have the same block, and the bits that are set in the
  map of blocks are those of the blocks in places (`Owned`).
* `ReadsWhatWasWritten`: the bytes of a file are the ones last written there (`BytesRight`),
  but for what the piece in progress has come past. The inode on the disk differs from the
  one in memory only while a piece is in progress that will make the file larger
  (`DiskRight`); a piece within the size finds all its blocks, so that `bmap` changes
  nothing. It rests on the first, since a block in two places would get the bytes of both.

`readi`, the appends of `mkfs` and `mkfs` as a whole are recursive functions; the module
shows that they exist and what they are at each argument, by a least counterexample.

`MemoryProofs` proves `PagesOwned`, for any number of processes and of pages, any page size,
any programs and any arguments of `sbrk`. The assumptions are that `userinit` has its
pages, that KERNBASE is a multiple of what a page table page maps, and that a segment has
no more bytes in the file than in memory (`exec` looks: `exec.c:45`). Of the three
parts of `PagesOwned` none is inductive.

* Every page table, stack, page in the hand of a call, and the free list is an owner of
  pages. `OneOwner` and `InOnce` say that a page has one owner and one place with it. A step
  passes pages from one owner to another: from the free list to a call and from there to a
  page table, from a new page table to the child of a `fork`, or over an `exec` to the
  process while the old one goes to the free list. What `Fail` frees must be the caller's
  alone; so it is part of the invariant that a slot has one `fork` at work on it
  (`OneParent`) and what that slot has meanwhile (`PlaceOK`, `ChildOK`).
* That nothing is lost is harder. `deallocuvm` skips NPT pages where a page table is
  missing, from wherever it is, and would pass by pages if tables were missing in between. As
  long as no allocation of a page table page has failed, the tables of an address
  space are those of an initial segment (`Whole`), and the loop comes by all pages
  (`VisitedIs`, with the recursion of `Visited` unfolded by a greatest counterexample).
* `SizeOK` says how far `allocuvm` and `copyuvm` have come, for `exec` segment by segment: the
  pages so far are those below `a`. From it follows that `copyuvm` finds every page of
  the parent, `loaduvm` those of its segment and `clearpteu` the guard page.

It also proves `Private`, that `Memory` implements `AddressSpaces`, whatever fails and is lost
on the way. The invariant above gives the frame: a store changes a page of the process's own,
`kalloc` and `kfree` change pages that no other process has (`Kept`). `DataInv` says what the
page tables not yet in use contain, so that the step which puts one into use is the `Fork`
or `Exec` of the abstract specification.

* `CopyOK`: a fork has copied the parent's pages up to the one it is at. The parent does
  not run meanwhile and nobody else changes its pages; so the child gets in the end what
  the parent had when it made the call. The page in hand (`mem` of `copyuvm`) holds its copy
  while a page table page is looked for.
* `ImageOK`: an exec has in its pages the bytes of the segments so far, zeroes elsewhere, and
  `job.end` is the end of the largest segment, rounded up and two pages further at the end.
  From this follows at `Commit` that the guard page and the stack are the last two pages.
* All pages that are mapped are below KERNBASE, also those left over above `sz`.

`LiveProofs` proves what the run `Live` checks of safety besides the log, for each of its four
models with its own constants free.

* `MessagesKeptApart`, for any number of CPUs and any length of messages. Until the first
  panic `cons.locking` is TRUE and the CPU that shows a character holds `cons.lock`; and
  once `panicked` is set a CPU has at most the character it had already tested for
  (`PrintInv`).
* `ReturnOnTime`, for any number of sleepers, any `Lag` and any width of the counter. The
  invariant (`ClockInv`) says of each sleeper that `ticks` is `ticks0 + passed` modulo `TickWrap`,
  and that its sleep, while it goes on, is not longer than it should be. What the loop
  compares is a difference modulo `TickWrap`, at most the number of ticks that have passed; hence
  the lower bound, for every length. That it is this number needs that fewer than `TickWrap` have
  passed, which is why the upper bound is stated for the lengths that leave room for `Lag`.
* `RingIsDisciplined`: `Console` implements `LineDiscipline`, for any INPUT_BUF and any `Wrap` it
  divides. The invariant has two numbers, `a` characters between `r` and `w` and `b` between `w`
  and `e`, with `a + b <= INPUT_BUF` and no end of line among the `b`. What is read from the ring
  is then a sequence that a key makes longer at its end and a reader shorter at its front,
  wherever the indexes wrap.
* `ProcessorsApart`, for any set of processors, any list of pages and any tables of the
  firmware. It assumes that a table lists the boot processor, that pages are distinct, and that
  there are more low pages than entries (a stack each, and the page table of `kvmalloc`); this
  is where `startothers`, which does not look at the result of `kalloc`, relies on the size of
  the memory. The invariant `BootInv` follows the boot processor through its calls (`FirstRight`,
  `StartRight`, `TableRight`), says what the others may have at each place (`OthersRight`,
  `FlagsRight`), that without a lock only one processor can be between the read of the free
  list and its write (`ReadRight`), and that a page has one place: the list, a stack, a page
  table, or a processor's hand (`PagesApart`, `PagesKnown`). `PagesEnough` counts them. The
  interrupts are the subtle part: the claim that the processor of the drive's interrupt has
  always started before a process runs is false, when that processor is the boot processor
  itself, which starts last. `InterruptsTaken` says what does hold.

Only model-checked: all liveness, which is out of the prover's reach under fairness; `Calls`
and `Usertests`, where each test is an instance of its own and there is nothing to
generalise; and `Shell`, `Malloc` and `Text`, which use RECURSIVE operators, whose values the
prover cannot compute.

## 5. Findings

* `Log_full`: `log_write` panics after `LOGSIZE-1` blocks, because `mkfs` counts the
  header in the size of the log, while `param.h` and `begin_op` have room for
  `LOGSIZE`. With the real numbers three calls of 10 blocks each are admitted and
  the 30th block panics.
* `Log_race`: `log_write` takes no lock.
* `Inodes_dotdot`: `unlink` of a directory leaves its ".." entry and takes the link
  that stood for it. A process in `/a/b`, both removed, that looks up ".." finds a free
  inode, and `ilock` panics.

* `Blocks_log`: `mkfs` does not mark the blocks of the log as used, and `balloc` takes any
  free block below `sb.size`. When the data blocks are used up, files get the blocks of
  the log.

Remarks that no run states as a disagreement:

* `kill` matches unused slots too (by the pid 0, or that of a fork that failed), and
  `allocproc` does not clear `killed`, so that the next process in the slot is killed
  at birth. `Proc` has both steps.
* A process that has read `killed` under another lock (`pipe.c:106`) and is on its way
  into `sleep` is not SLEEPING yet: `kill` wakes nobody, and it sleeps until the next
  wakeup although it is killed. `Sched` and `Files` have these steps.
* A writer that fills a pipe and finds itself killed gives up without a wakeup
  (`pipe.c:85`): a reader may sleep although there are bytes, until somebody writes
  or the last writer closes. `SleepersRight` allows for it.
* `create` and `link` lock the directory they got from `nameiparent` without a look at
  its `nlink`. If it has been removed meanwhile, the new name goes with it when it is
  freed, and the file keeps a link for ever. `NamesCovered` says what is left: a
  name always has its link.
* After an error of the drive the reader of a sector gets whatever the buffer had.

* `allocuvm` does not look at the result of `mappages` (`vm.c:240`). When the page table
  page is missing, the page is lost and the process has a hole below `sz`, over which a
  later `copyuvm` panics (`vm.c:321`) or `loaduvm` stumbles. `setupkvm` and `copyuvm` also
  lose what they have when it is a page table page that is missing (`vm.c:140`, 329).
  `Memory` has all of these steps; `NothingLost` and `SizeMapped` leave out what comes
  after them.
* `growproc` takes a new size of 0 for a failure; the skip over a missing page table in
  `deallocuvm` (`vm.c:258`) is not aligned. After an allocation that failed, it may pass by
  pages of the next page table. They stay mapped above `sz`: `copyuvm` does not copy them, and
  a later `sbrk` that comes to them panics with "remap". Nobody else gets at them (`Private`).
* `mkfs` rounds the root directory up to the next multiple of BSIZE after its size, so that
  a root that fills its blocks gets a size beyond its blocks.
* `grep` drops a last line without a newline, and does
  not end its buffer with a NUL after a read. `Text` models the buffer as it is;
  `GrepPrints` speaks of the complete lines.
* Of several redirections of one descriptor the first on the line wins, and `>>` does not
  append. `a & b` is refused.
* `consoleread` of a killed process returns -1 although it may have taken characters.
* `sleep(n)` with n near 2^32 may sleep on, if the difference wraps before the process
  looks (`sysproc.c:69`).
* `mpinit` never leaves its loop on an entry of an unknown type, although a comment
  (`mp.c:143`) describes the way back to one processor. `startothers` does not look at the
  result of `kalloc`.
* In `usertests.c`, `createdelete` unlinks other names in its last loop than those it made,
  and `fourfiles` checks two of its four files. `Usertests` has them as they are.

On the other hand the hazard that `TRICKS` describes for `fork` (the child is gone
and its slot reused before `fork` returns its pid) cannot arise in this code:
only the parent reaps a child, and it is in `fork` (`ChildKept`).

## 6. What is not modelled, and the plan

Not modelled, because there is no decision or nothing to interleave with: the boot loader
(`bootmain.c`, `bootasm.S`), register programming of devices (`uart.c`, `ioapic.c`,
`picirq.c`, most of `lapic.c`), the tables of `kbd.c`, the screen's cursor, `procdump`, the
scan of format strings, `string.c`'s one-line loops, the Makefile and the print scripts.
`fmt/` holds typeset copies of the sources: what the modules say of a file they say of its
copy, and the map names the originals.

Not modelled, for other reasons: `memide.c`, a driver of a disk in memory that may be linked
instead of `ide.c`, and the second disk of `ide.c`; the fetching of arguments in `syscall.c`
(a check of an address against `sz`, whose races with `sbrk` of the same process there
are none); `fstat`, and with it `ls`; `kill.c`; `fsfull` of `usertests.c`, which ends in
the panic of `balloc` by design; a shell that reads from the console, and `cd`. `kill` of
init is left out of `Proc`: `exit` then panics with "init exiting", as it says.

Next: `Content` over `Log`, so that a crash comes between the pieces of one write.
