------------------------------- MODULE Inodes -------------------------------
(***************************************************************************)
(* Inodes, directories and path names (fs.c) under the system calls that   *)
(* use them (sysfile.c): the inode cache with its references and I_BUSY    *)
(* locks, lookup that holds one directory at a time, and inodes freed when *)
(* neither a name nor a reference is left.                                 *)
(*                                                                         *)
(* A critical section of icache.lock is a step, and so is what a process   *)
(* does between two waits under I_BUSY locks that it holds.  The buffer    *)
(* cache makes reads and writes of one inode block atomic, module Log the  *)
(* whole call durable.  Of the content of a file nothing is kept.          *)
(***************************************************************************)
EXTENDS Integers, Sequences, FiniteSets

CONSTANTS
  Procs,
  NoProc,   \* I_BUSY is clear
  NInodes,  \* inodes are numbered from 1, the root
  Names,    \* file names other than ".", ".."
  MaxLinks, \* bound: no link is made while an inode has so many
  Calls     \* [sys, path, new]: the calls they make; a path is [abs, names]

Inums    == 1..NInodes
Root     == 1
AllNames == Names \cup {".."}

ASSUME InodesAssumption ==
  /\ IsFiniteSet(Procs) /\ NoProc \notin Procs
  /\ NInodes \in Nat \ {0} /\ MaxLinks \in Nat
  /\ IsFiniteSet(Names) /\ ".." \notin Names
  /\ \A c \in Calls :
       /\ c.sys \in {"open", "chdir", "creat", "mkdir", "unlink", "link"}
       /\ \A t \in {c.path, c.new} : t.abs \in BOOLEAN /\ t.names \in Seq(AllNames) \ {<< >>}

VARIABLES
  dinode,  \* the inodes on disk: [type, nlink]
  dir,     \* their content, if they are directories: name to inum, or 0
  icache,  \* [ref, busy, valid, type, nlink]: its entry in the cache; busy is the
           \* process that has set I_BUSY
  pc,      \* where a process is in its call
  ret,     \* where it goes on after the iput it is in
  call,    \* the call: [sys, path, new]
  rest,    \* the rest of the path in namex
  cur,     \* ip of namex, then dp of its caller
  ip,      \* ip of the caller
  drop,    \* the argument of iput
  cwd,     \* p->cwd
  file     \* the inode of the open file of a process

disk == <<dinode, dir>>
refs == <<cur, ip, drop, cwd, file>>
vars == <<disk, icache, pc, ret, call, rest, refs>>

Types == {"free", "dir", "file"}
Pcs == {"idle", "walk", "look", "put", "itrunc", "freed", "found", "open", "chdir", "link",
        "newname", "parent", "dirlink", "linked", "bad", "undo", "target", "victim", "unlink",
        "giveup", "unlinked", "create", "exists", "existed", "new", "fill", "made"}

NoEntry   == [ref |-> 0, busy |-> NoProc, valid |-> FALSE, type |-> "free", nlink |-> 0]
NoEntries == [n \in AllNames |-> 0]
NoCall    == [sys |-> "none"]

-----------------------------------------------------------------------------
(* The cache.                                                              *)

\* iget finds the entry of an inode or makes one, in one critical section, so
\* that an inode has one entry at most.
Got(e) == [e EXCEPT !.ref = @ + 1, !.valid = @ /\ e.ref > 0]

Iget(i) == [icache EXCEPT ![i] = Got(icache[i])]

\* ilock: I_BUSY, and the inode is read from disk if it is not valid.
Ilock(p, s) ==
  /\ icache[s].busy = NoProc
  /\ LET d == dinode[s]
     IN  icache' = IF icache[s].valid
                   THEN [icache EXCEPT ![s].busy = p]
                   ELSE [icache EXCEPT ![s].busy = p, ![s].valid = TRUE,
                                       ![s].type = d.type, ![s].nlink = d.nlink]

\* iunlock, in the cache c
Unlocked(c, s) == [c EXCEPT ![s].busy = NoProc]

Goto(p, l) == pc' = [pc EXCEPT ![p] = l]

\* Go on at l after an iput; the call is over if that is "idle".
Resume(p, l) ==
  /\ Goto(p, l)
  /\ ret' = [ret EXCEPT ![p] = "idle"]
  /\ call' = [call EXCEPT ![p] = IF l = "idle" THEN NoCall ELSE @]
  /\ rest' = [rest EXCEPT ![p] = IF l = "idle" THEN << >> ELSE @]

\* A call of iput(s), to go on at l.
Iput(p, s, l) ==
  /\ drop' = [drop EXCEPT ![p] = s]
  /\ ret' = [ret EXCEPT ![p] = l]
  /\ Goto(p, "put")

\* Mutant: iput does not look at the other references.
LastName(s) == icache[s].valid /\ icache[s].nlink = 0

LastPut(s) == icache[s].ref = 1 /\ icache[s].valid /\ icache[s].nlink = 0

\* ref--.  Nobody reads what the entry of an inode without references has.
Dropped(c, s) ==
  [c EXCEPT ![s] = IF c[s].ref = 1 THEN NoEntry ELSE [c[s] EXCEPT !.ref = @ - 1]]

\* iput: the last reference to an inode without names locks it, to free it.
Put(p) ==
  /\ pc[p] = "put"
  /\ LET s == drop[p]
     IN  IF LastPut(s)
         THEN /\ icache' = [icache EXCEPT ![s].busy = p]
              /\ Goto(p, "itrunc")
              /\ UNCHANGED <<drop, ret, call, rest>>
         ELSE /\ icache' = Dropped(icache, s)
              /\ Resume(p, ret[p])
              /\ drop' = [drop EXCEPT ![p] = 0]
  /\ UNCHANGED <<disk, cur, ip, cwd, file>>

\* itrunc, type = 0, iupdate: from here on ialloc can take the inode.
Itrunc(p) ==
  /\ pc[p] = "itrunc"
  /\ dinode' = [dinode EXCEPT ![drop[p]] = [type |-> "free", nlink |-> 0]]
  /\ dir' = [dir EXCEPT ![drop[p]] = NoEntries]
  /\ icache' = [icache EXCEPT ![drop[p]].type = "free"]
  /\ Goto(p, "freed")
  /\ UNCHANGED <<ret, call, rest, refs>>

\* iput: flags = 0, ref--.
Freed(p) ==
  /\ pc[p] = "freed"
  /\ icache' = Dropped([icache EXCEPT ![drop[p]].busy = NoProc, ![drop[p]].valid = FALSE],
                       drop[p])
  /\ drop' = [drop EXCEPT ![p] = 0]
  /\ Resume(p, ret[p])
  /\ UNCHANGED <<disk, cur, ip, cwd, file>>

-----------------------------------------------------------------------------
(* Path names.                                                             *)

\* namex starts at the root or at the current directory.
From(p, t) ==
  /\ icache' = IF t.abs THEN Iget(Root) ELSE [icache EXCEPT ![cwd[p]].ref = @ + 1]
  /\ cur' = [cur EXCEPT ![p] = IF t.abs THEN Root ELSE cwd[p]]
  /\ rest' = [rest EXCEPT ![p] = t.names]
  /\ Goto(p, "walk")

\* Whether the walk is nameiparent's.
Parent(p) == call[p].sys \in {"creat", "mkdir", "unlink"} \/ ip[p] # 0

\* Where a walk goes on that found nothing.
Failed(p) == IF ip[p] # 0 THEN "bad" ELSE "idle"

\* The places where a process locks cur or ip, and where it is then.
WithCur(p) ==
  [walk |-> "look",
   parent |-> CASE call[p].sys = "link" -> "dirlink"
                [] call[p].sys = "unlink" -> "target"
                [] OTHER -> "create"]
WithIp(p) ==
  [found |-> call[p].sys, bad |-> "undo", victim |-> "unlink", exists |-> "existed",
   new |-> "fill"]

LockCur(p) ==
  /\ pc[p] \in DOMAIN WithCur(p)
  /\ Ilock(p, cur[p])
  /\ Goto(p, WithCur(p)[pc[p]])
  /\ UNCHANGED <<disk, ret, call, rest, refs>>

LockIp(p) ==
  /\ pc[p] \in DOMAIN WithIp(p)
  /\ Ilock(p, ip[p])
  /\ Goto(p, WithIp(p)[pc[p]])
  /\ UNCHANGED <<disk, ret, call, rest, refs>>

\* iunlock(cur) and iput(cur), to go on at l.
GiveUp(p, l) ==
  /\ icache' = Unlocked(icache, cur[p])
  /\ Iput(p, cur[p], l)
  /\ cur' = [cur EXCEPT ![p] = 0]

\* The same for ip.
Leave(p, l) ==
  /\ icache' = Unlocked(icache, ip[p])
  /\ Iput(p, ip[p], l)
  /\ ip' = [ip EXCEPT ![p] = 0]

Entry(p) == dir[cur[p]][Head(rest[p])]
IsDir(s) == icache[s].type = "dir"
Last(p)  == Len(rest[p]) = 1

\* Not a directory, or no such name in it.
LookFails(p) ==
  /\ pc[p] = "look"
  /\ \/ ~ IsDir(cur[p])
     \/ Entry(p) = 0 /\ ~ (Parent(p) /\ Last(p))
  /\ GiveUp(p, Failed(p))
  /\ UNCHANGED <<disk, call, rest, ip, cwd, file>>

\* Stop one level early.
LookParent(p) ==
  /\ pc[p] = "look"
  /\ IsDir(cur[p]) /\ Parent(p) /\ Last(p)
  /\ icache' = Unlocked(icache, cur[p])
  /\ Goto(p, "parent")
  /\ UNCHANGED <<disk, ret, call, rest, refs>>

\* dirlookup takes a reference to the next inode before this one is let go.
LookNext(p) ==
  /\ pc[p] = "look"
  /\ IsDir(cur[p]) /\ ~ (Parent(p) /\ Last(p)) /\ Entry(p) # 0
  /\ icache' = Unlocked(Iget(Entry(p)), cur[p])
  /\ rest' = [rest EXCEPT ![p] = Tail(@)]
  /\ IF Last(p)
     THEN /\ Iput(p, cur[p], "found")
          /\ ip' = [ip EXCEPT ![p] = Entry(p)]
          /\ cur' = [cur EXCEPT ![p] = 0]
     ELSE /\ Iput(p, cur[p], "walk")
          /\ cur' = [cur EXCEPT ![p] = Entry(p)]
          /\ UNCHANGED ip
  /\ UNCHANGED <<disk, call, cwd, file>>

-----------------------------------------------------------------------------
(* open, chdir and close.                                                  *)

\* A file and a descriptor for it; a process has one at most.
Open(p) ==
  /\ pc[p] = "open"
  /\ file[p] = 0
  /\ file' = [file EXCEPT ![p] = ip[p]]
  /\ ip' = [ip EXCEPT ![p] = 0]
  /\ icache' = Unlocked(icache, ip[p])
  /\ Resume(p, "idle")
  /\ UNCHANGED <<disk, cur, drop, cwd>>

\* No file, no descriptor, or a directory that is to be written.
OpenFails(p) ==
  /\ pc[p] = "open"
  /\ Leave(p, "idle")
  /\ UNCHANGED <<disk, call, rest, cur, cwd, file>>

Close(p) ==
  /\ pc[p] = "idle"
  /\ file[p] # 0
  /\ Iput(p, file[p], "idle")
  /\ file' = [file EXCEPT ![p] = 0]
  /\ UNCHANGED <<disk, icache, call, rest, cur, ip, cwd>>

\* chdir: iput(proc->cwd), and ip takes its place.
Chdir(p) ==
  /\ pc[p] = "chdir"
  /\ IF IsDir(ip[p])
     THEN /\ icache' = Unlocked(icache, ip[p])
          /\ Iput(p, cwd[p], "idle")
          /\ cwd' = [cwd EXCEPT ![p] = ip[p]]
          /\ ip' = [ip EXCEPT ![p] = 0]
     ELSE Leave(p, "idle") /\ UNCHANGED cwd
  /\ UNCHANGED <<disk, call, rest, cur, file>>

-----------------------------------------------------------------------------
(* link                                                                    *)

\* Mutant: a link is not counted.
Uncounted(c, s, d) == c

\* The change of a link count of a locked inode.
Counted(c, s, d) == [c EXCEPT ![s].nlink = @ + d]

\* Mutant: the change stays in memory.
IupdateNot(c, s) == UNCHANGED dinode

Iupdate(c, s) ==
  dinode' = [dinode EXCEPT ![s] = [type |-> c[s].type, nlink |-> c[s].nlink]]

\* Mutant: link holds the lock of ip while it looks up the new name.
LinkLocked(p) ==
  /\ pc[p] = "link"
  /\ ~ IsDir(ip[p])
  /\ icache' = Counted(icache, ip[p], 1)
  /\ Iupdate(icache', ip[p])
  /\ Goto(p, "newname")
  /\ UNCHANGED <<dir, ret, call, rest, refs>>

\* nlink++ comes before the new name; a directory is not linked.
LinkOld(p) ==
  /\ pc[p] = "link"
  /\ ~ IsDir(ip[p])
  /\ icache' = Unlocked(Counted(icache, ip[p], 1), ip[p])
  /\ Iupdate(icache', ip[p])
  /\ Goto(p, "newname")
  /\ UNCHANGED <<dir, ret, call, rest, refs>>

LinkDir(p) ==
  /\ pc[p] = "link"
  /\ IsDir(ip[p])
  /\ Leave(p, "idle")
  /\ UNCHANGED <<disk, call, rest, cur, cwd, file>>

\* nameiparent(new, name)
NewName(p) ==
  /\ pc[p] = "newname"
  /\ From(p, call[p].new)
  /\ UNCHANGED <<disk, ret, call, ip, drop, cwd, file>>

\* dirlink(dp, name, i)
Linked(s, n, i) == dir' = [dir EXCEPT ![s][n] = i]

\* The iput of an entry dirlink finds is never the last one: it has a name.
Dirlink(p) ==
  /\ pc[p] = "dirlink"
  /\ IF Entry(p) # 0
     THEN UNCHANGED dir /\ GiveUp(p, "bad")
     ELSE Linked(cur[p], Head(rest[p]), ip[p]) /\ GiveUp(p, "linked")
  /\ UNCHANGED <<dinode, call, rest, ip, cwd, file>>

LinkDone(p) ==
  /\ pc[p] = "linked"
  /\ Iput(p, ip[p], "idle")
  /\ ip' = [ip EXCEPT ![p] = 0]
  /\ UNCHANGED <<disk, icache, call, rest, cur, cwd, file>>

\* nlink--, iupdate, iunlockput(ip): the end of unlink, and of a link that failed.
DropLink(p) ==
  /\ pc[p] \in {"undo", "unlinked"}
  /\ icache' = Unlocked(Counted(icache, ip[p], -1), ip[p])
  /\ Iupdate(icache', ip[p])
  /\ Iput(p, ip[p], "idle")
  /\ ip' = [ip EXCEPT ![p] = 0]
  /\ UNCHANGED <<dir, call, rest, cur, cwd, file>>

-----------------------------------------------------------------------------
(* unlink                                                                  *)

\* The name is looked up in the locked directory; ".." is refused.
Target(p) ==
  /\ pc[p] = "target"
  /\ IF Head(rest[p]) \in Names /\ Entry(p) # 0
     THEN /\ icache' = Iget(Entry(p))
          /\ ip' = [ip EXCEPT ![p] = Entry(p)]
          /\ Goto(p, "victim")
          /\ UNCHANGED <<ret, cur, drop>>
     ELSE GiveUp(p, "idle") /\ UNCHANGED ip
  /\ UNCHANGED <<disk, call, rest, cwd, file>>

\* isdirempty
Empty(s) == \A n \in Names : dir[s][n] = 0

\* The entry goes, and with a directory its "..", while both are locked.
Unlink(p) ==
  /\ pc[p] = "unlink"
  /\ IsDir(ip[p]) => Empty(ip[p])
  /\ Linked(cur[p], Head(rest[p]), 0)
  /\ LET c == Counted(icache, cur[p], IF IsDir(ip[p]) THEN -1 ELSE 0)
     IN  Iupdate(c, cur[p]) /\ icache' = Unlocked(c, cur[p])
  /\ Iput(p, cur[p], "unlinked")
  /\ cur' = [cur EXCEPT ![p] = 0]
  /\ UNCHANGED <<call, rest, ip, cwd, file>>

NotEmpty(p) ==
  /\ pc[p] = "unlink"
  /\ IsDir(ip[p]) /\ ~ Empty(ip[p])
  /\ Leave(p, "giveup")
  /\ UNCHANGED <<disk, call, rest, cur, cwd, file>>

\* bad: iunlockput(dp).
Bad(p) ==
  /\ pc[p] = "giveup"
  /\ GiveUp(p, "idle")
  /\ UNCHANGED <<disk, call, rest, ip, cwd, file>>

-----------------------------------------------------------------------------
(* create, for open and mkdir                                              *)

\* The name exists: the directory is let go before the inode is locked.
Existing(p) ==
  /\ pc[p] = "create"
  /\ Entry(p) # 0
  /\ icache' = Unlocked(Iget(Entry(p)), cur[p])
  /\ ip' = [ip EXCEPT ![p] = Entry(p)]
  /\ Iput(p, cur[p], "exists")
  /\ cur' = [cur EXCEPT ![p] = 0]
  /\ UNCHANGED <<disk, call, rest, cwd, file>>

\* Only open takes a file that exists.
Existed(p) ==
  /\ pc[p] = "existed"
  /\ IF call[p].sys = "creat" /\ icache[ip[p]].type = "file"
     THEN Goto(p, "open") /\ UNCHANGED <<icache, ret, ip, drop>>
     ELSE Leave(p, "idle")
  /\ UNCHANGED <<disk, call, rest, cur, cwd, file>>

Made(p) == IF call[p].sys = "mkdir" THEN "dir" ELSE "file"

\* ialloc: the first inode that is free on disk.
Ialloc(p) ==
  /\ pc[p] = "create"
  /\ Entry(p) = 0
  /\ \E i \in Inums :
       /\ dinode[i].type = "free"
       /\ \A j \in 1..(i - 1) : dinode[j].type # "free"
       /\ dinode' = [dinode EXCEPT ![i] = [type |-> Made(p), nlink |-> 0]]
       /\ icache' = Iget(i)
       /\ ip' = [ip EXCEPT ![p] = i]
  /\ Goto(p, "new")
  /\ UNCHANGED <<dir, ret, call, rest, cur, drop, cwd, file>>

\* nlink = 1, the dots of a directory and the name, while both are locked.
Fill(p) ==
  /\ pc[p] = "fill"
  /\ LET i == ip[p]
         d == cur[p]
         c == Counted([icache EXCEPT ![i].nlink = 1], d, IF Made(p) = "dir" THEN 1 ELSE 0)
     IN  /\ dinode' = [dinode EXCEPT ![i].nlink = 1, ![d].nlink = c[d].nlink]
         /\ dir' = [dir EXCEPT ![i][".."] = IF Made(p) = "dir" THEN d ELSE 0,
                               ![d][Head(rest[p])] = i]
         /\ icache' = Unlocked(c, d)
  /\ Iput(p, cur[p], IF Made(p) = "dir" THEN "made" ELSE "open")
  /\ cur' = [cur EXCEPT ![p] = 0]
  /\ UNCHANGED <<call, rest, ip, cwd, file>>

\* mkdir: iunlockput(ip).
Mkdir(p) ==
  /\ pc[p] = "made"
  /\ Leave(p, "idle")
  /\ UNCHANGED <<disk, call, rest, cur, cwd, file>>

-----------------------------------------------------------------------------
Creates(c) == c.sys \in {"creat", "mkdir"}

\* Bound: nobody creates a file for which there might be no inode left ("ialloc:
\* no inodes").
Room ==
  Cardinality({i \in Inums : dinode[i].type = "free"})
    > Cardinality({p \in Procs : Creates(call[p])})

Begin(p, c) ==
  /\ pc[p] = "idle"
  /\ Creates(c) => Room
  /\ c.sys = "link" => \A i \in Inums : dinode[i].nlink < MaxLinks
  /\ call' = [call EXCEPT ![p] = c]
  /\ From(p, c.path)
  /\ UNCHANGED <<disk, ret, ip, drop, cwd, file>>

\* The disk mkfs makes, and the first process, which the others share the root with.
Init ==
  /\ dinode = [i \in Inums |-> IF i = Root THEN [type |-> "dir", nlink |-> 1]
                                           ELSE [type |-> "free", nlink |-> 0]]
  /\ dir = [i \in Inums |-> IF i = Root THEN [NoEntries EXCEPT ![".."] = Root] ELSE NoEntries]
  /\ icache = [i \in Inums |->
                 IF i = Root THEN [NoEntry EXCEPT !.ref = Cardinality(Procs)] ELSE NoEntry]
  /\ pc = [p \in Procs |-> "idle"]
  /\ ret = [p \in Procs |-> "idle"]
  /\ call = [p \in Procs |-> NoCall]
  /\ rest = [p \in Procs |-> << >>]
  /\ cur = [p \in Procs |-> 0]
  /\ ip = [p \in Procs |-> 0]
  /\ drop = [p \in Procs |-> 0]
  /\ cwd = [p \in Procs |-> 1]
  /\ file = [p \in Procs |-> 0]

Next ==
  \E p \in Procs :
    \/ \E c \in Calls : Begin(p, c)
    \/ LockCur(p) \/ LockIp(p)
    \/ Put(p) \/ Itrunc(p) \/ Freed(p)
    \/ LookFails(p) \/ LookParent(p) \/ LookNext(p)
    \/ Open(p) \/ OpenFails(p) \/ Close(p) \/ Chdir(p)
    \/ LinkOld(p) \/ LinkDir(p) \/ NewName(p) \/ Dirlink(p) \/ LinkDone(p) \/ DropLink(p)
    \/ Target(p) \/ Unlink(p) \/ NotEmpty(p) \/ Bad(p)
    \/ Existing(p) \/ Existed(p) \/ Ialloc(p) \/ Fill(p) \/ Mkdir(p)

Spec == Init /\ [][Next]_vars

-----------------------------------------------------------------------------
\* Every variable keeps its type.
TypeOK ==
  /\ dinode \in [Inums -> [type : Types, nlink : Nat]]
  /\ dir \in [Inums -> [AllNames -> Inums \cup {0}]]
  /\ icache \in [Inums -> [ref : Nat, busy : Procs \cup {NoProc}, valid : BOOLEAN,
                           type : Types, nlink : Nat]]
  /\ pc \in [Procs -> Pcs]
  /\ ret \in [Procs -> Pcs]
  /\ call \in [Procs -> Calls \cup {NoCall}]
  /\ rest \in [Procs -> Seq(AllNames)]
  /\ \A v \in {cur, ip, drop, cwd, file} : v \in [Procs -> Inums \cup {0}]

Pointers(s) ==
  Cardinality({x \in (1..5) \X Procs : <<cur, ip, drop, cwd, file>>[x[1]][x[2]] = s})

\* ip->ref is the number of pointers to the entry, on every path through the
\* system calls (fs.c:126-131).
RefsCounted == \A s \in Inums : icache[s].ref = Pointers(s)

\* What is cached as valid and not locked is what the disk has (fs.c:136-140).
CacheAgrees ==
  \A s \in Inums :
    LET e == icache[s]
    IN  e.ref > 0 /\ e.valid /\ e.busy = NoProc =>
          dinode[s] = [type |-> e.type, nlink |-> e.nlink]

\* An inode is not freed while somebody has it open or is in it (fs.c:324-326).
InUse ==
  \A p \in Procs : \A s \in {cwd[p], file[p]} \ {0} :
    /\ dinode[s].type # "free"
    /\ s = cwd[p] => dinode[s].type = "dir"

\* The names an inode has: entries for it, and the ".." of its subdirectories.
NamesOf(i) ==
  Cardinality({e \in Inums \X Names : dir[e[1]][e[2]] = i}) +
  Cardinality({n \in Names : dir[i][n] # 0 /\ dinode[dir[i][n]].type = "dir"})

\* nlink never falls below the number of names, so that no name leads to an
\* inode that has been freed, or to another that has taken its place.
NamesCovered == \A i \in Inums : NamesOf(i) <= dinode[i].nlink

\* The locks processes wait for are never held in a circle: a directory is
\* locked before what is in it, and by lookup one at a time.
WaitsFor(p) ==
  IF pc[p] \in DOMAIN WithCur(p) THEN {icache[cur[p]].busy}
  ELSE IF pc[p] \in DOMAIN WithIp(p) THEN {icache[ip[p]].busy}
  ELSE {NoProc}

NoWaitCycle == \A P \in (SUBSET Procs) \ {{}} : \E p \in P : WaitsFor(p) \cap P = {}

WithoutType(s) ==
  /\ icache[s].busy = NoProc /\ ~ icache[s].valid
  /\ dinode[s].type = "free"

Panics(p) ==
  \/ pc[p] \in DOMAIN WithCur(p) /\ WithoutType(cur[p])
  \/ pc[p] \in DOMAIN WithIp(p) /\ WithoutType(ip[p])
  \/ pc[p] \in {"look", "dirlink", "target", "unlink", "giveup", "create", "fill"}
     /\ icache[cur[p]].busy # p
  \/ pc[p] \in {"open", "chdir", "link", "undo", "unlink", "unlinked", "existed", "fill", "made"}
     /\ icache[ip[p]].busy # p
  \/ pc[p] \in {"dirlink", "target", "create"} /\ ~ IsDir(cur[p])
  \/ pc[p] = "unlink" /\ icache[ip[p]].nlink < 1
  \/ pc[p] = "put" /\ LastPut(drop[p]) /\ icache[drop[p]].busy # NoProc

\* No panic in ilock, iunlock, iput, dirlookup or unlink.
NeverPanics == \A p \in Procs : ~ Panics(p)

\* The cache is right about every inode: references, its copies of what is on disk, and
\* which inodes may be freed (iget, ilock, iupdate, iput).
CacheRight == TypeOK /\ RefsCounted /\ CacheAgrees /\ InUse
=============================================================================
