-------------------------------- MODULE Shell -------------------------------
(***************************************************************************)
(* The shell (sh.c): the parser of command lines, and what the processes do  *)
(* that run one.                                                           *)
(*                                                                         *)
(* A line is a sequence of the tokens gettoken finds.  A process of the      *)
(* shell runs runcmd on its part of the command, forks, opens and closes     *)
(* descriptors, and waits; the processes interleave at these calls.  The     *)
(* program a command names is any that writes its name, then copies its      *)
(* input to its output, and exits at the end of its input; the console has   *)
(* no input.                                                               *)
(***************************************************************************)
EXTENDS Integers, Sequences, FiniteSets, SequencesExt

CONSTANTS
  Words,      \* the tokens gettoken returns 'a' for
  MAXARGS,
  CmdLines,   \* the lines that are typed
  OnDisk0,    \* the files there are
  NTask,      \* processes there may be
  PipeCap     \* PIPESIZE, in items

Redirections == {"<", ">", ">>"}
NoCmd == [type |-> "none"]

Exec1(argv)   == [type |-> "EXEC", argv |-> argv]
Redir(c, r)   == [type |-> "REDIR", cmd |-> c, file |-> r[2], fd |-> IF r[1] = "<" THEN 0 ELSE 1]
Pipe2(l, r)   == [type |-> "PIPE", left |-> l, right |-> r]
List(l, r)    == [type |-> "LIST", left |-> l, right |-> r]
Back(c)       == [type |-> "BACK", cmd |-> c]
Redirected(c, rs) == FoldLeft(Redir, c, rs)

-----------------------------------------------------------------------------
\* The parser: what each function returns, and the tokens it has left.  A panic leaves
\* one that nobody can go on with.
Parsed(c, s)  == [cmd |-> c, rest |-> s]
Panic         == Parsed(NoCmd, <<"panic">>)
Peek(s, toks) == s # << >> /\ Head(s) \in toks

\* parseredirs, rs being those parsed before.
RECURSIVE Parseredirs(_, _)
Parseredirs(rs, s) ==
  IF ~ Peek(s, Redirections) THEN Parsed(rs, s)
  ELSE IF Len(s) = 1 \/ s[2] \notin Words THEN Panic
  ELSE Parseredirs(Append(rs, <<s[1], s[2]>>), SubSeq(s, 3, Len(s)))

\* The loop of parseexec.
RECURSIVE Parseargs(_, _, _)
Parseargs(argv, rs, s) ==
  LET r == Parseredirs(rs, s)
  IN  IF r.rest = << >> \/ Peek(r.rest, {"|", ")", "&", ";"})
      THEN Parsed(Redirected(Exec1(argv), r.cmd), r.rest)
      ELSE IF Head(r.rest) \notin Words \/ Len(argv) + 1 >= MAXARGS THEN Panic
      ELSE Parseargs(Append(argv, Head(r.rest)), r.cmd, Tail(r.rest))

RECURSIVE Parseline(_), Parsepipe(_), Backs(_)

Parseblock(s) ==
  LET l == Parseline(Tail(s))
      r == Parseredirs(<< >>, Tail(l.rest))
  IN  IF Peek(l.rest, {")"}) /\ r.rest # Panic.rest THEN Parsed(Redirected(l.cmd, r.cmd), r.rest)
      ELSE Panic

Parseexec(s) == IF Peek(s, {"("}) THEN Parseblock(s) ELSE Parseargs(<< >>, << >>, s)

\* What follows: nothing, or a separator t and more.
Joined(l, t, F(_, _), More(_)) ==
  IF ~ Peek(l.rest, {t}) THEN l
  ELSE LET r == More(Tail(l.rest)) IN Parsed(F(l.cmd, r.cmd), r.rest)

\* Mutant: only one pipe.
ParsepipeOnce(s) == Joined(Parseexec(s), "|", Pipe2, Parseexec)

Parsepipe(s) == Joined(Parseexec(s), "|", Pipe2, Parsepipe)

Backs(r) == IF Peek(r.rest, {"&"}) THEN Backs(Parsed(Back(r.cmd), Tail(r.rest))) ELSE r

Parseline(s) == Joined(Backs(Parsepipe(s)), ";", List, Parseline)

\* parsecmd: no token may be left over.
Parsecmd(s) == LET r == Parseline(s) IN IF r.rest = << >> THEN r.cmd ELSE NoCmd

-----------------------------------------------------------------------------
\* The grammar the parser is for: the commands a sequence of tokens stands for.
IsFile(s, i) == i > 1 /\ s[i - 1] \in Redirections
Simple(s) ==
  /\ \A i \in DOMAIN s : s[i] \in Words \cup Redirections
  /\ \A i \in DOMAIN s : s[i] \in Redirections => i < Len(s) /\ s[i + 1] \in Words

Picked(s, In(_), F(_)) ==
  FoldLeftDomain(LAMBDA r, i : IF In(i) THEN Append(r, F(i)) ELSE r, << >>, s)
Args(s)  == Picked(s, LAMBDA i : s[i] \in Words /\ ~ IsFile(s, i), LAMBDA i : s[i])
Files(s) == Picked(s, LAMBDA i : IsFile(s, i), LAMBDA i : <<s[i - 1], s[i]>>)
Upto(s, i)  == SubSeq(s, 1, i - 1)
After(s, i) == SubSeq(s, i + 1, Len(s))
At1(s, t)   == {i \in DOMAIN s : s[i] = t}

RECURSIVE LineSet(_), JobSet(_), PipeSet(_)
BlockSet(s) ==
  UNION {{Redirected(c, Files(After(s, i))) : c \in LineSet(SubSeq(s, 2, i - 1))} :
           i \in {i \in At1(s, ")") : s[1] = "(" /\ Simple(After(s, i)) /\ Args(After(s, i)) = << >>}}
CommandSet(s) ==
  BlockSet(s) \cup
  {Redirected(Exec1(Args(s)), Files(s)) : x \in {x \in {0} : Simple(s) /\ Len(Args(s)) < MAXARGS}}
PipeSet(s) ==
  CommandSet(s) \cup
  UNION {{Pipe2(l, r) : l \in CommandSet(Upto(s, i)), r \in PipeSet(After(s, i))} : i \in At1(s, "|")}
JobSet(s) ==
  PipeSet(s) \cup (IF s # << >> /\ Last(s) = "&" THEN {Back(c) : c \in JobSet(Front(s))} ELSE {})
LineSet(s) ==
  JobSet(s) \cup
  UNION {{List(l, r) : l \in JobSet(Upto(s, i)), r \in LineSet(After(s, i))} : i \in At1(s, ";")}

-----------------------------------------------------------------------------
VARIABLES
  line,     \* buf of main
  task,     \* the processes: where one is, its command, descriptors and parent
  ofile,    \* the open files the descriptors are of
  pipes,    \* what is in the pipes
  disk,     \* the content of the files
  screen    \* what has been written to the console

shellVars == <<line, task, ofile, pipes, disk, screen>>

Tasks   == 1..NTask
Main    == 1
Gone    == [at |-> "free", cmd |-> NoCmd, fd |-> << >>, parent |-> 0, hold |-> << >>]
Console == [kind |-> "console"]
Mine(p) == {q \in Tasks : task[q].parent = p}
AtCmd(p, t) == task[p].at = "runcmd" /\ task[p].cmd.type = t

\* Descriptors: a function on the open ones.
Closed(f, S) == [d \in DOMAIN f \ S |-> f[d]]
LowestFd(f)  == CHOOSE d \in 0..6 : d \notin DOMAIN f /\ \A e \in 0..(d - 1) : e \in DOMAIN f
Opened(f, o) == [d \in DOMAIN f \cup {LowestFd(f)} |-> IF d = LowestFd(f) THEN o ELSE f[d]]
DescOf(p, d) == ofile[task[p].fd[d]]

\* Some process has an end of pipe k open.
HasPipe(k, w) ==
  \E p \in Tasks : \E d \in DOMAIN task[p].fd :
    DescOf(p, d) = [kind |-> "pipe", pipe |-> k, writable |-> w]

\* fork1: q is the lowest process there is not.
Forks(p, at, q, child) ==
  /\ q = CHOOSE n \in Tasks : task[n] = Gone /\ \A m \in 1..(n - 1) : task[m] # Gone
  /\ task' = [task EXCEPT ![p].at = at,
                          ![q] = [child EXCEPT !.fd = task[p].fd, !.parent = p]]
  /\ UNCHANGED <<line, ofile, pipes, disk, screen>>

RunsCmd(c) == [Gone EXCEPT !.at = "runcmd", !.cmd = c]

\* exit: the children go to init, which waits for them.
Exited(p) ==
  [q \in Tasks |->
     IF q = p THEN IF task[p].parent = 0 THEN Gone
                   ELSE [Gone EXCEPT !.at = "zombie", !.parent = task[p].parent]
     ELSE IF task[q].parent # p THEN task[q]
     ELSE IF task[q].at = "zombie" THEN Gone ELSE [task[q] EXCEPT !.parent = 0]]

Exits(p) == task' = Exited(p) /\ UNCHANGED <<line, ofile, pipes, disk, screen>>

\* main: fork1() == 0 runs runcmd(parsecmd(buf)), where a panic exits; the parse is in
\* the initial state.
MainForks ==
  /\ task[Main].at = "prompt"
  /\ \E q \in Tasks : Forks(Main, "wait", q, RunsCmd(task[Main].cmd))

\* wait, and what the caller goes on with.
Waited(p) ==
  CASE task[p].at = "wait"  -> [task[p] EXCEPT !.at = "done"]
    [] task[p].at = "list"  -> [task[p] EXCEPT !.at = "runcmd", !.cmd = @.right]
    [] task[p].at = "pipe4" -> [task[p] EXCEPT !.at = "pipe5"]
    [] task[p].at = "pipe5" -> [task[p] EXCEPT !.at = "exit"]

WaitTask(p) ==
  /\ task[p].at \in {"wait", "list", "pipe4", "pipe5"}
  /\ \E q \in Mine(p) :
       /\ task[q].at = "zombie"
       /\ task' = [task EXCEPT ![q] = Gone, ![p] = Waited(p)]
  /\ UNCHANGED <<line, ofile, pipes, disk, screen>>

ExitTask(p) ==
  /\ \/ task[p].at = "exit" \/ AtCmd(p, "none")
     \/ AtCmd(p, "EXEC") /\ task[p].cmd.argv = << >>
  /\ Exits(p)

\* exec
RunExec(p) ==
  /\ AtCmd(p, "EXEC") /\ task[p].cmd.argv # << >>
  /\ task' = [task EXCEPT ![p].at = "program", ![p].hold = <<task[p].cmd.argv[1]>>]
  /\ UNCHANGED <<line, ofile, pipes, disk, screen>>

\* close and open: without O_CREATE the file must be there.
RunRedir(p) ==
  LET c == task[p].cmd
      f == Closed(task[p].fd, {c.fd})
  IN  /\ AtCmd(p, "REDIR")
      /\ IF c.fd = 0 /\ c.file \notin DOMAIN disk THEN Exits(p)
         ELSE /\ ofile' = Append(ofile, [kind |-> "file", file |-> c.file, off |-> 0])
              /\ task' = [task EXCEPT ![p].fd = Opened(f, Len(ofile')), ![p].cmd = c.cmd]
              /\ disk' = IF c.file \in DOMAIN disk THEN disk
                         ELSE [n \in DOMAIN disk \cup {c.file} |->
                                 IF n = c.file THEN << >> ELSE disk[n]]
              /\ UNCHANGED <<line, pipes, screen>>

\* Mutant: the left side is not waited for.
RunListOn(p) ==
  /\ AtCmd(p, "LIST")
  /\ \E q \in Tasks :
       /\ task[q] = Gone
       /\ task' = [task EXCEPT ![p].cmd = @.right,
                               ![q] = [RunsCmd(task[p].cmd.left) EXCEPT
                                         !.fd = task[p].fd, !.parent = p]]
  /\ UNCHANGED <<line, ofile, pipes, disk, screen>>

RunList(p) ==
  /\ AtCmd(p, "LIST")
  /\ \E q \in Tasks : Forks(p, "list", q, RunsCmd(task[p].cmd.left))

RunBack(p) ==
  /\ AtCmd(p, "BACK")
  /\ \E q \in Tasks : Forks(p, "exit", q, RunsCmd(task[p].cmd.cmd))

\* pipe(p): p[0] and p[1] are the lowest descriptors.
RunPipe(p) ==
  /\ AtCmd(p, "PIPE")
  /\ pipes' = Append(pipes, << >>)
  /\ ofile' = ofile \o <<[kind |-> "pipe", pipe |-> Len(pipes'), writable |-> FALSE],
                         [kind |-> "pipe", pipe |-> Len(pipes'), writable |-> TRUE]>>
  /\ task' = [task EXCEPT ![p].fd = Opened(Opened(@, Len(ofile) + 1), Len(ofile) + 2),
                          ![p].at = "pipe1"]
  /\ UNCHANGED <<line, disk, screen>>

\* The descriptors p[0] and p[1] of the last pipe a process has made or inherited.
Ends(p) == {d \in DOMAIN task[p].fd : d > 2}

PipeForks(p) ==
  /\ task[p].at \in {"pipe1", "pipe2"}
  /\ \E q \in Tasks :
       IF task[p].at = "pipe1"
       THEN Forks(p, "pipe2", q, [RunsCmd(task[p].cmd.left) EXCEPT !.at = "left"])
       ELSE Forks(p, "pipe3", q, [RunsCmd(task[p].cmd.right) EXCEPT !.at = "right"])

\* close(1), dup(p[1]) or close(0), dup(p[0]); the ends are closed.
PipeDup(p, at, d) ==
  /\ task[p].at = at
  /\ LET end == CHOOSE e \in Ends(p) : DescOf(p, e).writable = (d = 1)
         f   == Opened(Closed(task[p].fd, {d}), task[p].fd[end])
     IN  task' = [task EXCEPT ![p].fd = Closed(f, Ends(p)), ![p].at = "runcmd"]
  /\ UNCHANGED <<line, ofile, pipes, disk, screen>>

\* Mutant: the parent keeps the write end.
ParentKeeps(p) == {d \in Ends(p) : ~ DescOf(p, d).writable}

ParentCloses(p) == Ends(p)

PipeClose(p) ==
  /\ task[p].at = "pipe3"
  /\ task' = [task EXCEPT ![p].fd = Closed(@, ParentCloses(p)), ![p].at = "pipe4"]
  /\ UNCHANGED <<line, ofile, pipes, disk, screen>>

\* A program writes what it holds.
Put(s, off, x) == [k \in 1..(IF off < Len(s) THEN Len(s) ELSE off + 1) |->
                     IF k = off + 1 THEN x ELSE s[k]]

ProgramWrites(p) ==
  LET o == DescOf(p, 1)
      x == Head(task[p].hold)
      k == task[p].fd[1]
      Wrote == task' = [task EXCEPT ![p].hold = << >>] /\ UNCHANGED line
  IN  /\ task[p].at = "program" /\ task[p].hold # << >>
      /\ CASE o.kind = "console" ->
                Wrote /\ screen' = Append(screen, x) /\ UNCHANGED <<ofile, pipes, disk>>
           [] o.kind = "file" ->
                /\ Wrote
                /\ disk' = [disk EXCEPT ![o.file] = Put(@, o.off, x)]
                /\ ofile' = [ofile EXCEPT ![k].off = @ + 1]
                /\ UNCHANGED <<pipes, screen>>
           [] o.kind = "pipe" /\ ~ HasPipe(o.pipe, FALSE) -> Exits(p)
           [] o.kind = "pipe" /\ HasPipe(o.pipe, FALSE) ->
                /\ Len(pipes[o.pipe]) < PipeCap
                /\ Wrote /\ pipes' = [pipes EXCEPT ![o.pipe] = Append(@, x)]
                /\ UNCHANGED <<ofile, disk, screen>>

\* It reads, or exits at the end.
ProgramReads(p) ==
  LET o == DescOf(p, 0)
      k == task[p].fd[0]
      Read1(x) == task' = [task EXCEPT ![p].hold = <<x>>] /\ UNCHANGED <<line, disk, screen>>
  IN  /\ task[p].at = "program" /\ task[p].hold = << >>
      /\ CASE o.kind = "console" -> Exits(p)
           [] o.kind = "file" ->
                IF o.off >= Len(disk[o.file]) THEN Exits(p)
                ELSE /\ Read1(disk[o.file][o.off + 1])
                     /\ ofile' = [ofile EXCEPT ![k].off = @ + 1]
                     /\ UNCHANGED pipes
           [] o.kind = "pipe" ->
                IF pipes[o.pipe] # << >>
                THEN /\ Read1(Head(pipes[o.pipe]))
                     /\ pipes' = [pipes EXCEPT ![o.pipe] = Tail(@)]
                     /\ UNCHANGED ofile
                ELSE ~ HasPipe(o.pipe, TRUE) /\ Exits(p)

TaskStep(p) ==
  \/ p = Main /\ MainForks
  \/ WaitTask(p) \/ ExitTask(p)
  \/ RunExec(p) \/ RunRedir(p) \/ RunList(p) \/ RunBack(p)
  \/ RunPipe(p) \/ PipeForks(p) \/ PipeDup(p, "left", 1) \/ PipeDup(p, "right", 0)
  \/ PipeClose(p)
  \/ ProgramWrites(p) \/ ProgramReads(p)

\* init has opened the console three times.
ShellInit ==
  /\ line \in CmdLines
  /\ \E c \in {Parsecmd(line)} :
       task = [p \in Tasks |->
                 IF p # Main THEN Gone
                 ELSE [Gone EXCEPT !.at = "prompt", !.cmd = c, !.fd = [d \in 0..2 |-> 1]]]
  /\ ofile = <<Console>>
  /\ pipes = << >> /\ disk = OnDisk0 /\ screen = << >>

ShellNext == \E p \in Tasks : TaskStep(p)

\* Every process is scheduled.
ShellSpec ==
  /\ ShellInit /\ [][ShellNext]_shellVars
  /\ \A p \in Tasks : WF_shellVars(TaskStep(p))

-----------------------------------------------------------------------------
\* What a command does to the files, what it writes and what it leaves of its input,
\* by the meaning of its parts.
Made(d, n) == [m \in DOMAIN d \cup {n} |-> IF m \in DOMAIN d THEN d[m] ELSE << >>]
Over(s, t) == t \o SubSeq(s, Len(t) + 1, Len(s))

RECURSIVE Meaning(_, _, _)
Meaning(c, in, d) ==
  CASE c.type = "none" -> [out |-> << >>, in |-> in, disk |-> d]
    [] c.type = "EXEC" ->
         IF c.argv = << >> THEN [out |-> << >>, in |-> in, disk |-> d]
         ELSE [out |-> <<c.argv[1]>> \o in, in |-> << >>, disk |-> d]
    [] c.type = "REDIR" /\ c.fd = 0 ->
         IF c.file \notin DOMAIN d THEN [out |-> << >>, in |-> in, disk |-> d]
         ELSE [Meaning(c.cmd, d[c.file], d) EXCEPT !.in = in]
    [] c.type = "REDIR" /\ c.fd = 1 ->
         LET r == Meaning(c.cmd, in, Made(d, c.file))
         IN  [r EXCEPT !.out = << >>, !.disk[c.file] = Over(@, r.out)]
    [] c.type = "LIST" ->
         LET l == Meaning(c.left, in, d)
             r == Meaning(c.right, l.in, l.disk)
         IN  [r EXCEPT !.out = l.out \o @]
    [] c.type = "PIPE" ->
         LET l == Meaning(c.left, in, d)
         IN  [Meaning(c.right, l.out, l.disk) EXCEPT !.in = l.in]

RECURSIVE Waits(_)
Waits(c) ==
  CASE c.type = "BACK" -> FALSE
    [] c.type = "REDIR" -> Waits(c.cmd)
    [] c.type \in {"LIST", "PIPE"} -> Waits(c.left) /\ Waits(c.right)
    [] OTHER -> TRUE

\* The parser makes of a line the one command it stands for in the grammar, and refuses
\* the lines that stand for none (parsecmd and its parts).
ParserRight ==
  LET m == LineSet(line)
      c == task[Main].cmd
  IN  task[Main].at = "prompt" => IF m = {} THEN c = NoCmd ELSE m = {c}

\* When the shell prompts again, a line without & has had its whole effect: every
\* program had the right input and output, whatever the order of the forks, closes,
\* waits and exits (runcmd).
LineDone ==
  LET c == task[Main].cmd
      r == Meaning(c, << >>, OnDisk0)
  IN  task[Main].at = "done" /\ Waits(c) =>
        screen = r.out /\ disk = r.disk /\ \A p \in Tasks \ {Main} : task[p] = Gone

\* The shell does with a line what the grammar says of it: parsecmd finds the command,
\* and runcmd has done it by the next prompt.
LinesRight == ParserRight /\ LineDone

\* Every line ends, and all processes it started, so nobody keeps an end of a pipe open
\* that another waits on (the closes of runcmd).
LinesEnd == <>(task[Main].at = "done" /\ \A p \in Tasks \ {Main} : task[p] = Gone)
=============================================================================
