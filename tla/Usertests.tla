------------------------------ MODULE Usertests -----------------------------
(***************************************************************************)
(* The programs that come with the kernel, as the calls they make: init, the *)
(* tests of usertests.c, stressfs.c and forktest.c, and the tools.  A loop   *)
(* is as often as the constants say, and a text as long as it must be to     *)
(* tell a right result from a wrong one.  Each program is run by init, in    *)
(* place of the shell, with every interleaving of its processes.            *)
(***************************************************************************)
EXTENDS Calls

CONSTANTS
  N,      \* how often a loop is run
  Kids    \* how many children a test has at a time

Text(c, n)    == [i \in 1..n |-> c]
Nth(name, i)  == name \o ToString(i)
For(n, S(_))  == FlattenSeq([i \in 1..n |-> S(i - 1)])
Times(n, s)   == For(n, LAMBDA i : s)
Whole         == 2 * MAXFILE         \* sizeof(buf)
Letters       == <<"p", "q", "r", "s">>
CREATE_RDWR   == O_CREATE \cup O_RDWR

\* A program, and what it prints.
Test(main, out) == [main |-> main, out |-> out]

-----------------------------------------------------------------------------
\* Names.

Iputtest ==
  <<Mkdir("iputdir", Works), Chdir("iputdir", Works), Unlink("../iputdir", Works),
    Chdir("/", Works)>>

Exitiputtest ==
  <<Fork("pid", <<Mkdir("iputdir", Works), Chdir("iputdir", Works),
                  Unlink("../iputdir", Works), Exit>>, Works), Wait(Either)>>

Openiputtest ==
  <<Mkdir("oidir", Works), Fork("pid", <<Open("fd", "oidir", O_RDWR, Fails), Exit>>, Works),
    Sleep, Unlink("oidir", Works), Wait(Either)>>

Opentest ==
  <<Open("fd", "echo", O_RDONLY, Works), Close("fd"),
    Open("fd", "doesnotexist", O_RDONLY, Fails)>>

Createtest ==
  For(N, LAMBDA i : <<Open("fd", Nth("a", i), CREATE_RDWR, Either), Close("fd")>>)
    \o For(N, LAMBDA i : <<Unlink(Nth("a", i), Either)>>)

Dirtest ==
  <<Mkdir("dir0", Works), Chdir("dir0", Works), Chdir("..", Works), Unlink("dir0", Works)>>

Bigdir ==
  <<Unlink("bd", Either), Open("fd", "bd", O_CREATE, Works), Close("fd")>>
    \o For(N, LAMBDA i : <<Link("bd", Nth("x", i), Works)>>) \o <<Unlink("bd", Either)>>
    \o For(N, LAMBDA i : <<Unlink(Nth("x", i), Works)>>)

Fourteen ==
  <<Mkdir("12345678901234", Works), Mkdir("12345678901234/123456789012345", Works),
    Open("fd", "123456789012345/123456789012345/123456789012345", O_CREATE, Works), Close("fd"),
    Open("fd", "12345678901234/12345678901234/12345678901234", O_RDONLY, Works), Close("fd"),
    Mkdir("12345678901234/12345678901234", Fails), Mkdir("123456789012345/12345678901234", Fails)>>

Rmdot ==
  <<Mkdir("dots", Works), Chdir("dots", Works), Unlink(".", Fails), Unlink("..", Fails),
    Chdir("/", Works), Unlink("dots/.", Fails), Unlink("dots/..", Fails), Unlink("dots", Works)>>

Dirfile ==
  <<Open("fd", "dirfile", O_CREATE, Works), Close("fd"), Chdir("dirfile", Fails),
    Open("fd", "dirfile/xx", O_RDONLY, Fails), Open("fd", "dirfile/xx", O_CREATE, Fails),
    Mkdir("dirfile/xx", Fails), Unlink("dirfile/xx", Fails), Link("README", "dirfile/xx", Fails),
    Unlink("dirfile", Works), Open("fd", ".", O_RDWR, Fails), Open("fd", ".", O_RDONLY, Works),
    Write("fd", <<"x">>, Fails), Close("fd")>>

Iref ==
  Times(N, <<Mkdir("irefd", Works), Chdir("irefd", Works), Mkdir("", Either),
             Link("README", "", Either), Open("fd", "", O_CREATE, Either), Close("fd"),
             Open("fd", "xx", O_CREATE, Either), Close("fd"), Unlink("xx", Either)>>)
    \o <<Chdir("/", Either)>>

Linktest ==
  <<Unlink("lf1", Either), Unlink("lf2", Either), Open("fd", "lf1", CREATE_RDWR, Works),
    Write("fd", <<"h", "o">>, Works), Close("fd"), Link("lf1", "lf2", Works),
    Unlink("lf1", Either), Open("no", "lf1", O_RDONLY, Fails),
    Open("fd", "lf2", O_RDONLY, Works), Read("fd", Whole, {<<"h", "o">>}), Close("fd"),
    Link("lf2", "lf2", Fails), Unlink("lf2", Either), Link("lf2", "lf1", Fails),
    Link(".", "lf1", Fails)>>

Subdir ==
  LET NotThere(path) == <<Open("no", path, O_RDONLY, Fails)>>
      Put(path, c)   == <<Open("fd", path, CREATE_RDWR, Works), Write("fd", <<c, c>>, Either),
                          Close("fd")>>
      Get(path, c)   == <<Open("fd", path, O_RDONLY, Works), Read("fd", Whole, {<<c, c>>}),
                          Close("fd")>>
  IN <<Unlink("ff", Either), Mkdir("dd", Works)>> \o Put("dd/ff", "f")
     \o <<Unlink("dd", Fails), Mkdir("/dd/dd", Works)>> \o Put("dd/dd/ff", "F")
     \o Get("dd/dd/../ff", "f")
     \o <<Link("dd/dd/ff", "dd/dd/ffff", Works), Unlink("dd/dd/ff", Works)>>
     \o NotThere("dd/dd/ff")
     \o <<Chdir("dd", Works), Chdir("dd/../../dd", Works), Chdir("dd/../../../dd", Works),
          Chdir("./..", Works)>>
     \o Get("dd/dd/ffff", "F") \o NotThere("dd/dd/ff")
     \o <<Open("no", "dd/ff/ff", CREATE_RDWR, Fails), Open("no", "dd/xx/ff", CREATE_RDWR, Fails),
          Open("no", "dd", O_CREATE, Fails), Open("no", "dd", O_RDWR, Fails),
          Open("no", "dd", O_WRONLY, Fails),
          Link("dd/ff/ff", "dd/dd/xx", Fails), Link("dd/xx/ff", "dd/dd/xx", Fails),
          Link("dd/ff", "dd/dd/ffff", Fails),
          Mkdir("dd/ff/ff", Fails), Mkdir("dd/xx/ff", Fails), Mkdir("dd/dd/ffff", Fails),
          Unlink("dd/xx/ff", Fails), Unlink("dd/ff/ff", Fails),
          Chdir("dd/ff", Fails), Chdir("dd/xx", Fails),
          Unlink("dd/dd/ffff", Works), Unlink("dd/ff", Works), Unlink("dd", Fails),
          Unlink("dd/dd", Works), Unlink("dd", Works)>>

-----------------------------------------------------------------------------
\* What is in files.

Writetest ==
  <<Open("fd", "small", CREATE_RDWR, Works)>>
    \o Times(N, <<Write("fd", <<"a">>, Works), Write("fd", <<"b">>, Works)>>)
    \o <<Close("fd"), Open("fd", "small", O_RDONLY, Works),
         Read("fd", 2 * N, {Times(N, <<"a", "b">>)}), Close("fd"), Unlink("small", Works)>>

\* A block is one byte here, its number.
Writetest1 ==
  LET blocks == For(MAXFILE, LAMBDA i : <<ToString(i)>>)
  IN <<Open("fd", "big", CREATE_RDWR, Works)>>
     \o For(MAXFILE, LAMBDA i : <<Write("fd", <<blocks[i + 1]>>, Works)>>)
     \o <<Close("fd"), Open("fd", "big", O_RDONLY, Works), ReadAll("fd", <<1>>, {blocks}),
          Close("fd"), Unlink("big", Works)>>

Unlinkread ==
  <<Open("fd", "unlinkread", CREATE_RDWR, Works), Write("fd", <<"h", "o">>, Either), Close("fd"),
    Open("fd", "unlinkread", O_RDWR, Works), Unlink("unlinkread", Works),
    Open("fd1", "unlinkread", CREATE_RDWR, Either), Write("fd1", <<"y">>, Either), Close("fd1"),
    Read("fd", Whole, {<<"h", "o">>}), Write("fd", <<"h", "o">>, Works), Close("fd"),
    Unlink("unlinkread", Either)>>

Bigwrite ==
  <<Unlink("bigwrite", Either)>>
    \o For(N, LAMBDA i : <<Open("fd", "bigwrite", CREATE_RDWR, Works)>>
                            \o Times(2, <<Write("fd", Text("a", i + 1), Works)>>)
                            \o <<Close("fd"), Unlink("bigwrite", Either)>>)

\* Each text that is written is read in two halves.
Bigfile ==
  <<Unlink("bigfile", Either), Open("fd", "bigfile", CREATE_RDWR, Works)>>
    \o For(N, LAMBDA i : <<Write("fd", Text(ToString(i), 2), Works)>>)
    \o <<Close("fd"), Open("fd", "bigfile", O_RDONLY, Works),
         ReadAll("fd", <<1>>, {For(N, LAMBDA i : Text(ToString(i), 2))}), Close("fd"),
         Unlink("bigfile", Either)>>

-----------------------------------------------------------------------------
\* Several processes on the same files and directories.

\* One offset for both: no write is lost, whatever their order.
Sharedfd ==
  LET n == 2 * N
      Mix == {s \in [1..(2 * n) -> {"c", "p"}] : Cardinality({i \in 1..(2 * n) : s[i] = "c"}) = n}
  IN <<Unlink("sharedfd", Either), Open("fd", "sharedfd", CREATE_RDWR, Works),
       Fork("pid", Times(N, <<Write("fd", <<"c", "c">>, Works)>>) \o <<Exit>>, Works)>>
     \o Times(N, <<Write("fd", <<"p", "p">>, Works)>>)
     \o <<Wait(Either), Close("fd"), Open("fd", "sharedfd", O_RDONLY, Works),
          ReadAll("fd", <<2>>, Mix), Close("fd"), Unlink("sharedfd", Either)>>

Fourfiles ==
  For(Kids, LAMBDA pi :
        <<Unlink(Nth("f", pi), Either),
          Fork("pid", <<Open("fd", Nth("f", pi), CREATE_RDWR, Works)>>
                         \o Times(N, <<Write("fd", <<ToString(pi)>>, Works)>>) \o <<Exit>>, Works)>>)
  \o Times(Kids, <<Wait(Either)>>)
  \o For(2, LAMBDA i :
        <<Open("fd", Nth("f", i), O_RDONLY, Either),
          ReadAll("fd", <<Whole>>, {Text(ToString(i), N)}), Close("fd"),
          Unlink(Nth("f", i), Either)>>)

Createdelete ==
  LET n == 2 * N
      Create1(pi, i) == <<Open("fd", Nth(Letters[pi + 1], i), CREATE_RDWR, Works), Close("fd")>>
                          \o (IF i > 0 /\ i % 2 = 0
                              THEN <<Unlink(Nth(Letters[pi + 1], i \div 2), Works)>> ELSE << >>)
  IN For(2, LAMBDA pi :
           <<Fork("pid", For(n, LAMBDA i : Create1(pi, i)) \o <<Exit>>, Works)>>)
     \o Times(2, <<Wait(Either)>>)
     \o For(n, LAMBDA i : For(2, LAMBDA pi :
           <<Open("fd", Nth(Letters[pi + 1], i), O_RDONLY,
                  IF i = 0 \/ i >= n \div 2 THEN Works ELSE Fails), Close("fd")>>))
     \o For(n, LAMBDA i : <<Unlink(Nth(Letters[i + 1], i), Either)>>)

\* Both processes make the file, or a link.
Concreate ==
  LET Files == 5..7     \* one that is a link to one process, to both, to none
      Name(i) == Nth("C", i)
      Make(i, isLink) ==
        IF isLink THEN <<Link("C0", Name(i), Either)>>
        ELSE <<Open("fd", Name(i), CREATE_RDWR, Works), Close("fd")>>
      Twice(i, isOpen) ==
        IF isOpen THEN Times(2, <<Open("fd", Name(i), O_RDONLY, Either), Close("fd")>>)
        ELSE Times(2, <<Unlink(Name(i), Either)>>)
      All == <<0>> \o SetToSortSeq(Files, <)
      Each(S(_)) == FlattenSeq([j \in 1..Len(All) |-> S(All[j])])
  IN Each(LAMBDA i : <<Unlink(Name(i), Either),
                       Fork("pid", Make(i, i % 5 = 1) \o <<Exit>>, Works)>>
                     \o Make(i, i % 3 = 1) \o <<Wait(Either)>>)
     \o <<Open("fd", ".", O_RDONLY, Either), ReadNames("fd", "C", {Name(i) : i \in ToSet(All)}),
          Close("fd")>>
     \o Each(LAMBDA i : <<Fork("pid", Twice(i, i % 3 = 0) \o <<Exit>>, Works)>>
                        \o Twice(i, i % 3 = 1) \o <<Wait(Either)>>)

Linkunlink ==
  LET Some == OneOf({<<Open("fd", "x", CREATE_RDWR, Either), Close("fd")>>,
                     <<Link("cat", "x", Either)>>, <<Unlink("x", Either)>>})
  IN <<Unlink("x", Either), Fork("pid", Times(N, <<Some>>) \o <<Exit>>, Works)>>
     \o Times(N, <<Some>>) \o <<Wait(Works)>>

\* stressfs: child i of the chain writes file i.
Stressfs ==
  LET Body(i) == <<Open("fd", Nth("stressfs", i), CREATE_RDWR, Works)>>
                   \o Times(N, <<Write("fd", <<"a">>, Works)>>)
                   \o <<Close("fd"), Open("fd", Nth("stressfs", i), O_RDONLY, Works)>>
                   \o Times(N, <<Read("fd", 1, {<<"a">>})>>) \o <<Close("fd"), Wait(Either), Exit>>
      From[i \in 0..2] == IF i = 2 THEN Body(i) ELSE <<Fork("pid", From[i + 1], Works)>> \o Body(i)
  IN From[0]

-----------------------------------------------------------------------------
\* Processes and pipes.

Exitwait == Times(N, <<Fork("pid", <<Exit>>, Works), WaitFor("pid")>>)

Pipe1 ==
  LET Seq1(n) == [i \in 1..3 |-> ToString(3 * n + i)]
  IN <<Pipe, Fork("pid", <<Close("r")>> \o For(N, LAMBDA n : <<Write("w", Seq1(n), Works)>>)
                           \o <<Exit>>, Works),
       Close("w"), ReadAll("r", <<1, 2, 4>>, {For(N, Seq1)}), Close("r"), Wait(Either)>>

Preempt ==
  <<Fork("pid1", <<Spin>>, Works), Fork("pid2", <<Spin>>, Works), Pipe,
    Fork("pid3", <<Close("r"), Write("w", <<"x">>, Works), Close("w"), Spin>>, Works),
    Close("w"), Read("r", Whole, {<<"x">>}), Close("r"),
    Kill("pid1"), Kill("pid2"), Kill("pid3")>> \o Times(3, <<Wait(Works)>>)

\* The parent and init have their slots.
Forktest ==
  Times(NPROC - 2, <<Fork("pid", <<Exit>>, Works)>>) \o <<Fork("pid", <<Exit>>, Fails)>>
    \o Times(NPROC - 2, <<Wait(Works)>>) \o <<Wait(Fails)>>

\* forktest.c: the same, and small enough to run when memory is short.
ForktestMain == Test(Forktest \o <<Exit>>, << >>)

\* The child gets all the memory there is, and gives it back when it exits.
Mem ==
  <<Getpid("ppid"), Fork("pid", Times(NPages, <<Sbrk(PGSIZE, -1..(NPages * PGSIZE))>>)
                                  \o <<Exit>>, Works), Wait(Either),
    Sbrk((NPages - 2 * Pages(ImageSize)) * PGSIZE, {ImageSize})>>

Bigargtest ==
  <<Unlink("bigarg-ok", Either),
    Fork("pid", <<Exec("echo", << >>, PGSIZE + 1, Fails),
                  Open("fd", "bigarg-ok", O_CREATE, Either), Close("fd"), Exit>>, Works),
    Wait(Either), Open("fd", "bigarg-ok", O_RDONLY, Works), Close("fd"),
    Unlink("bigarg-ok", Either)>>

Bsstest == For(ImageSize, LAMBDA a : <<Load(a, Fails)>>)

\* In parts: small steps, one page less and more, and what is not the process's own ...
Sbrktest1 ==
  LET B   == ImageSize
      BIG == B + 5 * PGSIZE
  IN For(3, LAMBDA i : <<Sbrk(1, {B + i}), Store(B + i)>>)
     \o <<Fork("pid", <<Sbrk(1, {B + 3}), Sbrk(1, {B + 4}), Exit>>, Works),
          Sbrk(1, {B + 3}), Sbrk(1, {B + 4}), Wait(Either),
          Sbrk(BIG - (B + 5), {B + 5}), Store(BIG - 1),
          Sbrk(- PGSIZE, {BIG}), Sbrk(0, {BIG - PGSIZE}),
          Sbrk(PGSIZE, {BIG - PGSIZE}), Sbrk(0, {BIG}), Load(BIG - 1, Fails),
          Sbrk(B - BIG, {BIG}), Getpid("ppid"),
          Fork("pid", <<Load(NPages * PGSIZE, {}), Kill("ppid"), Exit>>, Works), Wait(Either)>>

\* ... and all memory in use: the allocations that fail leave nothing behind.
Sbrktest2 ==
  LET Pid(i) == Nth("pid", i)
      Sizes == -1..(NPages * PGSIZE)
  IN <<Pipe>>
     \o For(Kids, LAMBDA i :
          <<Fork(Pid(i), <<Sbrk(5 * PGSIZE, Sizes), Write("w", <<"x">>, Either), Spin>>, Either),
            IfPid(Pid(i), <<Read("r", 1, {<<"x">>})>>)>>)
     \o <<Sbrk(PGSIZE, {ImageSize})>>
     \o For(Kids, LAMBDA i : <<IfPid(Pid(i), <<Kill(Pid(i)), Wait(Either)>>)>>)
     \o <<Sbrk(- PGSIZE, Sizes)>>

\* The arguments the calls get are not the process's: they fail.
Validatetest ==
  Times(N, <<Fork("pid", <<Sleep, Exit>>, Either), Sleep, Sleep, Kill("pid"), Wait(Either),
             Link("nosuchfile", "x", Fails)>>)

-----------------------------------------------------------------------------
\* The tools.

Echo(words)     == <<Write("stdout", words, Either), Exit>>
MkdirMain(path) == <<Mkdir(path, Works), Exit>>
RmMain(path, w) == <<Unlink(path, w), Exit>>
LnMain(old, new) == <<Link(old, new, Works), Exit>>
Zombie          == <<Fork("pid", <<Exit>>, Works), IfPid("pid", <<Sleep>>), Exit>>
Cat(path)       == <<Open("fd", path, O_RDONLY, Works), Copy("fd", 1), Close("fd"), Exit>>

Exectest == <<Exec("echo", Echo(<<"ALL", "TESTS", "PASSED">>), 1, Works)>>

\* The shell runs one tool after the other.
Session ==
  LET Run(path, main) == <<Fork("pid", <<Exec(path, main, 1, Works)>>, Works), WaitFor("pid")>>
  IN Run("mkdir", MkdirMain("d")) \o Run("ln", LnMain("README", "d/r"))
     \o Run("zombie", Zombie) \o Run("rm", RmMain("d", Fails)) \o Run("cat", Cat("d/r"))
     \o Run("rm", RmMain("d/r", Works)) \o Run("rm", RmMain("d", Works))
     \o Run("echo", Echo(<<"e">>))

\* usertests: open("usertests.ran", 0) fails; then one test after the other, here one.
Main(script) ==
  Test(<<Open("fd", "usertests.ran", O_RDONLY, Fails), Open("fd", "usertests.ran", O_CREATE, Either),
         Close("fd")>> \o script, << >>)

-----------------------------------------------------------------------------
Tests ==
  {Main(Iputtest), Main(Exitiputtest), Main(Openiputtest), Main(Opentest), Main(Createtest),
   Main(Dirtest), Main(Bigdir), Main(Fourteen), Main(Rmdot), Main(Dirfile), Main(Iref),
   Main(Linktest), Main(Subdir), Main(Writetest), Main(Writetest1), Main(Unlinkread),
   Main(Bigwrite), Main(Bigfile), Main(Sharedfd), Main(Fourfiles), Main(Createdelete),
   Main(Concreate), Main(Linkunlink), Main(Exitwait), Main(Pipe1), Main(Preempt),
   Main(Forktest), Main(Mem), Main(Bigargtest), Main(Bsstest), Main(Sbrktest1),
   Main(Sbrktest2), Main(Validatetest), ForktestMain, Test(Stressfs, << >>),
   Test(Exectest, <<"ALL", "TESTS", "PASSED">>), Test(Session, <<"R", "M", "e">>)}
=============================================================================
