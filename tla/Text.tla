-------------------------------- MODULE Text --------------------------------
(***************************************************************************)
(* What programs and the kernel do with text: grep.c, wc.c, the copies of    *)
(* string.c and ulib.c, skipelem (fs.c) and printint (printf.c).  They are    *)
(* functions; a state is a sample of their arguments, and the properties      *)
(* compare them with definitions that do not go step by step.                *)
(***************************************************************************)
EXTENDS Integers, Sequences, FiniteSets, SequencesExt

CONSTANTS
  Samples,     \* the arguments that are tried
  BUFSIZE,     \* of grep, and of wc
  DIRSIZ,
  WordBits     \* of an int

VARIABLE sample

NUL == "0"     \* the byte 0
NL  == "n"     \* the byte '\n'
Cut(s, i) == SubSeq(s, i, Len(s))
IsSample(kind) == sample.kind = kind

-----------------------------------------------------------------------------
\* grep.c: the matcher.
Fits(c, t) == t # << >> /\ c \in {".", t[1]}

RECURSIVE Matchhere(_, _), Matchstar(_, _, _)

\* Mutant: one character at least.
MatchstarPlus(c, re, t) == Fits(c, t) /\ (Matchhere(re, Tail(t)) \/ Matchstar(c, re, Tail(t)))

Matchstar(c, re, t) == Matchhere(re, t) \/ (Fits(c, t) /\ Matchstar(c, re, Tail(t)))

Matchhere(re, t) ==
  IF re = << >> THEN TRUE
  ELSE IF Len(re) > 1 /\ re[2] = "*" THEN Matchstar(re[1], Cut(re, 3), t)
  ELSE IF re = <<"$">> THEN t = << >>
  ELSE Fits(re[1], t) /\ Matchhere(Tail(re), Tail(t))

Match(re, t) ==
  IF re # << >> /\ re[1] = "^" THEN Matchhere(Tail(re), t)
  ELSE \E k \in 1..(Len(t) + 1) : Matchhere(re, Cut(t, k))

\* grep.c: the loop over buf, g = [buf, m, p, out].
\* strchr(p, '\n'): a NUL ends the search, and one comes after buf.
Newline(b, p) ==
  LET at == {q \in p..BUFSIZE : b[q] = NL /\ \A k \in p..q : b[k] # NUL}
  IN  IF at = {} THEN 0 ELSE CHOOSE q \in at : \A r \in at : q <= r

RECURSIVE Scan(_, _)
Scan(re, g) ==
  LET q == Newline(g.buf, g.p)
  IN  IF q = 0 THEN g
      ELSE IF Match(re, SubSeq(g.buf, g.p, q - 1))
      THEN Scan(re, [g EXCEPT !.out = @ \o SubSeq(g.buf, g.p, q), !.p = q + 1])
      ELSE Scan(re, [g EXCEPT !.buf[q] = NUL, !.p = q + 1])

\* What is left of the buffer comes to its front.
Shifted(g) ==
  LET m == IF g.p = 1 \/ g.m = 0 THEN 0 ELSE g.m - (g.p - 1)
  IN  [g EXCEPT !.m = m, !.p = 1,
                !.buf = [i \in 1..BUFSIZE |-> IF i <= m THEN g.buf[g.p + i - 1] ELSE g.buf[i]]]

RECURSIVE Loop1(_, _, _)
Loop1(re, g, f) ==
  LET n == IF Len(f) < BUFSIZE - g.m THEN Len(f) ELSE BUFSIZE - g.m
      b == [i \in 1..BUFSIZE |-> IF i > g.m /\ i <= g.m + n THEN f[i - g.m] ELSE g.buf[i]]
  IN  IF n = 0 THEN g.out
      ELSE Loop1(re, Shifted(Scan(re, [g EXCEPT !.buf = b, !.m = @ + n])), Cut(f, n + 1))

Grep(re, f) == Loop1(re, [buf |-> [i \in 1..BUFSIZE |-> NUL], m |-> 0, p |-> 1, out |-> << >>], f)

-----------------------------------------------------------------------------
\* wc.c, chunk by chunk: [l, w, c, inword].
Space(x) == x \in {" ", NL}

CountIn(k, x) ==
  [l |-> k.l + (IF x = NL THEN 1 ELSE 0), c |-> k.c + 1,
   w |-> k.w + (IF Space(x) \/ k.inword THEN 0 ELSE 1), inword |-> ~ Space(x)]

RECURSIVE Wc(_, _)
Wc(k, f) ==
  LET n == IF Len(f) < BUFSIZE THEN Len(f) ELSE BUFSIZE
  IN  IF n = 0 THEN k ELSE Wc(FoldLeft(CountIn, k, SubSeq(f, 1, n)), Cut(f, n + 1))

\* memmove of string.c: backwards if the areas overlap that way; the one of ulib.c
\* always goes forwards.
Forwards(n) == [k \in 1..n |-> k - 1]

Order1(s, d, n) == IF s < d /\ s + n > d THEN Reverse(Forwards(n)) ELSE Forwards(n)

Copied(m, s, d, order) == FoldLeft(LAMBDA b, k : [b EXCEPT ![d + k] = b[s + k]], m, order)

\* strncmp
Char(s, i) == IF i <= Len(s) THEN s[i] ELSE 0
Strncmp(p, q, n) ==
  LET stop == {i \in 1..n : Char(p, i) = 0 \/ Char(p, i) # Char(q, i)}
      i    == CHOOSE i \in stop : \A j \in stop : i <= j
  IN  IF stop = {} THEN 0 ELSE Char(p, i) - Char(q, i)

\* memcmp: the bytes of areas of n, 0 or not.
Memcmp(p, q, n) ==
  LET stop == {i \in 1..n : p[i] # q[i]}
      i    == CHOOSE i \in stop : \A j \in stop : i <= j
  IN  IF stop = {} THEN 0 ELSE p[i] - q[i]

\* while(n-- > 0 && (*s++ = *t++) != 0): the area s, the place s has come to, and n.
RECURSIVE CopyUntil0(_, _, _, _)
CopyUntil0(s, t, i, n) ==
  LET b == [s EXCEPT ![i] = Char(t, i)]
  IN  IF n <= 0 THEN [s |-> s, at |-> i, n |-> n - 1]
      ELSE IF Char(t, i) = 0 THEN [s |-> b, at |-> i + 1, n |-> n - 1]
      ELSE CopyUntil0(b, t, i + 1, n - 1)

Strncpy(s, t, n) ==
  LET r == CopyUntil0(s, t, 1, n)
  IN  [k \in DOMAIN s |-> IF k >= r.at /\ k < r.at + r.n THEN 0 ELSE r.s[k]]

Safestrcpy(s, t, n) ==
  IF n <= 0 THEN s ELSE LET r == CopyUntil0(s, t, 1, n - 1) IN [r.s EXCEPT ![r.at] = 0]

\* skipelem: the name, and what follows it and its slashes.
RECURSIVE Slashless(_)
Slashless(s) == IF s # << >> /\ s[1] = "/" THEN Slashless(Tail(s)) ELSE s
NameLen(s) == Cardinality({i \in 1..Len(s) : \A j \in 1..i : s[j] # "/"})
Skipelem(path) ==
  LET s == Slashless(path)
      n == NameLen(s)
  IN  [name |-> SubSeq(s, 1, IF n >= DIRSIZ THEN DIRSIZ ELSE n), rest |-> Slashless(Cut(s, n + 1))]

RECURSIVE Elements(_)
Elements(path) ==
  IF Slashless(path) = << >> THEN << >>
  ELSE LET e == Skipelem(path) IN <<e.name>> \o Elements(e.rest)

\* fmtname (ls.c): what follows the last slash, padded with blanks.
Fmtname(path) ==
  LET at == {i \in 0..Len(path) : \A j \in (i + 1)..Len(path) : path[j] # "/"}
      p  == Cut(path, 1 + (CHOOSE i \in at : \A j \in at : i <= j))
  IN  IF Len(p) >= DIRSIZ THEN p ELSE p \o [i \in 1..(DIRSIZ - Len(p)) |-> " "]

\* printint: the digits of x as it is printed, xx having WordBits bits.
RECURSIVE Digits(_, _)
Digits(x, b) == (IF x \div b = 0 THEN << >> ELSE Digits(x \div b, b)) \o <<x % b>>
Negative(xx, sgn) == sgn /\ xx >= 2 ^ (WordBits - 1)
Printint(xx, b, sgn) == Digits(IF Negative(xx, sgn) THEN 2 ^ WordBits - xx ELSE xx, b)

\* atoi, in ints that wrap; a character that is no digit, 10 here, ends the number.
RECURSIVE Atoi(_, _)
Atoi(n, s) ==
  IF s = << >> \/ Head(s) \notin 0..9 THEN n ELSE Atoi((n * 10 + Head(s)) % 2 ^ WordBits, Tail(s))

-----------------------------------------------------------------------------
TextInit == sample \in Samples
TextNext == UNCHANGED sample
TextSpec == TextInit /\ [][TextNext]_sample

-----------------------------------------------------------------------------
\* A regular expression as a sequence of [c, star], and what it matches.
RECURSIVE Items(_)
Items(re) ==
  IF re = << >> THEN << >>
  ELSE IF Len(re) > 1 /\ re[2] = "*" THEN <<[c |-> re[1], star |-> TRUE]>> \o Items(Cut(re, 3))
  ELSE <<[c |-> re[1], star |-> FALSE]>> \o Items(Tail(re))

Denotes(re, t) ==
  LET anchored == re # << >> /\ re[1] = "^"
      its == Items(IF anchored THEN Tail(re) ELSE re)
      Ok(c, k) == c \in {".", t[k]}
      After1(S, k) ==
        IF its[k].star
        THEN {j \in 0..Len(t) : \E i \in S : i <= j /\ \A h \in (i + 1)..j : Ok(its[k].c, h)}
        ELSE IF its[k].c = "$" /\ k = Len(its) THEN S \cap {Len(t)}
        ELSE {i + 1 : i \in {i \in S : i < Len(t) /\ Ok(its[k].c, i + 1)}}
  IN  FoldLeftDomain(After1, IF anchored THEN {0} ELSE 0..Len(t), its) # {}

\* The lines of a file, as their first and last places, and those that match.
LinesOf(f) ==
  SetToSortSeq({<<i, j>> \in (DOMAIN f) \X (DOMAIN f) :
                  /\ i <= j /\ f[j] = NL /\ \A k \in i..(j - 1) : f[k] # NL
                  /\ i = 1 \/ f[i - 1] = NL}, LAMBDA x, y : x[1] < y[1])
Matching(re, f) ==
  FoldLeft(LAMBDA r, x : IF Denotes(re, SubSeq(f, x[1], x[2] - 1))
                         THEN r \o SubSeq(f, x[1], x[2]) ELSE r, << >>, LinesOf(f))

\* grep prints the lines that match, complete and in order, of a file it reads at once;
\* of a longer one whose lines fit in buf it prints them first, after which it may find
\* lines of an earlier read behind the last (grep, match, matchhere, matchstar).
GrepPrints ==
  IsSample("grep") =>
    LET f    == sample.file
        got  == Grep(sample.re, f)
        want == Matching(sample.re, f)
    IN  /\ Len(f) <= BUFSIZE => got = want
        /\ (\A i \in 0..(Len(f) - BUFSIZE) : \E k \in (i + 1)..(i + BUFSIZE) : f[k] = NL)
             => IsPrefix(want, got)

WcCounts ==
  IsSample("wc") =>
    LET f == sample.file
        k == Wc([l |-> 0, w |-> 0, c |-> 0, inword |-> FALSE], f)
    IN  /\ k.c = Len(f) /\ k.l = Cardinality({i \in DOMAIN f : f[i] = NL})
        /\ k.w = Cardinality({i \in DOMAIN f : ~ Space(f[i]) /\ (i = 1 \/ Space(f[i - 1]))})

MovesRight ==
  IsSample("move") =>
    LET s == sample.s  d == sample.d  n == sample.n
        m == [i \in 1..sample.size |-> i]
        want == [i \in 1..sample.size |-> IF i \in d..(d + n - 1) THEN i - d + s ELSE i]
    IN  /\ Copied(m, s, d, Order1(s, d, n)) = want
        /\ d <= s => Copied(m, s, d, Forwards(n)) = want

\* The order of two strings is that of their first n bytes as numbers.
ComparesRight ==
  IsSample("compare") =>
    LET Value(s) == FoldLeft(LAMBDA v, i : 4 * v + Char(s, i), 0, [i \in 1..sample.n |-> i])
        v == Value(sample.p) - Value(sample.q)
        r == Strncmp(sample.p, sample.q, sample.n)
    IN  ((v < 0) = (r < 0)) /\ ((v = 0) = (r = 0))

\* Copies of strings into an area of 5: nothing behind the n bytes is touched; strncpy
\* fills them up with 0, safestrcpy leaves the last for one.
StringsCopied ==
  IsSample("compare") =>
    LET p == sample.p  q == sample.q  n == sample.n
        area == [i \in 1..5 |-> 9]
        safe == Safestrcpy(area, p, n)
        big  == [i \in 1..3 |-> Char(p, i)]
        bigq == [i \in 1..3 |-> Char(q, i)]
    IN  /\ Strncpy(area, p, n) = [i \in 1..5 |-> IF i <= n THEN Char(p, i) ELSE 9]
        /\ \A i \in (n + 1)..5 : safe[i] = 9
        /\ n > 0 => LET len == IF Len(p) < n - 1 THEN Len(p) ELSE n - 1
                    IN  SubSeq(safe, 1, len + 1) = SubSeq(p, 1, len) \o <<0>>
        /\ (Memcmp(big, bigq, n) < 0) = (Strncmp(p, q, n) < 0)

\* The names of a path are its maximal pieces without a slash, cut to DIRSIZ; fmtname
\* pads or keeps the last.
PathSplit ==
  IsSample("path") =>
    LET s == sample.path
        Names == {<<i, j>> \in (DOMAIN s) \X (DOMAIN s) :
                    /\ i <= j /\ \A k \in i..j : s[k] # "/"
                    /\ i = 1 \/ s[i - 1] = "/"
                    /\ j = Len(s) \/ s[j + 1] = "/"}
        Order(x, y) == x[1] < y[1]
        whole == [k \in 1..Cardinality(Names) |->
                    LET x == SetToSortSeq(Names, Order)[k] IN SubSeq(s, x[1], x[2])]
        Short(e) == IF Len(e) > DIRSIZ THEN SubSeq(e, 1, DIRSIZ) ELSE e
        e == Last(whole)
    IN  /\ Elements(s) = [k \in DOMAIN whole |-> Short(whole[k])]
        /\ s # << >> /\ Last(s) # "/" =>
             Fmtname(s) = IF Len(e) < DIRSIZ THEN e \o [i \in 1..(DIRSIZ - Len(e)) |-> " "] ELSE e

PrintsRight ==
  IsSample("print") =>
    LET x == sample.x
        v == FoldLeft(LAMBDA a, d : a * sample.base + d, 0, Printint(x, sample.base, sample.sgn))
    IN  /\ x = (IF Negative(x, sample.sgn) THEN 2 ^ WordBits - v ELSE v)
      /\ sample.base = 10 => Atoi(0, Printint(x, 10, FALSE) \o <<10, 1>>) = x

\* The library does what its callers expect, on overlapping areas, at the ends of
\* strings and chunks, for long names and for the smallest int: memmove, strncmp,
\* skipelem, printint and the loop of wc.
LibraryRight ==
  WcCounts /\ MovesRight /\ ComparesRight /\ StringsCopied /\ PathSplit /\ PrintsRight

\* grep prints the right lines, and the library functions do what they should.
TextRight == GrepPrints /\ LibraryRight
=============================================================================
