---------------------------- MODULE MCProcesses -----------------------------
(***************************************************************************)
(* Constants of the run Processes: the process table, and programs: the      *)
(* shell, malloc, and functions on text, side by side.  A behaviour is one   *)
(* of one of the four, the others stay in an initial state.                  *)
(***************************************************************************)
EXTENDS Proc, Shell, Malloc, Text

\* Shell: pipelines, lists, blocks and redirections that share offsets and files, lines
\* with processes in the background, and lines that are refused; and every line of up
\* to four tokens, parsed but not run.
MCLines ==
  {<<"a", "|", "b", "|", "c">>, <<"a", ";", "b", ">", "f">>,
   <<"(", "a", ";", "b", ")", ">", "f", ";", "c", "<", "f">>, <<"a", "&", ";", "b">>,
   <<"(", "a", "|", "b", ")", "|", "c", "<", "f">>, <<"a", ">", "f", ">>", "g">>,
   <<"a", "|", "b", "&">>, <<"a", "<", "g", "|", "(", "b", "&", ";", "c", ")">>,
   <<"a", "<", "g", "|", "b", "<", "g", ">", "f">>, <<"a", "|", "b", ">", "g", "|", "c">>,
   <<"(", "a", "|", "b", ")", "<", "g", "|", "c", ";", "a", "<", "f">>,
   <<"a", "b", "c">>, <<"a", "&", "b">>, <<"a", "|", ";", "b">>}
MCTokens == {"a", "|", "&", ";", "(", ")", ">"}
Strings(S, n) == UNION {[1..k -> S] : k \in 0..n}
MCOnDisk0 == [n \in {"g"} |-> <<"x", "y">>]

\* Text
MCPatterns ==
  {<< >>, <<"a">>, <<"^">>, <<"$">>, <<"a", "b">>, <<".", "$">>, <<"^", "a">>, <<"a", "*">>,
   <<"*", "a">>, <<"$", "a">>, <<"a", "*", "b">>, <<"a", "*", "$">>, <<"^", "a", "*", "$">>,
   <<".", "*", "b">>, <<"^", "b", ".">>, <<"^", "^">>}
MCSamples ==
  {[kind |-> "grep", re |-> r, file |-> f] : r \in MCPatterns, f \in Strings({"a", "b", NL}, 5)}
    \cup {[kind |-> "wc", file |-> f] : f \in Strings({"a", " ", NL}, 5)}
    \cup {[kind |-> "move", size |-> 6, s |-> s, d |-> d, n |-> n] :
            s \in 1..4, d \in 1..4, n \in 0..3}
    \cup {[kind |-> "compare", p |-> p, q |-> q, n |-> n] :
            p \in Strings(1..3, 3), q \in Strings(1..3, 3), n \in 0..3}
    \cup {[kind |-> "path", path |-> s] : s \in Strings({"/", "a", "b"}, 5)}
    \cup {[kind |-> "print", x |-> x, base |-> b, sgn |-> g] :
            x \in 0..63, b \in {3, 10, 16}, g \in BOOLEAN}

VARIABLE which

allVars == <<vars, shellVars, mallocVars, sample, which>>

\* ShellInit with a line that is parsed only, and the prompt.
Parses ==
  /\ line \in Strings(MCTokens, 4)
  /\ task = [p \in Tasks |-> IF p # Main THEN Gone
                             ELSE [Gone EXCEPT !.at = "prompt", !.cmd = Parsecmd(line)]]

\* ShellInit where there is no line to run.
NoLine ==
  /\ line = << >>
  /\ task = [p \in Tasks |-> IF p # Main THEN Gone ELSE [Gone EXCEPT !.at = "done"]]
Empty == ofile = << >> /\ pipes = << >> /\ disk = OnDisk0 /\ screen = << >>

MCInit ==
  /\ Init /\ MallocInit
  /\ \/ which = "shell" /\ ShellInit
     \/ which = "parse" /\ Parses /\ Empty
     \/ which \in {"proc", "malloc", "text"} /\ NoLine /\ Empty
  /\ IF which = "text" THEN TextInit ELSE sample = [kind |-> "none"]

Only(w, A, others) == which = w /\ A /\ UNCHANGED <<others, sample, which>>
InProc(A)  == Only("proc", A, <<shellVars, mallocVars>>)
InShell(A) == Only("shell", A, <<vars, mallocVars>>)

\* The shell's line ends, and the samples of "parse" and "text" have no step.
MCNext ==
  \/ InProc(Next)
  \/ InShell(ShellNext)
  \/ Only("malloc", MallocNext, <<vars, shellVars>>)
  \/ which \in {"shell", "parse", "text"} /\ UNCHANGED allVars

\* The fairness of Proc and of Shell.
MCSpec ==
  /\ MCInit /\ [][MCNext]_allVars
  /\ \A p \in Slots : WF_allVars(InProc(Kernel(p))) /\ WF_allVars(InProc(Exit(p) /\ killed[p]))
  /\ SF_allVars(InProc(Wait(Init1)))
  /\ \A p \in Tasks : WF_allVars(InShell(TaskStep(p)))

\* LinesEnd, of the lines that are run.
LinesRunEnd == which # "parse" => LinesEnd
=============================================================================
