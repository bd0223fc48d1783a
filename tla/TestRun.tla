------------------------------ MODULE TestRun ------------------------------
(***************************************************************************)
(* One benchmark under wolfbench's `make test' and `make compare': the     *)
(* rules of Makefile.benchmark, the runner RunSafely.sh behind             *)
(* RunSafelyAndStable.sh, and RunDiff.sh.  The directory keeps files from  *)
(* one invocation of make to the next: the executable, the program's       *)
(* output, two files with times and, in two benchmarks, a file the program *)
(* writes by itself.  Builds, interrupts and kills come between.           *)
(*                                                                         *)
(* RunSafelyAndStable.sh execs RunSafely.sh on line 26, so that one run is *)
(* all there is and its lines from 27 on are never reached.                *)
(*                                                                         *)
(* Definitions named Op_Variant are faulty forms of Op, see LoopWalk.      *)
(***************************************************************************)
EXTENDS Naturals

CONSTANT MaxBuild      \* how often the executable is built, a bound for TLC

ASSUME BuildAssumption == MaxBuild \in Nat \ {0}

VARIABLES
  bench,      \* the benchmark
  exe,        \* the executable: which build, and how it behaves
  stale,      \* it is older than its sources
  out,        \* $(OUTFILE)
  own,        \* the file the program writes by itself
  time,       \* $(OUTFILE).time: the build it is of, 0 if there is none
  kept,       \* $(EXEOUT).time, likewise
  pc, goal,   \* the invocation of make: its next step and its target
  \* history, which no step of the code reads
  ended,      \* how the last make ended
  ran,        \* how the last run of the present build went, or why it did not
  verdict,    \* what the last comparison said, and the history at that time
  killed      \* a kill has left files that no later run has replaced

vars == <<bench, exe, stale, out, own, time, kept, pc, goal,
          ended, ran, verdict, killed>>

files == <<out, own, time, kept>>

\* The directories under Benchmarks differ in two respects: whether OUTFILE is
\* $(EXE).out, so that $(OUTFILE).time is the file make takes for the target, and
\* in COMPARE, the arguments of RunDiff.sh, which it takes two by two.  "out" is
\* OUTFILE, "expected" the program's output as the repository has it followed by
\* "exit 0", "missing" a file the repository does not have or a missing argument.
Hanoi == [target |-> TRUE,  writes |-> FALSE, args |-> 2, pairs |-> {<<"expected", "out">>}]
Dijkstra == [target |-> FALSE, writes |-> FALSE, args |-> 2, pairs |-> {<<"expected", "out">>}]
Susan == [target |-> TRUE,  writes |-> TRUE,  args |-> 4,
             pairs |-> {<<"expectedOwn", "own">>, <<"expected", "out">>}]
Fir == [target |-> TRUE,  writes |-> TRUE,  args |-> 2, pairs |-> {<<"missing", "own">>}]
Adpcm == [target |-> FALSE, writes |-> FALSE, args |-> 2, pairs |-> {<<"out", "out">>}]
Mst == [target |-> TRUE,  writes |-> FALSE, args |-> 1, pairs |-> {<<"missing", "missing">>}]
L2lat == [target |-> TRUE,  writes |-> FALSE, args |-> 0, pairs |-> {}]

Benchmarks == {Hanoi, Dijkstra, Susan, Fir, Adpcm, Mst, L2lat}

\* What a build can do: print what it should or not, and end with a status of its
\* own, of the shell (127: it could not be started) or of a signal.  143 is
\* the watchdog's TERM: the program hung (TimedExec.sh).
Ends == {0, 1, 127, 139, 143}

Behaviours ==
  {b \in [output : {"right", "wrong"}, end : Ends] :
     b.end = 127 => b.output = "wrong"}

NoExe == [build |-> 0, output |-> "wrong", end |-> 127]

NoVerdict == [says |-> "none", passes |-> FALSE, killed |-> FALSE, blind |-> FALSE]

Init ==
  /\ bench \in Benchmarks
  /\ exe = NoExe /\ stale = TRUE
  /\ out = "absent" /\ own = "absent" /\ time = 0 /\ kept = 0
  /\ pc = "idle" /\ goal = "none"
  /\ ended = "none" /\ verdict = NoVerdict /\ ran = "no" /\ killed = FALSE

-----------------------------------------------------------------------------
(* make *)

Invoke(g) ==
  /\ pc = "idle"
  /\ pc' = "exe" /\ goal' = g
  /\ ended' = "none"
  /\ UNCHANGED <<bench, exe, stale, files, verdict, ran, killed>>

Stop(how) == pc' = "idle" /\ goal' = "none" /\ ended' = how

\* The executable is a prerequisite of the target: it is built first if need be.
BuildExe ==
  /\ pc = "exe" /\ stale
  /\ exe.build < MaxBuild
  /\ \E b \in Behaviours :
       exe' = [build |-> exe.build + 1, output |-> b.output, end |-> b.end]
  /\ stale' = FALSE
  /\ pc' = "target"
  /\ ran' = "no"
  /\ UNCHANGED <<bench, files, goal, ended, verdict, killed>>

\* A tool of the chain fails, cla for one, and make gives up.
BuildFails ==
  /\ pc = "exe" /\ stale
  /\ Stop("error")
  /\ UNCHANGED <<bench, exe, stale, files, verdict, ran, killed>>

ExeCurrent ==
  /\ pc = "exe" /\ ~ stale
  /\ pc' = "target"
  /\ UNCHANGED <<bench, exe, stale, files, goal, ended, verdict, ran, killed>>

\* The target is there and newer than the executable.
Current_Exists == kept # 0

Current == bench.target /\ time = exe.build

AfterTest ==
  IF goal = "compare" THEN pc' = "compare" /\ UNCHANGED <<goal, ended>> ELSE Stop("done")

TargetCurrent ==
  /\ pc = "target" /\ Current
  /\ AfterTest
  /\ UNCHANGED <<bench, exe, stale, files, verdict, ran, killed>>

-----------------------------------------------------------------------------
(* The recipe: RunSafely.sh and mv *)

\* The shell opens $OUTFILE.time before it starts anything (lines 142-147).
StartRun ==
  /\ pc = "target" /\ ~ Current
  /\ time' = exe.build
  /\ pc' = "limits"
  /\ UNCHANGED <<bench, exe, stale, out, own, kept, goal, ended, verdict, ran, killed>>

\* A limit cannot be set, or there is no `time' program: nothing prints "exit" and
\* $OUTFILE is not opened (lines 142, 168-172).
LimitsFail ==
  /\ pc = "limits"
  /\ ran' = "failed"
  /\ pc' = "append"
  /\ UNCHANGED <<bench, exe, stale, files, goal, ended, verdict, killed>>

\* $OUTFILE is truncated by the redirection in the innermost shell.
StartProgram ==
  /\ pc = "limits"
  /\ out' = "partial"
  /\ own' \in IF bench.writes THEN {own, "wrong"} ELSE {own}   \* begun or not, if cut short
  /\ pc' = "program"
  /\ UNCHANGED <<bench, exe, stale, time, kept, goal, ended, verdict, ran, killed>>

\* The redirection fails because $OUTFILE is there and may not be written: the shell
\* does not start the program, and lines 188 and 195 will fail likewise.
StartRefused ==
  /\ pc = "limits"
  /\ out # "absent"
  /\ ran' = "refused"
  /\ pc' = "append"
  /\ UNCHANGED <<bench, exe, stale, files, goal, ended, verdict, killed>>

\* The program ends, of its own accord or by the watchdog that line 137 puts around
\* it.  One that fails may do so before it has written its own file.
ProgramEnds ==
  /\ pc = "program"
  /\ out' = exe.output
  /\ own' \in (IF bench.writes THEN {exe.output} ELSE {})
                \cup (IF bench.writes /\ exe.end = 0 THEN {} ELSE {own})
  /\ ran' = "yes"
  /\ pc' = "append"
  /\ UNCHANGED <<bench, exe, stale, time, kept, goal, ended, verdict, killed>>

\* What $OUTFILE.time says after "exit", 99 if it does not (lines 168-171).
exitval == IF ran = "failed" THEN 99 ELSE exe.end

\* "exit n" goes to the end of whatever is in $OUTFILE and, since RUN passes 1 for
\* <exitok>, after every status but 0 the command line too (lines 169-197).  The
\* expected file has the right output and "exit 0".
AppendExit_Truncates ==
  /\ pc = "append"
  /\ out' = "exit"
  /\ pc' = "rename"
  /\ UNCHANGED <<bench, exe, stale, own, time, kept, goal, ended, verdict, ran, killed>>

AppendExit ==
  /\ pc = "append"
  /\ out' = CASE ran = "refused" -> out
             [] out = "right" /\ exitval = 0 -> "expected"
             [] OTHER -> "spoilt"
  /\ pc' = "rename"
  /\ UNCHANGED <<bench, exe, stale, own, time, kept, goal, ended, verdict, ran, killed>>

\* RunSafely.sh has exited with 0 in any case, and the recipe goes on.
Rename ==
  /\ pc = "rename"
  /\ kept' = time /\ time' = 0
  /\ killed' = FALSE
  /\ AfterTest
  /\ UNCHANGED <<bench, exe, stale, out, own, verdict, ran>>

-----------------------------------------------------------------------------
(* compare: RunDiff.sh *)

\* adpcm's COMPARE unpacks the expected output over OUTFILE when make's shell
\* expands it, before RunDiff.sh starts.
Unpacked == IF <<"out", "out">> \in bench.pairs THEN "expected" ELSE out

Content(f) ==
  CASE f = "out" -> Unpacked
    [] f = "own" -> own
    [] f = "expected" -> "expected"
    [] f = "expectedOwn" -> "right"
    [] f = "missing" -> "absent"

\* diff's standard output is empty if the files are equal and if it cannot read
\* them, and nothing is there to read if the shell cannot write /tmp/diff$$ (lines
\* 34-36).
Differ(f, g, written) ==
  /\ written
  /\ Content(f) # "absent" /\ Content(g) # "absent"
  /\ Content(f) # Content(g)

\* RunDiff.sh counts the option -v among its arguments (line 10).
Says(verbose, written) ==
  IF bench.args + (IF verbose THEN 2 ELSE 1) < 3 THEN "nothing"
  ELSE IF \E p \in bench.pairs : Differ(p[1], p[2], written) THEN "failed" ELSE "ok"

\* History: the present build was run, ended with 0 and printed what it should.
Passes == ran = "yes" /\ exe.end = 0 /\ exe.output = "right"

Compare ==
  /\ pc = "compare"
  /\ out' = Unpacked
  /\ \E verbose, written \in BOOLEAN :
       verdict' = [says |-> Says(verbose, written), passes |-> Passes, killed |-> killed,
                   blind |-> ran = "refused" \/ ~ written]
  /\ Stop("done")
  /\ UNCHANGED <<bench, exe, stale, own, time, kept, ran, killed>>

-----------------------------------------------------------------------------
(* What comes between *)

\* SIGINT: make removes the target it was making.
Interrupt_Precious ==
  /\ pc # "idle"
  /\ Stop("interrupted")
  /\ UNCHANGED <<bench, exe, stale, files, verdict, ran, killed>>

Interrupt ==
  /\ pc # "idle"
  /\ Stop("interrupted")
  /\ time' = IF bench.target /\ pc \in {"limits", "program", "append", "rename"} THEN 0 ELSE time
  /\ UNCHANGED <<bench, exe, stale, out, own, kept, verdict, ran, killed>>

\* SIGKILL or a power failure: the files stay as they are.
Kill ==
  /\ pc # "idle"
  /\ Stop("killed")
  /\ killed' = TRUE
  /\ UNCHANGED <<bench, exe, stale, files, verdict, ran>>

\* A source file or cla is changed, or `clean' removes the executable.
Outdate ==
  /\ pc = "idle" /\ ~ stale
  /\ stale' = TRUE
  /\ ended' = "none"
  /\ UNCHANGED <<bench, exe, files, pc, goal, verdict, ran, killed>>

\* The file a program writes by itself matches none of cleanall's patterns.
Cleanall ==
  /\ pc = "idle"
  /\ stale' = TRUE
  /\ out' = "absent" /\ time' = 0 /\ kept' = 0
  /\ ended' = "none" /\ killed' = FALSE
  /\ UNCHANGED <<bench, exe, own, pc, goal, verdict, ran>>

MakeStep ==
  \/ BuildExe \/ BuildFails \/ ExeCurrent \/ TargetCurrent
  \/ StartRun \/ LimitsFail \/ StartProgram \/ StartRefused \/ ProgramEnds
  \/ AppendExit \/ Rename \/ Compare

Next ==
  \/ \E g \in {"test", "compare"} : Invoke(g)
  \/ MakeStep
  \/ Interrupt \/ Kill \/ Outdate \/ Cleanall

Spec == Init /\ [][Next]_vars

-----------------------------------------------------------------------------
(* Properties *)

TypeOK ==
  /\ bench \in Benchmarks
  /\ exe \in [build : 0..MaxBuild, output : {"right", "wrong"},
              end : Ends]
  /\ stale \in BOOLEAN /\ killed \in BOOLEAN
  /\ out \in {"absent", "partial", "right", "wrong", "expected", "spoilt"}
  /\ own \in {"absent", "right", "wrong"}
  /\ time \in 0..exe.build /\ kept \in 0..exe.build
  /\ pc \in {"idle", "exe", "target", "limits", "program", "append", "rename", "compare"}
  /\ goal \in {"none", "test", "compare"}
  /\ ended \in {"none", "done", "error", "interrupted", "killed"}
  /\ verdict \in [says : {"none", "nothing", "ok", "failed"}, passes : BOOLEAN,
                  killed : BOOLEAN, blind : BOOLEAN]
  /\ ran \in {"no", "yes", "failed", "refused"}

\* OUTFILE is compared with something else that is there.
Compares == <<"expected", "out">> \in bench.pairs

\* Where OUTFILE is compared with a file that is there, RunDiff.sh says "Failed"
\* (line 55) only if the present executable's last run was not one that passes, and
\* "Ok" (line 53) only if it was, whatever older builds, failing runners and
\* interrupted invocations have left in the directory.  Neither is so while a target
\* is there that a kill left behind, and "Ok" is worth nothing if OUTFILE or
\* /tmp/diff$$ could not be written: no script notices.
VerdictHonest ==
  Compares =>
    /\ verdict.says # "nothing"
    /\ verdict.says = "ok" /\ ~ verdict.killed /\ ~ verdict.blind => verdict.passes
    /\ verdict.says = "failed" /\ ~ verdict.killed => ~ verdict.passes

\* After a `make test' that was not cut short, timing.py (the files that match its
\* line 9) has one time for the benchmark, that of the recipe's run for the present
\* executable: no older build's time survives.  If the runner failed or OUTFILE
\* could not be written, it is the time of a program that was not started.
TimeFiles == {kept} \cup (IF bench.target THEN {time} ELSE {})

ReportFresh ==
  ended = "done" /\ ~ killed => TimeFiles \ {0} = {exe.build}

\* The inductive invariant behind the two.  Outside the recipe a target is there
\* only after a kill; what the recipe has put into the files so far is of the
\* present build; and so are the files it leaves to the comparison.
InRecipe == pc \in {"limits", "program", "append", "rename"}

Recipe ==
  /\ ~ InRecipe /\ bench.target /\ ~ killed => time = 0
  /\ InRecipe => time = exe.build
  /\ pc \notin {"idle", "exe"} => ~ stale
  /\ ~ stale => exe.build > 0
  /\ ended = "done" => pc = "idle" /\ ~ stale

RunOf ==
  /\ pc = "append" => \/ ran \in {"failed", "refused"}
                      \/ /\ ran = "yes" /\ out = exe.output
                         /\ bench.writes /\ exe.end = 0 => own = exe.output
  /\ pc = "rename" \/ (pc = "compare" /\ ~ killed) =>
       /\ ran # "refused" => out = (IF Passes THEN "expected" ELSE "spoilt")
       /\ bench.writes /\ Passes => own = "right"
  /\ (pc = "compare" \/ ended = "done") /\ ~ killed => kept = exe.build

IInv == TypeOK /\ Recipe /\ RunOf /\ VerdictHonest

=============================================================================
