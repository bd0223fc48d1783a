# A TLA+ model of the loop-analysis pass

The repository builds `cla`, an LLVM 8 tool that reads a bitcode module, tags
the branch behind every loop's back edge and the instruction that updates the
loop's induction variable, and writes the module back. `wolfbench` is the
harness that compiles benchmark programs, runs the tool on them, runs the
results and compares their output. This directory models the tool and the parts
of the harness that decide whether a run counts, checks the models with TLC and
proves properties of them with TLAPS.

In the text below a bare line number is one of `custom_loop_analysis.cpp`.

## Inventory

| Component | State it keeps | Operations | What makes it correct | Module |
|---|---|---|---|---|
| Driver, `main` (77-149) | output file, statistics file, the module, two pass managers | open, parse, early passes, analysis, statistics, verify, write | the exit status tells what is on disk; nothing unverified or half-written passes for a finished target | `ClaMain` |
| Traversal (486-524) | function iterator, `LoopInfo`, call stack of `AnalyzeLoop`, `NumLoops`, back-edge metadata | skip a declaration, enter a function, enter a loop, collect exits, search, tag | every loop once, inner loops first, exactly the back edges tagged | `LoopWalk`, `LoopAnnotation` |
| Update search (192-204, 302-463) | candidates, call stack of `isInductionVariableUpdate`, marks | scan the header, follow a load to stores, return, mark | the answer is that of the data flow; one update marked; it ends | `IndVarSearch` |
| LLVM's dominators and loops | none of the repository's | queries | external | `LoopInfo` |
| Statistics (151-190) | counters, `.stats` file | `summarize`, `print_csv_file` | the file describes the module that was written | in `ClaMain`; counters not modelled |
| `CollectInductionVariables` (207-249) | | | never called | |
| `Makefile.single` | files and their times | build, `clean`, `cleanall` | an up-to-date target is complete and current | in `ClaMain` |
| The whole pass (486-524, 192-204, 302-463) | the two above, sharing a module | begin and end a search, a step of either | no loop's mark is lost; a crash has its cause in some loop's code | `ClaPass` |
| `Makefile.benchmark` | executable, `OUTFILE`, `OUTFILE.time`, `EXEOUT.time` | build, test, compare, `clean`, `cleanall` | a test is of the present executable | `TestRun` |
| `TimedExec.sh` | program and watchdog processes, a process id | poll, TERM, HUP, KILL | no program outlives its limit, no other process is signalled | `TimedExec` |
| `RunSafely.sh`, `RunSafelyAndStable.sh` | output and `.time` files | run, read the status back, append | a failed test is recorded as failed | `TestRun` |
| `RunDiff.sh` | none | compare pairs | different outputs are reported | `TestRun` |
| `P1Tests/main.c`, `Makefile.P1`, `summarize.py` | data files, `X-test` files, marks | read, call, compare, print; run or skip a test; add up | full marks for right results, a total over all tests | `P1Test` |
| `timing.py` | table | pick files, read times | one current time per benchmark | in `TestRun` |
| `stats.py`, `fullstats.py` | tables | aggregate files | sums are complete | not modelled |
| configure, CMake, Docker | | | declarative | not modelled |
| Benchmarks, P2Tests, SimpleTests | | | third-party programs and inputs of other tools | not modelled |

How they interact: make runs `cla` when `X.tune.bc` is missing or older than
`X.opt.bc`. `main` calls `CustomLoopAnalysis` once; that calls `AnalyzeLoop` on
the top-level loops of every function, which calls itself on the sub-loops and
then the search. The search can take the process down; whether that leaves a
file behind is decided by the signal handlers LLVM installed when the output was
opened. The statistics go to a second file, before the module is verified.

`make test` builds the executable if need be, and runs it through
`RunSafelyAndStable.sh`, `RunSafely.sh`, `time` and `TimedExec.sh`, which leaves
a watchdog process behind and becomes the program. What comes back is in files:
`RunSafely.sh` reads the exit status from `OUTFILE.time`, appends to `OUTFILE`,
and make renames the former. `make compare` does all that first and then lets
`RunDiff.sh` look at the files. `make` of `P1Tests` runs a driver, `main.c`, per
test and adds up what it printed.

The tool is sequential. What is hard in it is recursion (over loop nests, and
over chains of stores and loads with no visited set), marks written while a
recursion unwinds, an output file that is truncated first and completed last,
and a build system that judges files by their times. The harness adds a second
process with nothing but a process id to go by, and results that are passed on
in files which earlier builds, failed runners and interrupted invocations have
also written. `PROJECT.json` lists each
hazard with its line and the properties aimed at it.

## Modules

**LoopInfo** says what LLVM computes: reachability, dominators, natural loops,
latches and exiting blocks of a control-flow graph. It is external; it turns
every small graph into a loop forest for `MCLoopWalk`.

**LoopAnnotation** is the abstract specification of the back-edge half of the
pass: a set of annotated loops grows by one loop at a time, which must contain
all loops nested in the new one, and the step tags the new loop's latches.

**LoopWalk** is the traversal. `M` is the module as a record of functions, loops
and blocks and never changes its shape. `func` is the iterator of line 509, `li`
the loops of the current `LoopInfo`, `phase[l]` how far `AnalyzeLoop` is on loop
`l`: the loops in a phase between `unvisited` and `done` are the frames of the
recursion. The back edges are found as line 497 does, among the header's
predecessors, by asking whether the loop contains them; that these are LoopInfo's
latches is part of `WellFormed`, and TLC evaluates it on every graph, where the
latches come from dominance. `AnalyzeLoop(l)`, `getLoopExitBlocks(l)`,
`FindIndVarUpdateCandidates(l)` and `TagBackEdges(l)` are the four stretches of
one call; `SearchCrashes(l)` is a crash in the third. The model lets LLVM list
sub-loops in any order.

**IndVarSearch** is the third stretch in detail. `P` holds the instructions that
matter: opcode, operands, use list, whether the loop contains it, whether it is
volatile or has a debug location. `ScanHeader` collects `NonConstOps`,
`TryCandidate` starts a search, and `stack` holds one frame per active call of
`isInductionVariableUpdate`, with the position in the use list of line 390.
`ret` carries a result from a call to its caller. `NullDereference` is line 388
on a pointer that is no instruction, `StackOverflow` line 399 with `StackLimit`
frames on the stack.

**ClaMain** is one target of `Makefile.single` and the process that makes it.
`opt`, `out` and `stats` are the files, `newer` the comparison of times make bases
its decision on, `pc` the step of `main`. An invocation can meet an unreadable or
broken input, an output it cannot open (noticed when it is closed), statistics it
cannot open or write (never noticed; `csvOpen` remembers the former), a crash of
the parser or the analysis, and an output that cannot be written. A handled signal
or a SIGKILL can come between any two steps; the end of `main` is several
(`CloseOutput`, `Unregister`, `Return`), as a signal before, between and after
them finds the output in different states. That make, too, removes the target of a
recipe that dies of a signal is not relied on. LLVM's part (a `ToolOutputFile`
that is not kept removes its file, a handled signal or a fatal error removes
registered files) is external.

**ClaPass** puts the search into the walk. It extends `LoopWalk` and instantiates
`IndVarSearch`, whose `status` becomes the variable `search`; `current` is the
loop being searched and `LoopIR(l)` the part of its function the search looks at,
with the exit blocks the walk has collected. `BeginSearch(l)` and `EndSearch(l)`
are the call and the return of line 494, `SearchDies(l)` a crash that takes the
walk along. `indvar` collects the marks of the whole module.

**TimedExec** is the script and its two processes. `holder` is whoever has the
process id the watchdog remembers: the script, the program, a zombie, nobody, or
after `Reuse` another process that may or may not be signalled. `wd` and `SEC`
are the watchdog's program counter and variable, `pending` and `handles` the
signals under way and the ones the program catches. Time is the number of
seconds the watchdog has slept. Process ids, signals and `wait` are external.

**TestRun** is the directory of one benchmark. The seven records from `Hanoi` to
`L2lat` are the forms the settings under `Benchmarks` take. A file is modelled by
what the comparison can tell of it: `out` is "expected" only if it holds the
right output and one "exit 0". `pc` runs through make's decision, the recipe
(`StartRun` to `Rename`) and `Compare`; between any two steps an `Interrupt` or a
`Kill` may come, between two invocations a change of the sources or `cleanall`.
`StartRefused` is an `OUTFILE` that may not be written; `Compare` includes a
`/tmp/diff$$` that cannot be.

**P1Test** is the driver `main.c`, one action per statement that can take
different ways, inside the rules that run it. Data files are sequences of words
that are integers or not, and may end early: the variables then hold `Garbage`.
The tested function returns and writes anything, or crashes. Integers are C's:
`IntMax` is `INT_MAX`, a product that is too large wraps around (`Wrapped`) or,
the overflow being undefined, `total*weight/total` is just the weight, and
division rounds towards zero. `summarize.py` reads its files one by one
(`AddFile`) and can be interrupted between two of them.

`MCLoopWalk`, `MCIndVarSearch`, `MCClaPass` and `MCP1Test` define the instances.
`LoopWalkProofs`, `IndVarSearchProofs`, `IndVarFlowProofs`, `ClaPassProofs`,
`ClaMainProofs`, `TimedExecProofs`, `TestRunProofs` and `P1TestProofs` hold the
proofs. Definitions named `Op_Variant` are faulty
forms of `Op`, one for each property, with which the property must fail.

## Runs

| Run | Instance | Result |
|---|---|---|
| `loop_walk` | every graph over 3 blocks behind the entry with at most two successors each, a second function that is a loop or a declaration, three choices each of the blocks that end in a switch and of the terminators with a location; 69 thousand states | passes |
| `indvar_search` | about 2100 functions of ten instructions: two variables, three values before, in or after the loop, two stores; `StackLimit` 5; 17 thousand states | passes |
| `cla_main` | `MaxVersion` 3 versions of the input, all 16 combinations of options in every invocation; 460 thousand states | passes |
| `search_returns` | as `indvar_search` | violated: `i = i`, with known pointers everywhere, fills the stack |
| `exit_compares` | as `indvar_search`, the compare used outside the exit blocks | violated: it is followed all the same |
| `marks_in_loop` | as `indvar_search` | violated: an addition after the loop is marked instead of the loop's own |
| `promoted_before_cla` | one version of the input | violated: `-mem2reg` alone promotes nothing |
| `cla_pass` | 324 modules with two loops side by side or nested, `StackLimit` 5; 11 thousand states | passes |
| `timed_exec` | `TIMEOUT` 3, the id given away at most twice (`MaxReuse`), programs that catch any of TERM and HUP; 6 thousand states | passes |
| `only_parent_signalled` | `TIMEOUT` 1, `MaxReuse` 1 | violated: the id is reused before the only poll, and its new owner gets the TERM |
| `test_run` | seven forms of benchmark, `MaxBuild` 2 builds with nine behaviours each; 2.0 million states | passes |
| `p1_test` | two tests, ten shapes of data file, results and garbage from {0, 1}, `IntMax` 15; 54 thousand states | passes |

*loop_walk.* `InnerFirst`, `TagsExact` and `WalkComplete` (which includes the count
of loops) are about the recursion and the function iterator,
`AnnotatesLoops` is the refinement of `LoopAnnotation`, `WalkTerminates` the
liveness property. Three blocks are enough for nests of depth three, siblings,
several latches, a latch shared by two loops, irreducible cycles and unreachable
blocks.

*indvar_search.* `VerdictCorrect` compares the outcome with the set of
instructions whose values flow into a candidate, computed without a stack.
`StackChain`, `OneUpdate`, `MarkedFlow` and `DepthBounded` hold in every state of
the recursion, `SearchEnds` is liveness. The functions have at most three loads,
so a stack of five frames fills up only on a cycle; on a smaller stack than there
are loads `VerdictCorrect` asks for no cycle behind an overflow. Use lists run
against the program order, as the bitcode reader leaves them: it puts each new use
at the front.

*cla_main.* `UpToDateIsComplete`, `StatsOfOutput`, `OnlyVerifiedWritten` and
`ExitStatusHonest` relate the files to each other, to the source and to the exit
status. The first two exclude histories in which a SIGKILL left files that no
later run has replaced; no code could handle those. `StatsOfOutput` also excludes
statistics that the last run could not open: line 178 does not look, the run
succeeds, and the old ones stay beside the new output. `ExitStatusHonest` is about
`X.tune.bc` only, as a failed run may leave statistics, and it allows a signal to
leave a complete output, as one does that comes after the output's destructor.
Three versions let an old output, an old statistics file and a new source meet.
Deadlock is checked in all runs.

*cla_pass.* `MarksAccounted` follows the marks over the searches of several loops:
a found update stays marked, every mark belongs to a loop, and additions are not
more than finds. `CrashExplained` and `HarmlessFinishes` say that the composition
adds no way to crash. Two loops over the same variable are enough for one search
to meet the stores and the marks of the other; the functions have four loads, so
that a stack of five frames fills up only on a cycle.

*timed_exec.* `NoSurvivor`, `SignalsInTime` and `WatchdogFollows` hold in every
interleaving of the watchdog with the program's end, the delivery of signals, the
wait and the reuse of the id; `TimesOut` is liveness. Three seconds let the
program end before, between and after polls; two reuses let a stranger answer
one poll and another the next.

*test_run.* `VerdictHonest` compares what `RunDiff.sh` says with how the present
build really behaves; `ReportFresh` does so for the file `timing.py` reads. Both
exclude the time between a SIGKILL and the next complete run, where an old
`X.out.time` passes for the result: make has no means to know. Interrupts are
included, as make removes the target. `VerdictHonest` is about benchmarks that
have `OUTFILE` compared with a file that exists; its "Ok" half also excludes an
`OUTFILE` or a `/tmp/diff$$` that could not be written, when the scripts compare an old
output or nothing and say "Ok". Two builds are enough for the files of a passing
one to meet a failing one. That the program ends is not claimed here: the watchdog
is `TimedExec`'s matter.

*p1_test.* `FullMarks` is about the arithmetic and the reading of `main.c`, for
complete data files whose products are ints; one of the ten shapes overflows, and
without that hypothesis the property fails on it. `SummaryHonest` is about the files
behind the summary, over repeated, interrupted and killed invocations and crashed
tests. It says what a reader may conclude from a rate: all tests are in it unless a
run since the last `clean` ended badly; otherwise the total is the weight of exactly
the tests that have marks on file, so that a crashed test is not counted as wrong
but drops out; and 100% means that each of those was right when its file was
written, which may be long ago.

*Fairness.* `LoopWalk`, `IndVarSearch` and `ClaPass` assume weak fairness of the
process's own steps: it is a single thread that nothing blocks. `TimedExec` assumes
it of the script, the watchdog, the delivery of signals and the shell that waits,
each by itself, but not of the program, which may run for ever. `ClaMain`, `TestRun`
and `P1Test` state no liveness and no fairness: the first two are straight-line, and
what could keep a step of theirs from ending is in the other modules; the third runs
its programs without a watchdog, and nothing is claimed of their end.

## Findings

The violated properties state what the README or a comment says; see `findings` in
`PROJECT.json` for the quotations. In short: the search does not return on cyclic
chains of copies; compares that decide no exit are followed; the marked addition
can belong to another loop, which is what happens to the first of two loops over
the same variable; `-mem2reg` has no effect without `-cse`; the watchdog can
signal a process that is not its program. Four more are plain from the text and
have no run: subtractions are never accepted although the comment on line 330
names them; the induction-variable metadata carries neither file nor line;
`RunSafelyAndStable.sh` runs the program once, not three times; and `make compare`
cannot fail for `adpcm`, `FIR` and `mst`, whose settings compare a file with
itself or with none.

## Proofs

`LoopWalkProofs` is about every set of modules whose loops form a forest
(`ProgramsAssumption`, which TLC evaluates for the instance and `LoopInfo`
justifies). The inductive invariant `IInv` adds to the checked properties `Progress`
(functions before the iterator are finished, those after it untouched), which is
needed because the guard of `NextFunction` speaks of the top-level loops only, and
`CountExact` (`NumLoops` is the number of loops entered). From `IInv` follow
`TypeCorrect`, `InnerFirstCorrect`, `WalkCompleteCorrect`, `TagsExactCorrect`, and
`Refinement`: each step of the walk is a step of `LoopAnnotation` or leaves it
unchanged. `ClaPassProofs` has the lemma `PassWalks`, that each step of the whole
pass is one of the walk or leaves it unchanged, so that these theorems hold of the
pass; the modules are composed so that this is immediate.
Its other theorems are described below, behind those about the search.

`IndVarSearchProofs` is about every function and every stack size. `Waiting`
says that each frame below the top is a load whose current user stores the value
the next frame was called with; `LastMarked` that the addition a call has just
marked is the one its caller will mark again. Together they make `OneUpdate`
inductive. `RanksFall` says that any rank that falls from a load to the values
stored for it, and is smaller than `StackLimit`, falls along the stack; it gives
`AcyclicNeverOverflows`: without a cycle in the flow through memory, a stack as
deep as the longest chain is never exhausted. The assumptions are `LoopsAssumption`
(the shape of the record), `StackAssumption` (room for one frame) and nothing
about the order of use lists.

`TimedExecProofs` is about every `TIMEOUT`. `Elapsed` ties the seconds slept to the
watchdog's counter and position, `Escalated` says which signals are behind each
position, `Lag` how far the watchdog can be past the moment the program was
waited for. They give `NoSurvivorCorrect`, `SignalsInTimeCorrect` and
`WatchdogFollowsCorrect`.

`TestRunProofs` is about any number of builds. `Recipe` says that outside the
recipe a target is there only after a kill, `RunOf` that what the recipe has
written so far, and what it hands to the comparison, is of the present build.
`SaysOutput` works out `RunDiff.sh` for the benchmarks that compare `OUTFILE`.
Together they give `VerdictCorrect` and `ReportFreshCorrect`, with the exceptions the
properties name: kills, and for "Ok" files that could not be written.

`IndVarFlowProofs` shows that the recursion answers what the flow through memory
says, for every function. `ReachedFrom` is not computed by steps but as a least
closed set, so that what is reached can be reasoned about without induction:
`ReachLeast` says that a closed set that holds the start holds all that is
reached, and `ReachTrans`, `ReachUnfold` and `ReachMember` follow. `Dead(i)` says
that nothing reached from `i` is an update, an unknown pointer or on a cycle; it
is what a call that returns false has established (`RejectedIsDead`,
`LoadIsDead`: a load is dead when all values stored for it are, which also
excludes that it reaches itself). `Exhausted` says that the users before each
frame's current one, and the candidates before the current one, are dead: this is
what makes "notfound" right although the search keeps no visited set.
`StackReached` puts every frame in the flow from the candidates and from all
frames below; a stack with more frames than there are loads holds a load twice,
which is then on a cycle (`DeepIsCyclic`), hence `DepthBoundedCorrect` and the
overflow case of `VerdictAnswersFlow`. `UpdateFound` carries the update that a
successful call has found down the stack, for `MarkedFlowCorrect`. `Origins` puts
the candidates among the operands of the header's compares (`Starts`) and the
marks in the flow from them; the whole pass needs it. New among the
assumptions is that use lists are complete (`WellFormed`): each user of a value
is in its list, which LLVM maintains. Nothing is assumed of their order.

`ClaPassProofs` combines the two for every set of modules with well-formed code in
which an instruction belongs to one function (`CodeAssumption`, which verified IR
satisfies). The proof of the search is instantiated for the search under way;
`SameSteps` and `SameInv` say that it is about the same steps and states.
`OneSearch` says that a search is under way only for a loop in phase "exits", on
that loop's code and in the search's invariant, and that the loop has no verdict
yet: the walk waits because no step of it leaves that phase. `Accounted` follows
the marks. `MarksAccounted` counts between searches only, so `Accounted` lets the
search under way have one addition in advance (`Unaccounted`); that it is one at
most is `OneUpdate` of the search and the disjointness of functions
(`OneAddition`), and the end of the search pays for it: with "found" there is one
more loop to count, and with "notfound" there are no marks (`EndAccounted`). Since
`LoopIR` changes when exit blocks are collected, `SameCode` shows that the flow does
not. This gives `MarksAccountedCorrect`, and with `Crashed` (only the search under
way crashes the pass) also `CrashExplainedCorrect`, the safety half of
`HarmlessFinishes`, for every stack size.

`ClaMainProofs` is about any number of versions of the input and of invocations.
Most of the four properties are about `idle` states only. `DuringRun` (until it is
closed an opened output is truncated and newer than the input, an output that is
not newer was not opened, and from then on it is complete or discarded as `exit`
says), `InMemory` (the module in memory is the current input's, tagged and counted
as the options say from the step on that does it, and accepted by the verifier at
the write), `StatsInStep` (statistics and output differ only between
`print_csv_file` and the closing of the output, or if the statistics could not be
opened) and `OutputAge` (a complete output of the current version is newer than
it) carry them through a run. They give `UpToDateCorrect`, `StatsOfOutputCorrect`,
`OnlyVerifiedCorrect` and `ExitStatusCorrect`.

`P1TestProofs` is about any number of tests, any data files, lengths and weights,
and any width of int; the marks are those of files whose products fit (`Fits`).
`Reading` says where in a complete file `main.c` stands before each statement, so
that the weight it ends up with is the file's. `MarksOf` is the arithmetic of line
106: for s right and e wrong comparisons, the two parts of a weight w, each
rounded towards zero, miss at most one mark, and the first is all of w only if e
is 0 (products are not linear; the proof goes through `TimesMonotone` and
`DivUnique`). `ProductsFit` says that if the largest of the three products is an
int, so are the others, and `Wrapped` leaves them as they are. `OnFile` says that
the tests behind `cur` have a file, with marks unless a run ended badly,
`PartOfMarks` that a file without marks adds nothing, `Adding` what the sums are
after each file. The sum of the weights of the tests with marks is the recursive
function `WeightSum`; that it exists, so that its definition may be used, is
proved by hand (`WeightSumExists`) from the least number it could fail for
(`LeastElement`), as an induction theorem with an operator parameter cannot be
cited. The assumptions are that words are ints or not, and that the number of
tests and `INT_MAX` are numbers. They give `FullMarksCorrect` and
`SummaryHonestCorrect`.

Only model-checked: the liveness properties (`WalkTerminates`, `SearchEnds`,
`HarmlessFinishes`, `TimesOut`), which this prover does not reach. All invariants that
the passing runs check, and the refinement, are proved.

## Not modelled

Of the tool: the numbers in the statistics other than `NumLoops`, log output, the
text of the metadata beyond whether it has a location, LLVM's own passes, dead
code. Of the harness: the compilers behind an executable (one step that succeeds
or fails), `install`, `ftest` and `profile`, runs on a remote host and the stack
trace of a core file in `RunSafely.sh`, `main.c` called without an argument, which
no rule does, a `malloc` that fails, and several makes at work in one directory.
`stats.py` and `fullstats.py` are functions of files at rest, without state or
interleaving. The remaining Makefiles, `configure`, CMake and Docker files are
declarations, the benchmark programs third-party code.

## Plan

1. Done: `LoopWalk` with `LoopAnnotation`, `IndVarSearch`, `ClaMain`, `ClaPass`,
   `TimedExec`, `TestRun`, `P1Test`, and the proofs named above.
2. Possible next: what the liveness properties rest on, as safety theorems: a
   measure that every step of the search of acyclic code decreases, and that no
   state before the end of a run is without a next step.
