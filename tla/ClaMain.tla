------------------------------ MODULE ClaMain ------------------------------
(***************************************************************************)
(* The process `cla' (main, custom_loop_analysis.cpp:77-149) and the rule  *)
(* of wolfbench/Makefile.single that runs it: X.tune.bc is made from       *)
(* X.opt.bc, and X.tune.bc.stats on the side.  One invocation opens the    *)
(* output, parses the input, runs the early passes if asked to, tags the   *)
(* loops, writes the statistics, verifies the module, writes it, and       *)
(* destroys its locals, the output file among them.  Opening and writing   *)
(* either file can fail, the first without main noticing, and a signal can *)
(* come between any two steps; make then decides from the files' times     *)
(* whether to run cla again.                                               *)
(*                                                                         *)
(* Definitions named Op_Variant are faulty forms of Op, see LoopWalk.      *)
(***************************************************************************)
EXTENDS Naturals, Sequences

CONSTANT MaxVersion    \* how often opt.bc is made anew, a bound for TLC

ASSUME VersionAssumption == MaxVersion \in Nat \ {0}

VARIABLES
  opt,      \* X.opt.bc: its version, and what the parser and the verifier make of it
  out,      \* X.tune.bc: absent, partial, or the complete image of a module
  stats,    \* X.tune.bc.stats: absent, partial, or computed from a module
  newer,    \* X.tune.bc is newer than X.opt.bc
  pc,       \* where main is; "idle" between invocations
  flags,    \* the options given
  opened,   \* Out was opened: EC of line 89 is not set
  csvOpen,  \* the last ofstream of line 178 was opened
  Passes,   \* the legacy::PassManager of line 108
  mod,      \* the module in memory
  exit,     \* what main returns, or how the last invocation ended
  killed    \* a SIGKILL left files behind, and no run has replaced them

vars == <<opt, out, stats, newer, pc, flags, opened, csvOpen, Passes, mod, exit, killed>>

Kinds == {"valid", "broken", "unreadable"}
PassNames == {"mem2reg", "cse", "loopsimplify"}
Flags == [Mem2Reg : BOOLEAN, CSE : BOOLEAN, NoCLA : BOOLEAN, NoCheck : BOOLEAN]
Steps == {"parse", "early", "late", "cla", "csv", "print", "verify", "write",
          "close", "unregister", "exit"}

\* A module: the version of the input, the passes it went through, its tags.
Modules == [ver : 0..MaxVersion, ran : SUBSET PassNames, tagged : BOOLEAN]
NoModule == [ver |-> 0, ran |-> {}, tagged |-> FALSE]

File(s, m) == [state |-> s, mod |-> m]
Absent == File("absent", NoModule)
Partial == File("partial", NoModule)
Complete(m) == File("complete", m)

Init ==
  /\ opt \in [ver : {1}, kind : Kinds]
  /\ out = Absent
  /\ stats = Absent
  /\ newer = FALSE
  /\ pc = "idle"
  /\ flags = [Mem2Reg |-> FALSE, CSE |-> FALSE, NoCLA |-> FALSE, NoCheck |-> FALSE]
  /\ opened = FALSE
  /\ csvOpen = FALSE
  /\ Passes = <<>>
  /\ mod = NoModule
  /\ exit = "none"
  /\ killed = FALSE

-----------------------------------------------------------------------------
(* The Makefile *)

\* opt.bc is built again, from a changed source or with other flags.
Rebuild ==
  /\ pc = "idle"
  /\ opt.ver < MaxVersion
  /\ \E k \in Kinds : opt' = [ver |-> opt.ver + 1, kind |-> k]
  /\ newer' = FALSE
  /\ UNCHANGED <<out, stats, pc, flags, opened, csvOpen, Passes, mod, exit, killed>>

\* `make clean' removes *.bc and X.*, and so the statistics too; `cleanall' names
\* them once more.
Clean ==
  /\ pc = "idle"
  /\ out' = Absent
  /\ newer' = FALSE
  /\ stats' = Absent
  /\ UNCHANGED <<opt, pc, flags, opened, csvOpen, Passes, mod, exit, killed>>

UpToDate == out.state # "absent" /\ newer

\* Make finds the target out of date and runs the tool, which truncates the
\* output.  It fails to open an output that exists and is read-only, and goes on.
Invoke ==
  /\ pc = "idle"
  /\ ~ UpToDate
  /\ pc' = "parse"
  /\ flags' \in Flags
  /\ exit' = "none"
  /\ Passes' = <<>>
  /\ mod' = NoModule
  /\ \/ /\ opened' = TRUE
        /\ out' = Partial
        /\ newer' = TRUE
        /\ killed' = FALSE
     \/ /\ out.state # "absent"
        /\ opened' = FALSE
        /\ UNCHANGED <<out, newer, killed>>
  /\ UNCHANGED <<opt, stats, csvOpen>>

-----------------------------------------------------------------------------
(* main *)

Exit(code, file) ==
  /\ pc' = "idle"
  /\ exit' = code
  /\ out' = file

\* Returning without keep(): the destructor of ToolOutputFile removes the file,
\* unless it was never opened.
Discarded_Left == out

Discarded == IF opened THEN Absent ELSE out

\* A handled signal and report_fatal_error remove every file registered for
\* removal: the output from before it is opened until Out has been destroyed.
Cleanup == IF pc = "exit" THEN out ELSE Absent

ParseFails_Zero ==
  /\ pc = "parse"
  /\ opt.kind = "unreadable"
  /\ out' = Discarded
  /\ exit' = "success"
  /\ pc' = "exit"
  /\ UNCHANGED <<opt, stats, newer, flags, opened, csvOpen, Passes, mod, killed>>

\* Line 104: Out is destroyed on the way out.
ParseFails ==
  /\ pc = "parse"
  /\ opt.kind = "unreadable"
  /\ out' = Discarded
  /\ exit' = "failure"
  /\ pc' = "exit"
  /\ UNCHANGED <<opt, stats, newer, flags, opened, csvOpen, Passes, mod, killed>>

\* The segmentation fault of line 103, before Out is destroyed; after it, a fault
\* is a signal like any other.
ParseCrashes ==
  /\ pc = "parse"
  /\ opt.kind = "unreadable"
  /\ Exit("signal", Cleanup)
  /\ UNCHANGED <<opt, stats, newer, flags, opened, csvOpen, Passes, mod, killed>>

Parse ==
  /\ pc = "parse"
  /\ opt.kind # "unreadable"
  /\ mod' = [ver |-> opt.ver, ran |-> {}, tagged |-> FALSE]
  /\ pc' = "early"
  /\ UNCHANGED <<opt, out, stats, newer, flags, opened, csvOpen, Passes, exit, killed>>

Queued == {Passes'[k] : k \in DOMAIN Passes'}

\* Only -cse runs the pass manager (lines 109-115).
EarlyPasses ==
  /\ pc = "early"
  /\ Passes' = (IF flags.Mem2Reg THEN <<"mem2reg">> ELSE <<>>)
                 \o (IF flags.CSE THEN <<"cse">> ELSE <<>>)
  /\ mod' = IF flags.CSE THEN [mod EXCEPT !.ran = Queued] ELSE mod
  /\ pc' = "late"
  /\ UNCHANGED <<opt, out, stats, newer, flags, opened, csvOpen, exit, killed>>

LatePasses_IndVars ==
  /\ pc = "late"
  /\ Passes' = Passes \o <<"indvars", "mem2reg", "loopsimplify">>
  /\ pc' = "cla"
  /\ UNCHANGED <<opt, out, stats, newer, flags, opened, csvOpen, mod, exit, killed>>

\* Lines 121-122 add two passes to a manager that is not run any more.
LatePasses ==
  /\ pc = "late"
  /\ Passes' = Passes \o <<"mem2reg", "loopsimplify">>
  /\ pc' = "cla"
  /\ UNCHANGED <<opt, out, stats, newer, flags, opened, csvOpen, mod, exit, killed>>

\* CustomLoopAnalysis, modelled by LoopWalk: here its outcome.
RunCLA ==
  /\ pc = "cla"
  /\ mod' = [mod EXCEPT !.tagged = ~ flags.NoCLA]
  /\ pc' = "csv"
  /\ UNCHANGED <<opt, out, stats, newer, flags, opened, csvOpen, Passes, exit, killed>>

\* The search brings the process down with SIGSEGV, which LLVM handles.
CLACrashes ==
  /\ pc = "cla"
  /\ ~ flags.NoCLA
  /\ Exit("signal", Cleanup)
  /\ UNCHANGED <<opt, stats, newer, flags, opened, csvOpen, Passes, mod, killed>>

\* Line 178 truncates the statistics.  If it cannot open them, nothing is noticed
\* and the old ones stay.
OpenStats ==
  /\ pc = "csv"
  /\ \/ /\ csvOpen' = TRUE
        /\ stats' = Partial
     \/ /\ csvOpen' = FALSE
        /\ stats' = stats
  /\ pc' = "print"
  /\ UNCHANGED <<opt, out, newer, flags, opened, Passes, mod, exit, killed>>

\* summarize has counted the module as it is now.
PrintedStats_Input == Complete([mod EXCEPT !.ran = {}])

PrintedStats == Complete(mod)

\* A write that fails, as on a full disk, is not noticed either.
print_csv_file ==
  /\ pc = "print"
  /\ stats' \in IF csvOpen THEN {PrintedStats, Partial} ELSE {stats}
  /\ pc' = "verify"
  /\ UNCHANGED <<opt, out, newer, flags, opened, csvOpen, Passes, mod, exit, killed>>

VerifierRejects_Never == FALSE

VerifierRejects == ~ flags.NoCheck /\ opt.kind = "broken"

Verify ==
  /\ pc = "verify"
  /\ ~ VerifierRejects
  /\ pc' = "write"
  /\ UNCHANGED <<opt, out, stats, newer, flags, opened, csvOpen, Passes, mod, exit, killed>>

\* The verifier pass ends the process with a fatal error.
VerifyFails ==
  /\ pc = "verify"
  /\ VerifierRejects
  /\ Exit("failure", Cleanup)
  /\ UNCHANGED <<opt, stats, newer, flags, opened, csvOpen, Passes, mod, killed>>

\* WriteBitcodeToFile fills the stream's buffer, keep() sets a flag; a write that
\* fails is remembered by the stream.
WriteBitcode ==
  /\ pc = "write"
  /\ pc' = "close"
  /\ UNCHANGED <<opt, out, stats, newer, flags, opened, csvOpen, Passes, mod, exit, killed>>

\* The destructor of Out flushes and closes the stream first ...
Written == Complete(mod)

CloseOutput ==
  /\ pc = "close"
  /\ opened
  /\ out' = Written
  /\ pc' = "unregister"
  /\ UNCHANGED <<opt, stats, newer, flags, opened, csvOpen, Passes, mod, exit, killed>>

\* ... or ends the process with a fatal error: a full disk, or the output that
\* could not be opened.
WriteFails ==
  /\ pc = "close"
  /\ Exit("failure", Cleanup)
  /\ UNCHANGED <<opt, stats, newer, flags, opened, csvOpen, Passes, mod, killed>>

\* ... then takes the file off the list of those to remove.
Unregister ==
  /\ pc = "unregister"
  /\ exit' = "success"
  /\ pc' = "exit"
  /\ UNCHANGED <<opt, out, stats, newer, flags, opened, csvOpen, Passes, mod, killed>>

\* The context and llvm_shutdown (line 82) are next, and the process ends.
Return ==
  /\ pc = "exit"
  /\ pc' = "idle"
  /\ UNCHANGED <<opt, out, stats, newer, flags, opened, csvOpen, Passes, mod, exit, killed>>

\* SIGINT or SIGTERM, or a fault of the program, all of which LLVM handles.
Interrupt ==
  /\ pc # "idle"
  /\ Exit("signal", Cleanup)
  /\ UNCHANGED <<opt, stats, newer, flags, opened, csvOpen, Passes, mod, killed>>

\* SIGKILL, which nobody handles.
Kill ==
  /\ pc # "idle"
  /\ Exit("killed", out)
  /\ killed' = TRUE
  /\ UNCHANGED <<opt, stats, newer, flags, opened, csvOpen, Passes, mod>>

Main ==
  \/ ParseFails \/ ParseCrashes \/ Parse \/ EarlyPasses \/ LatePasses
  \/ RunCLA \/ CLACrashes \/ OpenStats \/ print_csv_file \/ Verify \/ VerifyFails
  \/ WriteBitcode \/ CloseOutput \/ WriteFails \/ Unregister \/ Return

Next == Main \/ Rebuild \/ Clean \/ Invoke \/ Interrupt \/ Kill

Spec == Init /\ [][Next]_vars

-----------------------------------------------------------------------------
(* Properties *)

Files == [state : {"absent", "partial", "complete"}, mod : Modules]

TypeOK ==
  /\ opt \in [ver : 1..MaxVersion, kind : Kinds]
  /\ out \in Files
  /\ stats \in Files
  /\ newer \in BOOLEAN
  /\ pc \in Steps \cup {"idle"}
  /\ flags \in Flags
  /\ opened \in BOOLEAN
  /\ csvOpen \in BOOLEAN
  /\ Passes \in Seq(PassNames)
  /\ mod \in Modules
  /\ exit \in {"none", "success", "failure", "signal", "killed"}
  /\ killed \in BOOLEAN

\* A target that make takes as up to date is the complete image of the current
\* input, after any history of failures, signals and rebuilds that has no
\* unrepaired SIGKILL in it.
UpToDateIsComplete ==
  pc = "idle" /\ UpToDate /\ ~ killed =>
    out.state = "complete" /\ out.mod.ver = opt.ver

\* Complete statistics beside a complete output describe the module in it, passes
\* and tags included, though they are written before it, in a file of their own
\* whose errors nobody looks at: the only exceptions are files that a SIGKILL left,
\* and statistics that the last run to get to line 178 could not open.
StatsOfOutput ==
  (/\ pc = "idle" /\ ~ killed /\ csvOpen
   /\ out.state = "complete" /\ stats.state = "complete") => stats.mod = out.mod

\* A module that the verifier rejects is written only on request (-no), also
\* when an earlier run of the same version was killed or interrupted.
OnlyVerifiedWritten ==
  out.state = "complete" /\ out.mod.ver = opt.ver /\ opt.kind # "valid" =>
    opt.kind = "broken" /\ flags.NoCheck

\* The exit status tells what make finds: only a run that could open its output
\* returns 0, and until the files are touched the output is then the complete
\* tagged module; after a run that returned 1 or died of a fatal error, make does
\* not take the output for up to date, whether the run had opened it or not; after
\* a signal it does so only if the complete module of that run was already there.
\* This is about X.tune.bc: statistics of a failed run may stay.
ExitStatusHonest ==
  pc = "idle" =>
    /\ exit = "success" => opened
    /\ exit = "success" /\ newer => out = Complete(mod) /\ mod.tagged = ~ flags.NoCLA
    /\ exit = "failure" => ~ UpToDate
    /\ exit = "signal" /\ UpToDate => out = Complete(mod) /\ mod.tagged = ~ flags.NoCLA

\* The strengthening behind the proofs.  Until it is closed, the output is the file
\* the run has truncated, or the old one it could not open; the module in memory is
\* the current input's; and the statistics get ahead of the output only between
\* print_csv_file and the closing of the output.
DuringRun ==
  /\ pc \in Steps \ {"exit"} => exit = "none"
  /\ pc # "idle" => (newer <=> opened)
  /\ pc # "idle" /\ opened => ~ killed
  /\ pc \in Steps \ {"unregister", "exit"} /\ opened => out = Partial
  /\ pc = "unregister" => opened /\ out = Complete(mod)
  /\ pc = "exit" => \/ exit = "success" /\ opened /\ out = Complete(mod)
                    \/ exit = "failure" /\ (opened => out = Absent)

InMemory ==
  /\ pc \in Steps \ {"parse", "exit"} => mod.ver = opt.ver /\ opt.kind # "unreadable"
  /\ pc = "exit" /\ exit = "success" =>
       mod.ver = opt.ver /\ mod.tagged = ~ flags.NoCLA
  /\ pc \in {"csv", "print", "verify", "write", "close", "unregister"} =>
       mod.tagged = ~ flags.NoCLA
  /\ pc = "print" /\ csvOpen => stats = Partial
  /\ pc \in {"verify", "write", "close"} /\ csvOpen => stats \in {Complete(mod), Partial}
  /\ pc \in {"write", "close"} => ~ VerifierRejects

StatsInStep ==
  (/\ pc \notin {"verify", "write", "close"} /\ ~ killed /\ csvOpen
   /\ out.state = "complete" /\ stats.state = "complete") => stats.mod = out.mod

OutputAge ==
  out.state = "complete" => /\ out.mod.ver <= opt.ver
                            /\ out.mod.ver = opt.ver => newer

IInv == /\ TypeOK /\ DuringRun /\ InMemory /\ StatsInStep /\ OutputAge
        /\ UpToDateIsComplete /\ OnlyVerifiedWritten /\ ExitStatusHonest

\* custom_loop_analysis.cpp:54: -mem2reg performs "memory to register promotion
\* before CLA".
PromotedBeforeCLA == pc = "csv" /\ flags.Mem2Reg => "mem2reg" \in mod.ran

=============================================================================
