------------------------------ MODULE ClaPass ------------------------------
(***************************************************************************)
(* The whole pass: the traversal of LoopWalk and, for each loop it         *)
(* reaches, the search of IndVarSearch over the instructions of the loop's *)
(* function.  The two share the module: the search gets the exit blocks    *)
(* the walk has collected, sees the stores of every other loop of the      *)
(* function, and leaves marks that the searches of other loops meet.  A    *)
(* search that dies takes the walk with it.                                *)
(*                                                                         *)
(* Definitions named Op_Variant are faulty forms of Op, see LoopWalk.      *)
(***************************************************************************)
EXTENDS LoopWalk, Sequences

CONSTANTS Constant, Global, OtherPointer, StackLimit   \* see IndVarSearch

VARIABLES
  P, scan, NonConstOps, cand, stack, ret, marked, search,   \* the search, see IndVarSearch
  current,    \* the loop it is for, or NoLoop between two searches
  verdict,    \* loop -> how its search ended
  indvar      \* the instructions of the module with "IndVarUpdateInst:" metadata

searchvars == <<P, scan, NonConstOps, cand, stack, ret, marked, search>>
passvars == <<vars, searchvars, current, verdict, indvar>>

Search == INSTANCE IndVarSearch WITH Loops <- {}, status <- search

\* What the search of loop l looks at, out of the code of its function in module m.
IROf(m, l, exits) ==
  LET c == m.code[m.owner[l]]
  IN  [ins |-> c.ins, op |-> c.op, arg0 |-> c.arg0, arg1 |-> c.arg1, users |-> c.users,
       volatile |-> c.volatile, located |-> c.located,
       inLoop |-> {i \in c.ins : c.block[i] \in m.body[l]},
       inExit |-> {i \in c.ins : c.block[i] \in exits},
       header |-> m.header[l]]

LoopIR(l) == IROf(M, l, ExitBlocks[l])

\* Verified IR: the code around each loop is well-formed, and an instruction
\* belongs to one function.
ASSUME CodeAssumption ==
  \A m \in Programs :
    /\ \A l \in m.loops : Search!WellFormed(IROf(m, l, {}))
    /\ \A f, g \in m.defined : f # g => m.code[f].ins \cap m.code[g].ins = {}
ASSUME SearchAssumption ==
  StackLimit \in Nat \ {0} /\ Constant # Global /\ OtherPointer # Global

NoCode == [ins |-> {}, located |-> {}]

PassInit ==
  /\ Init
  /\ P = NoCode /\ scan = 1 /\ NonConstOps = <<>> /\ cand = 1
  /\ stack = <<>> /\ ret = "none" /\ marked = {} /\ search = "notfound"
  /\ current = NoLoop
  /\ verdict = [l \in M.loops |-> "none"]
  /\ indvar = {}

\* The steps of the walk between the searches.
WalkStep ==
  /\ \/ SkipDeclaration
     \/ AnalyzeFunction
     \/ NextFunction
     \/ \E l \in M.loops : AnalyzeLoop(l) \/ getLoopExitBlocks(l) \/ TagBackEdges(l)
     \/ Return
  /\ UNCHANGED <<searchvars, current, verdict, indvar>>

\* The call of line 494.
BeginSearch(l) ==
  /\ status = "running"
  /\ phase[l] = "exits"
  /\ current = NoLoop
  /\ current' = l
  /\ P' = LoopIR(l)
  /\ scan' = 1 /\ NonConstOps' = <<>> /\ cand' = 1
  /\ stack' = <<>> /\ ret' = "none" /\ marked' = {} /\ search' = "scanning"
  /\ UNCHANGED <<vars, verdict, indvar>>

\* setMetadata on an instruction leaves the other instructions' metadata alone.
Annotated_Replaced == marked'

Annotated == indvar \cup marked'

SearchStep ==
  /\ current # NoLoop
  /\ search \in {"scanning", "searching"}
  /\ Search!Next
  /\ indvar' = Annotated
  /\ UNCHANGED <<vars, current, verdict>>

EndSearch(l) ==
  /\ current = l
  /\ search \in {"found", "notfound"}
  /\ FindIndVarUpdateCandidates(l)
  /\ current' = NoLoop
  /\ verdict' = [verdict EXCEPT ![l] = search]
  /\ UNCHANGED <<searchvars, indvar>>

SearchDies(l) ==
  /\ current = l
  /\ search \in {"nullderef", "overflow"}
  /\ SearchCrashes(l)
  /\ UNCHANGED <<searchvars, current, verdict, indvar>>

PassNext ==
  \/ WalkStep
  \/ SearchStep
  \/ \E l \in M.loops : BeginSearch(l) \/ EndSearch(l) \/ SearchDies(l)

PassSpec == PassInit /\ [][PassNext]_passvars

FairPassSpec == PassSpec /\ WF_passvars(PassNext)

-----------------------------------------------------------------------------
(* Properties *)

\* IndVarSearch's reading of the data flow, for the code of loop l.
Flow(l) == INSTANCE IndVarSearch WITH Loops <- {}, status <- search, P <- LoopIR(l)

Reached(l) == Flow(l)!ReachedFrom(Flow(l)!Starts)

Harmless(l) ==
  \A i \in Reached(l) : ~ Flow(l)!UnknownPointer(i) /\ ~ Flow(l)!Cyclic(i)

\* An update that flows into l's compare is marked, if it has a debug location.
UpdateKept(l) ==
  \E u \in Reached(l) : Flow(l)!IsUpdate(u) /\ (u \in LoopIR(l).located => u \in indvar)

FoundLoops == {l \in M.loops : verdict[l] = "found"}

Addition(i) == \E l \in M.loops : i \in LoopIR(l).ins /\ LoopIR(l).op[i] = "add"

\* The marks of one loop's search survive those of all later loops of the module
\* (line 202): a loop for which an update was found keeps one that flows into
\* its compare, every mark flows into the compare of such a loop or the current
\* one, and no more additions are marked than updates were found.
MarksAccounted ==
  /\ \A l \in FoundLoops : UpdateKept(l)
  /\ \A i \in indvar : \E l \in FoundLoops \cup ({current} \ {NoLoop}) : i \in Reached(l)
  /\ current = NoLoop =>
       Cardinality({i \in indvar : Addition(i)}) <= Cardinality(FoundLoops)

\* The strengthening behind its proof: a search is under way only for a loop whose
\* exits are collected, it works on that loop's code with its own invariant, its
\* marks are in the module, and no search has ended yet for that loop.
SearchInv ==
  /\ Search!TypeOK /\ Search!Waiting /\ Search!StackChain
  /\ Search!OneUpdate /\ Search!LastMarked /\ Search!FlowInv

OneSearch ==
  /\ M \in Programs
  /\ verdict \in [M.loops -> {"none", "found", "notfound"}]
  /\ \A l \in M.loops :
       phase[l] \in {"unvisited", "subloops", "exits"} => verdict[l] = "none"
  /\ current \in M.loops \cup {NoLoop}
  /\ current # NoLoop =>
       /\ phase[current] = "exits"
       /\ P = LoopIR(current)
       /\ SearchInv
       /\ marked \subseteq indvar

\* The additions marked by the search under way.
Unaccounted == {i \in marked : current # NoLoop /\ Addition(i)}

Accounted ==
  /\ \A l \in FoundLoops : UpdateKept(l)
  /\ \A i \in indvar :
       \/ \E l \in FoundLoops : i \in Reached(l)
       \/ current # NoLoop /\ i \in marked
  /\ IsFiniteSet(indvar)
  /\ Cardinality({i \in indvar : Addition(i)})
       <= Cardinality(FoundLoops) + IF Unaccounted = {} THEN 0 ELSE 1

\* The pass crashes for a reason: the flow into some loop's compare is cyclic or
\* comes through a pointer that is no instruction, or the stack has no room for
\* the loads of the loop's function.
CrashExplained ==
  status = "crashed" => \E l \in M.loops :
    ~ Harmless(l) \/ StackLimit <= Cardinality(Flow(l)!AllLoads)

\* The search that died is the one under way.
Crashed == status = "crashed" => current # NoLoop /\ search \in {"nullderef", "overflow"}

\* On a module where no flow into a header compare is cyclic or comes through a
\* pointer that is no instruction, the pass goes through all functions and
\* returns: no order of loops, and no marks of earlier ones, make it crash.
HarmlessFinishes == (\A l \in M.loops : Harmless(l)) => <>Finished

=============================================================================
