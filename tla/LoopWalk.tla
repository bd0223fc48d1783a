------------------------------ MODULE LoopWalk ------------------------------
(***************************************************************************)
(* The traversal of custom_loop_analysis.cpp: CustomLoopAnalysis visits    *)
(* the functions of the module in order, skips declarations, computes      *)
(* LoopInfo for each body and calls AnalyzeLoop on every top-level loop;   *)
(* AnalyzeLoop counts the loop, recurses into the sub-loops, collects the  *)
(* exit blocks, searches the induction-variable update and tags the back   *)
(* edges.                                                                  *)
(*                                                                         *)
(* The C++ call stack is `phase': the loops that are neither "unvisited"   *)
(* nor "done" are the AnalyzeLoop frames, and a frame in phase "subloops"  *)
(* is inside its for loop (lines 488-490).  Module IndVarSearch models     *)
(* the search itself; here it returns or takes the process down.           *)
(*                                                                         *)
(* A definition named Op_Variant is a faulty form of Op, used to check     *)
(* that the properties notice it; no specification refers to it.           *)
(***************************************************************************)
EXTENDS Naturals, FiniteSets

CONSTANTS
  Programs,    \* the modules parseIRFile can return, as records (see WellFormed)
  NoLoop       \* the parent of a top-level loop: LLVM's null ParentLoop

SubLoops(p, l) == {c \in p.loops : p.parent[c] = l}

\* What LoopInfo guarantees of a module's loops: they form a forest, one per
\* function body, with inner[l] the loops strictly nested in l, body[l] the
\* blocks of l and preds[l] the predecessors of its header, of which those in l
\* are its latches, the sources of its back edges.
WellFormed(p) ==
  /\ p.nfuncs \in Nat
  /\ p.defined \subseteq 1..p.nfuncs
  /\ IsFiniteSet(p.loops)
  /\ NoLoop \notin p.loops
  /\ p.owner \in [p.loops -> p.defined]
  /\ p.parent \in [p.loops -> p.loops \cup {NoLoop}]
  /\ p.inner \in [p.loops -> SUBSET p.loops]
  /\ p.body \in [p.loops -> SUBSET p.blocks]
  /\ p.preds \in [p.loops -> SUBSET p.blocks]
  /\ p.latches = [l \in p.loops |-> p.preds[l] \cap p.body[l]]
  /\ p.exiting \in [p.loops -> SUBSET p.blocks]
  /\ p.term \in [p.blocks -> {"br", "condbr", "switch", "ret"}]
  /\ p.located \subseteq p.blocks
  /\ \A l \in p.loops : l \notin p.inner[l]
  /\ \A l \in p.loops : p.parent[l] # NoLoop =>
       l \in p.inner[p.parent[l]]
  /\ \A l \in p.loops : \A m \in p.inner[l] :
       /\ p.owner[m] = p.owner[l]
       /\ p.inner[m] \subseteq p.inner[l]
       /\ \/ p.parent[m] = l
          \/ p.parent[m] \in p.inner[l] /\ \E c \in SubLoops(p, l) : m \in p.inner[c]
  /\ \A m \in p.loops : p.parent[m] # NoLoop =>
       \E t \in p.loops : p.parent[t] = NoLoop /\ m \in p.inner[t]

ASSUME ProgramsAssumption == \A p \in Programs : WellFormed(p)

VARIABLES
  M,           \* the module; no step of the pass changes its shape
  pc,          \* CustomLoopAnalysis: "function" or, inside the loop of line 520, "loops"
  func,        \* the function iterator of line 509
  li,          \* the loops that the function's LoopInfo object holds
  phase,       \* loop -> progress of AnalyzeLoop on it
  ExitBlocks,  \* loop -> the vector getLoopExitBlocks fills for it
  NumLoops,    \* the statistic
  backedge,    \* block -> the "backedge: " metadata of its terminator
  status       \* "running", or "crashed" when the search takes the process down

vars == <<M, pc, func, li, phase, ExitBlocks, NumLoops, backedge, status>>

Phases == {"unvisited", "subloops", "exits", "indvar", "done"}

Active(l) == phase[l] \notin {"unvisited", "done"}

Init ==
  /\ M \in Programs
  /\ pc = "function"
  /\ func = 1
  /\ li = {}
  /\ phase = [l \in M.loops |-> "unvisited"]
  /\ ExitBlocks = [l \in M.loops |-> {}]
  /\ NumLoops = 0
  /\ backedge = [b \in M.blocks |-> "none"]
  /\ status = "running"

-----------------------------------------------------------------------------
(* CustomLoopAnalysis *)

SkipDeclaration_PastEnd ==
  /\ status = "running"
  /\ pc = "function"
  /\ func \notin M.defined
  /\ func <= M.nfuncs + 1
  /\ func' = func + 1
  /\ UNCHANGED <<M, pc, li, phase, ExitBlocks, NumLoops, backedge, status>>

\* A declaration has no blocks: nothing to analyse (lines 512-514).
SkipDeclaration ==
  /\ status = "running"
  /\ pc = "function"
  /\ func \in (1..M.nfuncs) \ M.defined
  /\ func' = func + 1
  /\ UNCHANGED <<M, pc, li, phase, ExitBlocks, NumLoops, backedge, status>>

\* A fresh DominatorTree and LoopInfo for the body (lines 516-518).
AnalyzeFunction ==
  /\ status = "running"
  /\ pc = "function"
  /\ func \in M.defined
  /\ pc' = "loops"
  /\ li' = {l \in M.loops : M.owner[l] = func}
  /\ UNCHANGED <<M, func, phase, ExitBlocks, NumLoops, backedge, status>>

TopLevel == {l \in li : M.parent[l] = NoLoop}

NextFunction_Again ==
  /\ status = "running"
  /\ pc = "loops"
  /\ \A l \in TopLevel : phase[l] = "done"
  /\ pc' = "function"
  /\ li' = {}
  /\ UNCHANGED <<M, func, phase, ExitBlocks, NumLoops, backedge, status>>

\* Every top-level loop of the LoopInfo has been visited: the iterator moves on.
NextFunction ==
  /\ status = "running"
  /\ pc = "loops"
  /\ \A l \in TopLevel : phase[l] = "done"
  /\ pc' = "function"
  /\ func' = func + 1
  /\ li' = {}
  /\ UNCHANGED <<M, phase, ExitBlocks, NumLoops, backedge, status>>

-----------------------------------------------------------------------------
(* AnalyzeLoop *)

\* l is called by the loop over the LoopInfo (line 520) or by the frame of its
\* parent (line 488); either caller waits for one call at a time.
Callable(l) ==
  \/ l \in TopLevel /\ \A m \in TopLevel : ~ Active(m)
  \/ /\ M.parent[l] # NoLoop
     /\ phase[M.parent[l]] = "subloops"
     /\ \A c \in SubLoops(M, M.parent[l]) : ~ Active(c)

CountedLoops_TopLevelOnly(l) == IF M.parent[l] = NoLoop THEN NumLoops + 1 ELSE NumLoops

CountedLoops(l) == NumLoops + 1

AnalyzeLoop(l) ==
  /\ status = "running"
  /\ pc = "loops"
  /\ phase[l] = "unvisited"
  /\ Callable(l)
  /\ NumLoops' = CountedLoops(l)
  /\ phase' = [phase EXCEPT ![l] = "subloops"]
  /\ UNCHANGED <<M, pc, func, li, ExitBlocks, backedge, status>>

\* getLoopExitBlocks keeps the exiting blocks that end in a conditional branch
\* (lines 251-266); it runs once the loop over the sub-loops is over.
SubLoopsVisited_Entered(l) == \A c \in SubLoops(M, l) : phase[c] # "unvisited"

SubLoopsVisited(l) == \A c \in SubLoops(M, l) : phase[c] = "done"

ConditionalExits(l) == {b \in M.exiting[l] : M.term[b] = "condbr"}

getLoopExitBlocks(l) ==
  /\ status = "running"
  /\ phase[l] = "subloops"
  /\ SubLoopsVisited(l)
  /\ ExitBlocks' = [ExitBlocks EXCEPT ![l] = ConditionalExits(l)]
  /\ phase' = [phase EXCEPT ![l] = "exits"]
  /\ UNCHANGED <<M, pc, func, li, NumLoops, backedge, status>>

FindIndVarUpdateCandidates(l) ==
  /\ status = "running"
  /\ phase[l] = "exits"
  /\ phase' = [phase EXCEPT ![l] = "indvar"]
  /\ UNCHANGED <<M, pc, func, li, ExitBlocks, NumLoops, backedge, status>>

\* The search can dereference a null pointer (line 388) or overflow the stack
\* (line 399): see IndVarSearch.
SearchCrashes(l) ==
  /\ status = "running"
  /\ phase[l] = "exits"
  /\ status' = "crashed"
  /\ UNCHANGED <<M, pc, func, li, phase, ExitBlocks, NumLoops, backedge>>

\* AddMetadataToBackEdge on one block: every BranchInst of the block, which can
\* only be its terminator, gets the metadata (lines 466-484).
IsBranch_Conditional(b) == M.term[b] = "condbr"

IsBranch(b) == M.term[b] \in {"br", "condbr"}

AddMetadataToBackEdge(b) ==
  IF ~ IsBranch(b) THEN backedge[b]
  ELSE IF b \in M.located THEN "cla_file_line"
  ELSE "cla"

\* The predecessors of the header that the loop contains (lines 496-500).
BackEdgeSources_AllPreds(l) == M.preds[l]

BackEdgeSources(l) == {b \in M.preds[l] : b \in M.body[l]}

TagBackEdges(l) ==
  /\ status = "running"
  /\ phase[l] = "indvar"
  /\ backedge' = [b \in M.blocks |->
        IF b \in BackEdgeSources(l) THEN AddMetadataToBackEdge(b) ELSE backedge[b]]
  /\ phase' = [phase EXCEPT ![l] = "done"]
  /\ UNCHANGED <<M, pc, func, li, ExitBlocks, NumLoops, status>>

-----------------------------------------------------------------------------
Finished == pc = "function" /\ func > M.nfuncs

\* The call from main is over, one way or the other.
Return ==
  /\ Finished \/ status = "crashed"
  /\ UNCHANGED vars

Next ==
  \/ SkipDeclaration
  \/ AnalyzeFunction
  \/ NextFunction
  \/ \E l \in M.loops :
       \/ AnalyzeLoop(l)
       \/ getLoopExitBlocks(l)
       \/ FindIndVarUpdateCandidates(l)
       \/ SearchCrashes(l)
       \/ TagBackEdges(l)
  \/ Return

Spec == Init /\ [][Next]_vars

\* A single thread that nothing blocks: it keeps taking steps.
FairSpec == Spec /\ WF_vars(Next)

-----------------------------------------------------------------------------
(* Properties *)

TypeOK ==
  /\ WellFormed(M)
  /\ pc \in {"function", "loops"}
  /\ func \in 1..(M.nfuncs + 1)
  /\ li \subseteq M.loops
  /\ phase \in [M.loops -> Phases]
  /\ ExitBlocks \in [M.loops -> SUBSET M.blocks]
  /\ NumLoops \in Nat
  /\ backedge \in [M.blocks -> {"none", "cla", "cla_file_line"}]
  /\ status \in {"running", "crashed"}

\* Depth first: when the pass collects the exits of a loop, searches its
\* induction variable or tags its back edges, it is through with every loop
\* nested in it, at any depth.
InnerFirst ==
  \A l \in M.loops : phase[l] \in {"exits", "indvar", "done"} =>
    \A m \in M.inner[l] : phase[m] = "done"

\* The "backedge: " metadata is on the branches that close a back edge of an
\* analysed loop and on no other terminator, with the branch's own location,
\* also when two loops share a latch and it is written twice (line 481).
TagsExact ==
  \A b \in M.blocks :
    backedge[b] = IF \E l \in M.loops : phase[l] = "done" /\ b \in M.latches[l]
                                         /\ M.term[b] \in {"br", "condbr"}
                  THEN IF b \in M.located THEN "cla_file_line" ELSE "cla"
                  ELSE "none"

\* When CustomLoopAnalysis returns, no loop of any function was left out.
WalkComplete ==
  Finished => /\ \A l \in M.loops : phase[l] = "done"
              /\ NumLoops = Cardinality(M.loops)

-----------------------------------------------------------------------------
(* What makes these inductive. *)

\* The functions before `func' are finished and those after it untouched, and
\* LoopInfo holds the loops of the current body.
Progress ==
  /\ pc = "loops" => func \in M.defined /\ li = {l \in M.loops : M.owner[l] = func}
  /\ \A l \in M.loops : M.owner[l] < func => phase[l] = "done"
  /\ \A l \in M.loops : M.owner[l] > func => phase[l] = "unvisited"
  /\ pc = "function" => \A l \in M.loops : M.owner[l] = func => phase[l] = "unvisited"

\* NumLoops counts the loops AnalyzeLoop was entered for.
CountExact == NumLoops = Cardinality({l \in M.loops : phase[l] # "unvisited"})

IInv == TypeOK /\ Progress /\ InnerFirst /\ CountExact /\ TagsExact

-----------------------------------------------------------------------------
\* The walk implements the annotation of the loops one by one: a loop counts as
\* annotated when AnalyzeLoop has returned for it.
Annotation == INSTANCE LoopAnnotation
                WITH annotated <- {l \in M.loops : phase[l] = "done"}

AnnotatesLoops == Annotation!ASpec

\* The walk ends: CustomLoopAnalysis returns, unless a search crashed.
WalkTerminates == <>(Finished \/ status = "crashed")

=============================================================================
