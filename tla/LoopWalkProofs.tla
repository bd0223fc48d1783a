--------------------------- MODULE LoopWalkProofs ---------------------------
(***************************************************************************)
(* Proofs about LoopWalk, for every set of modules whose loops satisfy     *)
(* WellFormed: any number of functions, loops and nesting depths.          *)
(***************************************************************************)
EXTENDS LoopWalk, FiniteSetTheorems, TLAPS

\* The facts about a module's loops that the steps below use.
LEMMA Forest ==
  ASSUME TypeOK
  PROVE  /\ M.nfuncs \in Nat /\ M.defined \subseteq 1..M.nfuncs
         /\ IsFiniteSet(M.loops)
         /\ \A l \in M.loops : M.owner[l] \in M.defined /\ M.inner[l] \subseteq M.loops
         /\ \A l \in M.loops : l \notin M.inner[l]
         /\ \A l \in M.loops : M.parent[l] # NoLoop =>
              M.parent[l] \in M.loops /\ l \in M.inner[M.parent[l]]
         /\ \A l \in M.loops : \A m \in M.inner[l] :
              /\ M.owner[m] = M.owner[l]
              /\ M.inner[m] \subseteq M.inner[l]
              /\ M.parent[m] = l \/ M.parent[m] \in M.inner[l]
              /\ M.parent[m] = l \/ \E c \in SubLoops(M, l) : m \in M.inner[c]
         /\ \A l \in M.loops : M.latches[l] = {b \in M.preds[l] : b \in M.body[l]}
         /\ \A m \in M.loops : M.parent[m] # NoLoop =>
              \E t \in M.loops : M.parent[t] = NoLoop /\ m \in M.inner[t]
  BY DEF TypeOK, WellFormed

\* A frame of AnalyzeLoop belongs to the function being visited.
LEMMA FrameOwner ==
  ASSUME TypeOK, Progress, NEW l \in M.loops, Active(l)
  PROVE  M.owner[l] = func /\ pc = "loops" /\ l \in li
  BY Forest DEF TypeOK, Progress, Active

\* A loop that line 488 or line 520 can call next is one of the function being
\* visited.
LEMMA CallableOwner ==
  ASSUME TypeOK, Progress, pc = "loops", NEW l \in M.loops, Callable(l)
  PROVE  M.owner[l] = func
<1>1. CASE l \in TopLevel
  BY <1>1, Forest DEF TypeOK, Progress, TopLevel
<1>2. CASE M.parent[l] # NoLoop /\ phase[M.parent[l]] = "subloops"
  BY <1>2, Forest, FrameOwner DEF Active
<1>3. QED
  BY <1>1, <1>2 DEF Callable

\* Every step of the walk keeps the variables within their types.
LEMMA TypeStep ==
  ASSUME TypeOK, Progress, [Next]_vars
  PROVE  TypeOK'
<1> USE DEF TypeOK, Phases
<1>1. CASE SkipDeclaration
  BY <1>1, Forest DEF SkipDeclaration
<1>2. CASE AnalyzeFunction
  BY <1>2 DEF AnalyzeFunction
<1>3. CASE NextFunction
  BY <1>3, Forest DEF NextFunction, Progress
<1>4. ASSUME NEW l \in M.loops, AnalyzeLoop(l) PROVE TypeOK'
  BY <1>4 DEF AnalyzeLoop, CountedLoops
<1>5. ASSUME NEW l \in M.loops, getLoopExitBlocks(l) PROVE TypeOK'
  BY <1>5 DEF getLoopExitBlocks, ConditionalExits, WellFormed
<1>6. ASSUME NEW l \in M.loops, FindIndVarUpdateCandidates(l) PROVE TypeOK'
  BY <1>6 DEF FindIndVarUpdateCandidates
<1>7. ASSUME NEW l \in M.loops, SearchCrashes(l) PROVE TypeOK'
  BY <1>7 DEF SearchCrashes
<1>8. ASSUME NEW l \in M.loops, TagBackEdges(l) PROVE TypeOK'
  BY <1>8 DEF TagBackEdges, AddMetadataToBackEdge
<1>9. CASE UNCHANGED vars
  BY <1>9 DEF vars
<1>10. QED
  BY <1>1, <1>2, <1>3, <1>4, <1>5, <1>6, <1>7, <1>8, <1>9 DEF Next, Return

\* NextFunction is the one delicate step: the guard only says that the
\* top-level loops are done, and InnerFirst carries that to the nested ones.
LEMMA ProgressStep ==
  ASSUME TypeOK, Progress, InnerFirst, [Next]_vars
  PROVE  Progress'
<1> USE Forest DEF TypeOK, Progress
<1>1. CASE SkipDeclaration
  BY <1>1 DEF SkipDeclaration
<1>2. CASE AnalyzeFunction
  BY <1>2 DEF AnalyzeFunction
<1>3. CASE NextFunction
  <2>1. ASSUME NEW l \in M.loops, M.owner[l] = func PROVE phase[l] = "done"
    <3>1. CASE M.parent[l] = NoLoop
      BY <3>1, <2>1, <1>3 DEF NextFunction, TopLevel
    <3>2. CASE M.parent[l] # NoLoop
      <4>1. PICK t \in M.loops : M.parent[t] = NoLoop /\ l \in M.inner[t]
        BY <3>2
      <4>2. t \in TopLevel
        BY <4>1, <2>1, <1>3 DEF NextFunction, TopLevel
      <4>3. QED
        BY <4>1, <4>2, <1>3 DEF NextFunction, InnerFirst
    <3>3. QED
      BY <3>1, <3>2
  <2>2. QED
    BY <2>1, <1>3 DEF NextFunction
<1>4. ASSUME NEW l \in M.loops, AnalyzeLoop(l) PROVE Progress'
  BY <1>4, CallableOwner DEF AnalyzeLoop
<1>5. ASSUME NEW l \in M.loops, getLoopExitBlocks(l) PROVE Progress'
  BY <1>5, FrameOwner DEF getLoopExitBlocks, Active
<1>6. ASSUME NEW l \in M.loops, FindIndVarUpdateCandidates(l) PROVE Progress'
  BY <1>6, FrameOwner DEF FindIndVarUpdateCandidates, Active
<1>7. ASSUME NEW l \in M.loops, SearchCrashes(l) PROVE Progress'
  BY <1>7 DEF SearchCrashes
<1>8. ASSUME NEW l \in M.loops, TagBackEdges(l) PROVE Progress'
  BY <1>8, FrameOwner DEF TagBackEdges, Active
<1>9. CASE UNCHANGED vars
  BY <1>9 DEF vars
<1>10. QED
  BY <1>1, <1>2, <1>3, <1>4, <1>5, <1>6, <1>7, <1>8, <1>9 DEF Next, Return

\* A loop leaves its loop over the sub-loops (line 490) only when each of them is
\* done, and with it whatever is nested in it.
LEMMA InnerFirstStep ==
  ASSUME TypeOK, InnerFirst, [Next]_vars
  PROVE  InnerFirst'
<1> USE Forest DEF TypeOK, InnerFirst
<1>1. CASE SkipDeclaration
  BY <1>1 DEF SkipDeclaration
<1>2. CASE AnalyzeFunction
  BY <1>2 DEF AnalyzeFunction
<1>3. CASE NextFunction
  BY <1>3 DEF NextFunction
<1>4. ASSUME NEW l \in M.loops, AnalyzeLoop(l) PROVE InnerFirst'
  BY <1>4 DEF AnalyzeLoop
<1>5. ASSUME NEW l \in M.loops, getLoopExitBlocks(l) PROVE InnerFirst'
  <2>1. ASSUME NEW m \in M.inner[l] PROVE phase[m] = "done"
    BY <1>5 DEF getLoopExitBlocks, SubLoopsVisited, SubLoops
  <2>2. QED
    BY <2>1, <1>5 DEF getLoopExitBlocks
<1>6. ASSUME NEW l \in M.loops, FindIndVarUpdateCandidates(l) PROVE InnerFirst'
  BY <1>6 DEF FindIndVarUpdateCandidates
<1>7. ASSUME NEW l \in M.loops, SearchCrashes(l) PROVE InnerFirst'
  BY <1>7 DEF SearchCrashes
<1>8. ASSUME NEW l \in M.loops, TagBackEdges(l) PROVE InnerFirst'
  BY <1>8 DEF TagBackEdges
<1>9. CASE UNCHANGED vars
  BY <1>9 DEF vars
<1>10. QED
  BY <1>1, <1>2, <1>3, <1>4, <1>5, <1>6, <1>7, <1>8, <1>9 DEF Next, Return

\* Line 487 counts a loop in the step that first visits it.
LEMMA CountStep ==
  ASSUME TypeOK, CountExact, [Next]_vars
  PROVE  CountExact'
<1> DEFINE Entered == {l \in M.loops : phase[l] # "unvisited"}
<1> USE DEF TypeOK, CountExact
<1>0. IsFiniteSet(Entered)
  BY Forest, FS_Subset
<1>1. CASE UNCHANGED <<M, phase, NumLoops>>
  BY <1>1
<1>2. ASSUME NEW l \in M.loops, AnalyzeLoop(l) PROVE CountExact'
  <2>1. Entered' = Entered \cup {l} /\ l \notin Entered
    BY <1>2 DEF AnalyzeLoop
  <2>2. Cardinality(Entered') = Cardinality(Entered) + 1
    BY <1>0, <2>1, FS_AddElement
  <2>3. QED
    BY <2>2, <1>2 DEF AnalyzeLoop, CountedLoops
<1>3. ASSUME NEW l \in M.loops,
             \/ getLoopExitBlocks(l) \/ FindIndVarUpdateCandidates(l) \/ TagBackEdges(l)
      PROVE  CountExact'
  <2>1. Entered' = Entered /\ NumLoops' = NumLoops
    BY <1>3 DEF getLoopExitBlocks, FindIndVarUpdateCandidates, TagBackEdges
  <2>2. QED
    BY <2>1
<1>4. QED
  BY <1>1, <1>2, <1>3 DEF Next, SkipDeclaration, AnalyzeFunction, NextFunction,
                          SearchCrashes, Return, vars

\* Lines 496-500 tag the latches of the loop that the same step finishes.
LEMMA TagsStep ==
  ASSUME TypeOK, TagsExact, [Next]_vars
  PROVE  TagsExact'
<1> USE DEF TypeOK, TagsExact
<1>1. CASE UNCHANGED <<M, phase, backedge>>
  BY <1>1
<1>2. ASSUME NEW l \in M.loops, TagBackEdges(l) PROVE TagsExact'
  BY <1>2, Forest DEF TagBackEdges, BackEdgeSources, AddMetadataToBackEdge, IsBranch
<1>3. ASSUME NEW l \in M.loops,
             \/ AnalyzeLoop(l) \/ getLoopExitBlocks(l) \/ FindIndVarUpdateCandidates(l)
      PROVE  TagsExact'
  <2>1. /\ M' = M /\ backedge' = backedge
        /\ \A k \in M.loops : phase'[k] = "done" <=> phase[k] = "done"
    BY <1>3 DEF AnalyzeLoop, getLoopExitBlocks, FindIndVarUpdateCandidates
  <2>2. QED
    BY <2>1
<1>4. QED
  BY <1>1, <1>2, <1>3 DEF Next, SkipDeclaration, AnalyzeFunction, NextFunction,
                          SearchCrashes, Return, vars

\* CustomLoopAnalysis starts in the invariant.
LEMMA InitInv == Init => IInv
<1> SUFFICES ASSUME Init PROVE IInv
  OBVIOUS
<1>1. TypeOK
  BY ProgramsAssumption DEF Init, TypeOK, WellFormed, Phases
<1>2. CountExact
  <2>1. {l \in M.loops : phase[l] # "unvisited"} = {}
    BY DEF Init
  <2>2. QED
    BY <2>1, FS_EmptySet DEF Init, CountExact
<1>3. Progress
  BY <1>1, Forest DEF Init, Progress
<1>4. QED
  BY <1>1, <1>2, <1>3, Forest
  DEF Init, IInv, InnerFirst, TagsExact, Active

\* The inductive invariant: with the progress of the function iterator, the order
\* in which loops are finished, the count and the tags are kept by every step.
THEOREM InductiveInvariant == Spec => []IInv
<1>1. IInv /\ [Next]_vars => IInv'
  BY TypeStep, ProgressStep, InnerFirstStep, CountStep, TagsStep DEF IInv
<1>2. QED
  BY InitInv, <1>1, PTL DEF Spec

\* Type correctness: every step of the walk keeps each variable in its type and
\* leaves the module it works on well-formed.
THEOREM TypeCorrect == Spec => []TypeOK
<1>1. IInv => TypeOK
  BY DEF IInv
<1>2. QED
  BY InductiveInvariant, <1>1, PTL

\* Depth first (lines 488-490): past its own loop over the sub-loops, a call of
\* AnalyzeLoop finds every loop nested in its loop finished, at any depth.
THEOREM InnerFirstCorrect == Spec => []InnerFirst
<1>1. IInv => InnerFirst
  BY DEF IInv
<1>2. QED
  BY InductiveInvariant, <1>1, PTL

\* When CustomLoopAnalysis returns it has analysed every loop of every function
\* body, and the NumLoops statistic is their number.
THEOREM WalkCompleteCorrect == Spec => []WalkComplete
<1>1. IInv => WalkComplete
  <2> SUFFICES ASSUME IInv, Finished
               PROVE  /\ \A l \in M.loops : phase[l] = "done"
                      /\ NumLoops = Cardinality(M.loops)
    BY DEF WalkComplete
  <2>1. \A l \in M.loops : phase[l] = "done"
    BY Forest DEF IInv, TypeOK, Finished, Progress
  <2>2. {l \in M.loops : phase[l] # "unvisited"} = M.loops
    BY <2>1
  <2>3. QED
    BY <2>1, <2>2 DEF IInv, CountExact
<1>2. QED
  BY InductiveInvariant, <1>1, PTL

\* The "backedge: " metadata is exactly on the branches that close a back edge
\* of an analysed loop (lines 466-484 and 496-500).
THEOREM TagsExactCorrect == Spec => []TagsExact
<1>1. IInv => TagsExact
  BY DEF IInv
<1>2. QED
  BY InductiveInvariant, <1>1, PTL

\* The walk implements LoopAnnotation: every step either finishes one loop, all
\* of whose inner loops are finished, or changes nothing the annotation shows.
THEOREM Refinement == Spec => AnnotatesLoops
<1>1. Init => Annotation!AInit
  BY DEF Init, Annotation!AInit
<1>2. IInv /\ [Next]_vars => [Annotation!ANext]_(Annotation!avars)
  <2> SUFFICES ASSUME IInv, [Next]_vars
               PROVE  [Annotation!ANext]_(Annotation!avars)
    OBVIOUS
  <2> USE DEF IInv, TypeOK
  <2>1. CASE UNCHANGED <<M, phase, backedge>>
    BY <2>1 DEF Annotation!avars
  <2>2. ASSUME NEW l \in M.loops, TagBackEdges(l) PROVE Annotation!Annotate(l)
    BY <2>2, Forest DEF TagBackEdges, BackEdgeSources, AddMetadataToBackEdge, IsBranch,
      Annotation!Annotate, Annotation!Tagged, Annotation!Tag, InnerFirst
  <2>3. ASSUME NEW l \in M.loops,
               \/ AnalyzeLoop(l) \/ getLoopExitBlocks(l) \/ FindIndVarUpdateCandidates(l)
        PROVE  UNCHANGED Annotation!avars
    BY <2>3 DEF AnalyzeLoop, getLoopExitBlocks, FindIndVarUpdateCandidates, Annotation!avars
  <2>4. QED
    BY <2>1, <2>2, <2>3 DEF Next, SkipDeclaration, AnalyzeFunction, NextFunction,
       SearchCrashes, Return, vars, Annotation!ANext
<1>3. QED
  BY InductiveInvariant, <1>1, <1>2, PTL DEF Spec, AnnotatesLoops, Annotation!ASpec
=============================================================================
