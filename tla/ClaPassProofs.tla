--------------------------- MODULE ClaPassProofs ---------------------------
(***************************************************************************)
(* The searches of the pass account for all the marks in the module, and   *)
(* for its crashes, for every set of modules and every stack size, from    *)
(* what LoopWalkProofs shows of the walk and IndVarFlowProofs of a single  *)
(* search.                                                                 *)
(***************************************************************************)
EXTENDS ClaPass, LoopWalkProofs

-----------------------------------------------------------------------------
(* The walk *)

\* A step of the pass is a step of the walk or leaves the walk alone.
LEMMA StepSimulates == PassNext => Next \/ UNCHANGED vars
<1> SUFFICES ASSUME PassNext
             PROVE  Next \/ UNCHANGED vars
  OBVIOUS
<1>1. CASE WalkStep
  BY <1>1 DEF WalkStep, Next
<1>2. CASE SearchStep
  BY <1>2 DEF SearchStep
<1>3. ASSUME NEW l \in M.loops, BeginSearch(l)
      PROVE  UNCHANGED vars
  BY <1>3 DEF BeginSearch
<1>4. ASSUME NEW l \in M.loops, EndSearch(l)
      PROVE  Next
  BY <1>4 DEF EndSearch, Next
<1>5. ASSUME NEW l \in M.loops, SearchDies(l)
      PROVE  Next
  BY <1>5 DEF SearchDies, Next
<1>6. QED
  BY <1>1, <1>2, <1>3, <1>4, <1>5 DEF PassNext

\* Whatever the searches of lines 494 and 311-416 do to the instructions, and
\* wherever they die, the traversal around them is that of LoopWalk: all that is
\* proved of Spec in LoopWalkProofs holds of the whole pass.
LEMMA PassWalks == PassSpec => Spec
<1>1. PassInit => Init
  BY DEF PassInit
<1>2. [PassNext]_passvars => [Next]_vars
  BY StepSimulates DEF passvars
<1>3. QED
  BY <1>1, <1>2, PTL DEF PassSpec, Spec

-----------------------------------------------------------------------------
(* The search of IndVarSearch, for the loop under way *)

SP == INSTANCE IndVarFlowProofs WITH Loops <- {}, status <- search

\* The search that ClaPass instantiates takes the steps IndVarFlowProofs is about.
LEMMA SameSteps == Search!Next <=> SP!Next
  BY Zenon
  DEF Search!Operands, Search!FrameSet, Search!Frame, Search!Top, Search!Popped,
      Search!Ended, Search!CompareInstDeterminesLoopExitCondition,
      Search!IsCandidateCompare, Search!Candidate, Search!SearchOver,
      Search!isLoopInvariant, Search!IsUpdate, Search!__addMD, Search!Running,
      Search!RejectedLoad, Search!FollowedLoad, Search!PointerUsers,
      Search!StoresThrough, Search!AtUser, Search!User, Search!Advanced, Search!Callee,
      Search!Desired, Search!vars, Search!ScanHeader, Search!ScanDone,
      Search!TryCandidate, Search!SearchDone, Search!ReturnUpdate, Search!ReturnReject,
      Search!NullDereference, Search!SkipUser, Search!Recurse, Search!StackOverflow,
      Search!UsersExhausted, Search!CallSucceeded, Search!CallFailed, Search!Stopped,
      Search!Next, SP!Operands, SP!FrameSet, SP!Frame, SP!Top, SP!Popped, SP!Ended,
      SP!CompareInstDeterminesLoopExitCondition, SP!IsCandidateCompare, SP!Candidate,
      SP!SearchOver, SP!isLoopInvariant, SP!IsUpdate, SP!__addMD, SP!Running,
      SP!RejectedLoad, SP!FollowedLoad, SP!PointerUsers, SP!StoresThrough, SP!AtUser,
      SP!User, SP!Advanced, SP!Callee, SP!Desired, SP!vars, SP!ScanHeader, SP!ScanDone,
      SP!TryCandidate, SP!SearchDone, SP!ReturnUpdate, SP!ReturnReject,
      SP!NullDereference, SP!SkipUser, SP!Recurse, SP!StackOverflow, SP!UsersExhausted,
      SP!CallSucceeded, SP!CallFailed, SP!Stopped, SP!Next

\* The invariant of IndVarSearchProofs is the same in both instances.
LEMMA SameTypes ==
  /\ Search!TypeOK /\ Search!Waiting /\ Search!StackChain
  /\ Search!OneUpdate /\ Search!LastMarked
  <=>
  /\ SP!TypeOK /\ SP!Waiting /\ SP!StackChain
  /\ SP!OneUpdate /\ SP!LastMarked
  BY Zenon
  DEF Search!IsFiniteSet, SP!IsFiniteSet,
      Search!TypeOK, Search!WellFormed, Search!Operands, Search!FrameSet, Search!Ended,
      Search!StackChain, Search!OneUpdate, Search!Waiting, Search!LastMarked,
      Search!Calling, Search!Called, Search!Top, Search!Candidates,
      Search!StoredValues, SP!TypeOK, SP!WellFormed, SP!Operands, SP!FrameSet,
      SP!Ended, SP!StackChain, SP!OneUpdate, SP!Waiting, SP!LastMarked, SP!Calling,
      SP!Called, SP!Top, SP!Candidates, SP!StoredValues

\* So is that of IndVarFlowProofs.
LEMMA SameFlow == Search!FlowInv <=> SP!FlowInv
  BY Zenon
  DEF Search!Cardinality, SP!Cardinality,
      Search!FlowInv, Search!Exhausted, Search!StackReached, Search!UpdateFound,
      Search!MarkedFlow, Search!VerdictCorrect, Search!Origins, Search!Candidates,
      Search!Starts, Search!AllLoads, Search!Cyclic, Search!UnknownPointer,
      Search!IsUpdate, Search!isLoopInvariant, Search!IsCandidateCompare,
      Search!CompareInstDeterminesLoopExitCondition, Search!Called, Search!Top,
      Search!Dead, Search!Tried, Search!StoresThrough, Search!StoredValues,
      Search!Flowing, Search!ReachedFrom, SP!FlowInv, SP!Exhausted, SP!StackReached,
      SP!UpdateFound, SP!MarkedFlow, SP!VerdictCorrect, SP!Origins, SP!Candidates,
      SP!Starts, SP!AllLoads, SP!Cyclic, SP!UnknownPointer, SP!IsUpdate,
      SP!isLoopInvariant, SP!IsCandidateCompare,
      SP!CompareInstDeterminesLoopExitCondition, SP!Called, SP!Top, SP!Dead, SP!Tried,
      SP!StoresThrough, SP!StoredValues, SP!Flowing, SP!ReachedFrom

SPInv == /\ SP!TypeOK /\ SP!Waiting /\ SP!StackChain
         /\ SP!OneUpdate /\ SP!LastMarked /\ SP!FlowInv

\* SearchInv is what is proved of the search.
LEMMA SameInv == SearchInv <=> SPInv
  BY SameTypes, SameFlow, Zenon DEF SearchInv, SPInv

\* A step of the search keeps the invariant of IndVarFlowProofs.
LEMMA SearchKeeps ==
  SearchInv /\ [Search!Next]_searchvars => SearchInv' /\ marked \subseteq marked'
<1>1. SearchInv' <=> SPInv'
  BY SameInv, PTL
<1>2. ASSUME SPInv, [SP!Next]_searchvars PROVE SPInv' /\ marked \subseteq marked'
  <2>1. [SP!Next]_(SP!vars)
    BY <1>2 DEF searchvars, SP!vars
  <2>2. SPInv'
    BY <1>2, <2>1, SP!FlowStep, SearchAssumption, Zenon DEF SPInv
  <2>3. marked \subseteq marked'
    BY <2>1, SP!MarkedGrows, SearchAssumption
  <2> QED
    BY <2>2, <2>3
<1> QED
  BY <1>1, <1>2, SameInv, SameSteps, Zenon

\* The call of line 494 starts it in the invariant.
LEMMA SearchStarts ==
  Search!WellFormed(P) /\ scan = 1 /\ NonConstOps = <<>> /\ cand = 1
    /\ stack = <<>> /\ ret = "none" /\ marked = {} /\ search = "scanning" => SearchInv
<1> SUFFICES ASSUME Search!WellFormed(P), scan = 1, NonConstOps = <<>>, cand = 1,
                    stack = <<>>, ret = "none", marked = {}, search = "scanning"
             PROVE  SPInv
  BY SameInv
<1>1. SP!WellFormed(P)
  BY Zenon DEF Search!WellFormed, SP!WellFormed, Search!Operands, SP!Operands,
               Search!IsFiniteSet, SP!IsFiniteSet
<1>2. SP!IInv
  BY <1>1, SP!StartInv, SearchAssumption
<1>3. SP!FlowInv
  BY SP!FlowStart, SearchAssumption
<1> QED
  BY <1>2, <1>3 DEF SPInv, SP!IInv

-----------------------------------------------------------------------------
(* The code of a loop *)

\* The exit blocks collected for a loop do not make its code ill-formed.
LEMMA CodeWellFormed ==
  ASSUME M \in Programs, NEW l \in M.loops
  PROVE  Search!WellFormed(LoopIR(l))
<1> DEFINE p == IROf(M, l, {})
           q == IROf(M, l, ExitBlocks[l])
<1>1. Search!WellFormed(p)
  BY CodeAssumption
<1>2. /\ q.ins = p.ins /\ q.op = p.op /\ q.arg0 = p.arg0 /\ q.arg1 = p.arg1
      /\ q.users = p.users /\ q.volatile = p.volatile /\ q.located = p.located
      /\ q.inLoop = p.inLoop /\ q.header = p.header
      /\ q.inExit \subseteq q.ins
  BY DEF IROf
<1> HIDE DEF p, q
<1>3. Search!WellFormed(q)
  BY <1>1, <1>2 DEF Search!WellFormed, Search!Operands
<1> QED
  BY <1>3 DEF q, LoopIR

\* What the search reads of it does not change with the exit blocks.
LEMMA SameCode ==
  ASSUME M' = M, NEW l
  PROVE  /\ Reached(l)' = Reached(l)
         /\ \A u : Flow(l)!IsUpdate(u)' <=> Flow(l)!IsUpdate(u)
         /\ LoopIR(l)'.located = LoopIR(l).located
         /\ LoopIR(l)'.ins = LoopIR(l).ins /\ LoopIR(l)'.op = LoopIR(l).op
<1> DEFINE p == LoopIR(l)
           q == LoopIR(l)'
<1>1. /\ q.ins = p.ins /\ q.op = p.op /\ q.arg0 = p.arg0 /\ q.arg1 = p.arg1
      /\ q.users = p.users /\ q.volatile = p.volatile /\ q.located = p.located
      /\ q.inLoop = p.inLoop /\ q.header = p.header
  BY DEF LoopIR, IROf
<1> HIDE DEF p, q
<1>2. \A i : Flow(l)!StoredValues(i)' = Flow(l)!StoredValues(i)
  BY <1>1 DEF Flow!StoredValues, p, q
<1>3. Flow(l)!Flowing' = Flow(l)!Flowing
  BY <1>1, <1>2 DEF Flow!Flowing, p, q
<1>4. \A S : Flow(l)!ReachedFrom(S)' = Flow(l)!ReachedFrom(S)
  BY <1>2, <1>3 DEF Flow!ReachedFrom
<1>5. Flow(l)!Starts' = Flow(l)!Starts
  BY <1>1 DEF Flow!Starts, Flow!IsCandidateCompare,
              Flow!CompareInstDeterminesLoopExitCondition, p, q
<1>6. \A u : Flow(l)!IsUpdate(u)' <=> Flow(l)!IsUpdate(u)
  BY <1>1 DEF Flow!IsUpdate, Flow!isLoopInvariant, p, q
<1> QED
  BY <1>1, <1>4, <1>5, <1>6 DEF Reached, p, q

\* The flow the search under way follows is that of its loop.
LEMMA SearchedFlow ==
  ASSUME NEW l, P = LoopIR(l)
  PROVE  /\ Reached(l) = SP!ReachedFrom(SP!Starts)
         /\ \A u : Flow(l)!IsUpdate(u) <=> SP!IsUpdate(u)
         /\ \A i : Flow(l)!UnknownPointer(i) <=> SP!UnknownPointer(i)
         /\ \A i : Flow(l)!Cyclic(i) <=> SP!Cyclic(i)
         /\ Flow(l)!AllLoads = SP!AllLoads
<1>1. \A i : Flow(l)!StoredValues(i) = SP!StoredValues(i)
  BY DEF Flow!StoredValues, SP!StoredValues
<1>2. Flow(l)!Flowing = SP!Flowing
  BY <1>1 DEF Flow!Flowing, SP!Flowing
<1>3. \A S : Flow(l)!ReachedFrom(S) = SP!ReachedFrom(S)
  BY <1>1, <1>2 DEF Flow!ReachedFrom, SP!ReachedFrom
<1>4. Flow(l)!Starts = SP!Starts
  BY DEF Flow!Starts, Flow!IsCandidateCompare, SP!Starts, SP!IsCandidateCompare,
         Flow!CompareInstDeterminesLoopExitCondition,
         SP!CompareInstDeterminesLoopExitCondition
<1>5. \A u : Flow(l)!IsUpdate(u) <=> SP!IsUpdate(u)
  BY DEF Flow!IsUpdate, SP!IsUpdate, Flow!isLoopInvariant, SP!isLoopInvariant
<1>6. \A i : Flow(l)!UnknownPointer(i) <=> SP!UnknownPointer(i)
  BY DEF Flow!UnknownPointer, SP!UnknownPointer
<1>7. \A i : Flow(l)!Cyclic(i) <=> SP!Cyclic(i)
  BY <1>1, <1>3 DEF Flow!Cyclic, SP!Cyclic
<1>8. Flow(l)!AllLoads = SP!AllLoads
  BY DEF Flow!AllLoads, SP!AllLoads
<1> QED
  BY <1>3, <1>4, <1>5, <1>6, <1>7, <1>8 DEF Reached

\* Whatever the search can reach, its loop's compares reach.
LEMMA CandidatesReach ==
  ASSUME NEW l, P = LoopIR(l), SearchInv
  PROVE  SP!ReachedFrom(SP!Candidates) \subseteq Reached(l)
<1>0. SP!TypeOK /\ SP!Origins
  BY SameInv DEF SPInv, SP!FlowInv
<1>1. SP!Starts \subseteq P.ins
  BY <1>0 DEF SP!Starts, SP!TypeOK, SP!WellFormed
<1>2. SP!Candidates \subseteq SP!ReachedFrom(SP!Starts)
  BY <1>0, SP!ReachSelf, SearchAssumption DEF SP!Origins
<1>3. SP!ReachedFrom(SP!Candidates) \subseteq SP!ReachedFrom(SP!Starts)
  BY <1>1, <1>2, SP!ReachTrans, SearchAssumption
<1>4. QED
  BY <1>3, SearchedFlow

\* What the search under way has marked flows into its loop's compare, an update
\* it has found is marked if it can be, and without one nothing is.
LEMMA SearchFacts ==
  ASSUME NEW l, P = LoopIR(l), SearchInv
  PROVE  /\ marked \subseteq Reached(l)
         /\ search = "found" => \E u \in Reached(l) :
              Flow(l)!IsUpdate(u) /\ (u \in LoopIR(l).located => u \in marked)
         /\ search = "notfound" => marked = {}
<1>1. SP!TypeOK /\ SP!OneUpdate /\ SP!UpdateFound /\ SP!Origins
  BY SameInv DEF SPInv, SP!FlowInv
<1>2. SP!ReachedFrom(SP!Candidates) \subseteq Reached(l)
  BY CandidatesReach
<1>3. marked \subseteq Reached(l)
  BY <1>1, <1>2 DEF SP!Origins
<1>4. ASSUME search = "found"
      PROVE  \E u \in Reached(l) :
               Flow(l)!IsUpdate(u) /\ (u \in LoopIR(l).located => u \in marked)
  <2>1. PICK u \in SP!ReachedFrom(SP!Candidates) :
          SP!IsUpdate(u) /\ (u \in P.located => u \in marked)
    BY <1>1, <1>4 DEF SP!Origins, SP!UpdateFound
  <2> QED
    BY <1>2, <2>1, SearchedFlow
<1>5. search = "notfound" => marked = {}
  BY <1>1 DEF SP!Origins, SP!OneUpdate
<1> QED
  BY <1>3, <1>4, <1>5

\* At most one of the marks of a search is an addition: an instruction is in one
\* function only, and OneUpdate holds of the search.
LEMMA OneAddition ==
  OneSearch /\ WellFormed(M) =>
    IsFiniteSet(Unaccounted) /\ \A i, j \in Unaccounted : i = j
<1> SUFFICES ASSUME OneSearch, WellFormed(M)
             PROVE  IsFiniteSet(Unaccounted) /\ \A i, j \in Unaccounted : i = j
  OBVIOUS
<1>1. CASE current = NoLoop
  BY <1>1, FS_EmptySet DEF Unaccounted
<1>2. CASE current # NoLoop
  <2> DEFINE l == current
  <2>1. l \in M.loops /\ P = LoopIR(l) /\ SearchInv /\ M \in Programs
    BY <1>2 DEF OneSearch
  <2>2. SP!WellFormed(P) /\ marked \subseteq P.ins /\ SP!OneUpdate
    BY <2>1, SameInv DEF SPInv, SP!TypeOK, SP!WellFormed
  <2> HIDE DEF l
  <2>3. ASSUME NEW i \in Unaccounted PROVE i \in marked /\ P.op[i] = "add"
    <3>1. PICK k \in M.loops : i \in LoopIR(k).ins /\ LoopIR(k).op[i] = "add"
      BY DEF Unaccounted, Addition
    <3>2. i \in marked
      BY DEF Unaccounted
    <3>3. i \in M.code[M.owner[l]].ins \cap M.code[M.owner[k]].ins
      BY <2>1, <2>2, <3>1, <3>2 DEF LoopIR, IROf
    <3>4. M.owner[l] \in M.defined /\ M.owner[k] \in M.defined
      BY <2>1 DEF WellFormed
    <3>5. M.owner[l] = M.owner[k]
      BY <2>1, <3>3, <3>4, CodeAssumption
    <3> QED
      BY <2>1, <3>1, <3>2, <3>5 DEF LoopIR, IROf
  <2>4. IsFiniteSet(P.ins)
    BY <2>2, Zenon DEF SP!WellFormed, SP!IsFiniteSet, IsFiniteSet
  <2>5. IsFiniteSet(Unaccounted)
    BY <2>2, <2>3, <2>4, FS_Subset
  <2> QED
    BY <2>2, <2>3, <2>5 DEF SP!OneUpdate
<1> QED
  BY <1>1, <1>2

-----------------------------------------------------------------------------
(* One search at a time *)

\* The steps of the walk leave a loop whose search is due alone, and visit no
\* loop again.
LEMMA WalkFacts ==
  ASSUME TypeOK, [Next]_vars
  PROVE  /\ M' = M
         /\ \A l \in M.loops : phase'[l] = "exits" /\ phase[l] = "exits" =>
              ExitBlocks'[l] = ExitBlocks[l]
         /\ \A l \in M.loops : phase'[l] \in {"unvisited", "subloops", "exits"} =>
              phase[l] \in {"unvisited", "subloops", "exits"}
<1> USE DEF TypeOK, Phases
<1>1. ASSUME NEW k \in M.loops,
             \/ AnalyzeLoop(k) \/ getLoopExitBlocks(k) \/ FindIndVarUpdateCandidates(k)
             \/ TagBackEdges(k)
      PROVE  /\ M' = M
             /\ \A l \in M.loops : phase'[l] = "exits" /\ phase[l] = "exits" =>
                  ExitBlocks'[l] = ExitBlocks[l]
             /\ \A l \in M.loops : phase'[l] \in {"unvisited", "subloops", "exits"} =>
                  phase[l] \in {"unvisited", "subloops", "exits"}
  BY <1>1 DEF AnalyzeLoop, getLoopExitBlocks, FindIndVarUpdateCandidates, TagBackEdges
<1>2. CASE UNCHANGED <<M, phase, ExitBlocks>>
  BY <1>2
<1> QED
  BY <1>1, <1>2 DEF Next, SkipDeclaration, AnalyzeFunction, NextFunction,
                    SearchCrashes, Return, vars

\* A loop in phase "exits" stays there in every step but the end of its search.
LEMMA WalkWaits ==
  ASSUME TypeOK, WalkStep, NEW l \in M.loops, phase[l] = "exits"
  PROVE  phase'[l] = "exits"
<1>1. ASSUME NEW k \in M.loops, AnalyzeLoop(k) \/ getLoopExitBlocks(k) \/ TagBackEdges(k)
      PROVE  phase'[l] = "exits"
  BY <1>1 DEF AnalyzeLoop, getLoopExitBlocks, TagBackEdges, TypeOK
<1> QED
  BY <1>1 DEF WalkStep, SkipDeclaration, AnalyzeFunction, NextFunction, Return, vars

\* Searches do not overlap (line 494 is a call): each step keeps OneSearch.
LEMMA OneSearchStep ==
  ASSUME TypeOK, OneSearch, [PassNext]_passvars
  PROVE  OneSearch'
<1>0. [Next]_vars
  BY StepSimulates DEF passvars
<1>1. M' = M /\ M \in Programs /\ NoLoop \notin M.loops
  BY <1>0, WalkFacts DEF OneSearch, TypeOK, WellFormed
\* The walk moves, the search does not.
<1>2. ASSUME UNCHANGED <<searchvars, current, verdict, indvar>>,
             current # NoLoop => phase'[current] = "exits"
      PROVE  OneSearch'
  <2>1. \A l \in M.loops :
          phase'[l] \in {"unvisited", "subloops", "exits"} => verdict'[l] = "none"
    BY <1>0, <1>2, WalkFacts DEF OneSearch
  <2>2. CASE current = NoLoop
    BY <1>1, <1>2, <2>1, <2>2 DEF OneSearch
  <2>3. ASSUME NEW l \in M.loops, current = l
        PROVE  OneSearch'
    <3>1. phase[l] = "exits" /\ phase'[l] = "exits" /\ P = LoopIR(l) /\ SearchInv
          /\ marked \subseteq indvar
      BY <1>1, <1>2, <2>3 DEF OneSearch
    <3>2. ExitBlocks'[l] = ExitBlocks[l]
      BY <1>0, <3>1, WalkFacts
    <3>3. P' = LoopIR(l)'
      BY <1>1, <1>2, <3>1, <3>2 DEF LoopIR, searchvars
    <3>4. SearchInv'
      BY <1>2, <3>1, SearchKeeps
    <3>5. marked' \subseteq indvar'
      BY <1>2, <3>1 DEF searchvars
    <3>6. P' = LoopIR(current)'
      BY <1>2, <2>3, <3>3 DEF LoopIR
    <3> QED
      BY <1>1, <1>2, <2>1, <2>3, <3>1, <3>4, <3>5, <3>6 DEF OneSearch
  <2> QED
    BY <2>2, <2>3 DEF OneSearch
<1>3. CASE WalkStep
  <2>1. UNCHANGED <<searchvars, current, verdict, indvar>>
    BY <1>3 DEF WalkStep
  <2>2. current # NoLoop => phase'[current] = "exits"
    BY <1>3, WalkWaits DEF OneSearch
  <2> QED
    BY <1>2, <2>1, <2>2
<1>4. CASE UNCHANGED passvars
  <2>1. UNCHANGED <<searchvars, current, verdict, indvar>> /\ phase' = phase
    BY <1>4 DEF passvars, vars
  <2> QED
    BY <1>2, <2>1 DEF OneSearch
<1>5. ASSUME NEW l \in M.loops, SearchDies(l)
      PROVE  OneSearch'
  <2>1. UNCHANGED <<searchvars, current, verdict, indvar>> /\ phase' = phase
    BY <1>5 DEF SearchDies, SearchCrashes
  <2> QED
    BY <1>2, <2>1 DEF OneSearch
<1>6. ASSUME NEW l \in M.loops, BeginSearch(l)
      PROVE  OneSearch'
  <2>1. /\ UNCHANGED <<phase, ExitBlocks, verdict, indvar>> /\ phase[l] = "exits"
        /\ current' = l /\ P' = LoopIR(l) /\ marked' = {}
    BY <1>6 DEF BeginSearch, vars
  <2>2. P' = LoopIR(l)'
    BY <1>1, <2>1 DEF LoopIR
  <2>3. Search!WellFormed(P)'
    <3>1. Search!WellFormed(LoopIR(l))
      BY <1>1, CodeWellFormed
    <3> QED
      BY <2>1, <3>1 DEF Search!WellFormed, Search!Operands
  <2>4. SearchInv'
    <3>1. (Search!WellFormed(P) /\ scan = 1 /\ NonConstOps = <<>> /\ cand = 1
             /\ stack = <<>> /\ ret = "none" /\ marked = {} /\ search = "scanning")'
          => SearchInv'
      BY SearchStarts, PTL
    <3> QED
      BY <2>3, <3>1, <1>6 DEF BeginSearch
  <2>5. P' = LoopIR(current)'
    BY <2>1, <2>2 DEF LoopIR
  <2> QED
    BY <1>1, <2>1, <2>4, <2>5 DEF OneSearch
<1>7. CASE SearchStep
  <2>1. /\ UNCHANGED <<phase, ExitBlocks, current, verdict>> /\ current # NoLoop
        /\ Search!Next /\ indvar' = indvar \cup marked'
    BY <1>7 DEF SearchStep, vars, Annotated
  <2>2. SearchInv /\ P = LoopIR(current)
    BY <2>1 DEF OneSearch
  <2>3. SearchInv'
    BY <2>1, <2>2, SearchKeeps
  <2>4. P' = P
    BY <2>1, SameSteps, SP!SameFunction, SearchAssumption
  <2>5. P' = LoopIR(current)'
    BY <1>1, <2>1, <2>2, <2>4 DEF LoopIR
  <2> QED
    BY <1>1, <2>1, <2>3, <2>5 DEF OneSearch
<1>8. ASSUME NEW l \in M.loops, EndSearch(l)
      PROVE  OneSearch'
  <2>1. /\ phase' = [phase EXCEPT ![l] = "indvar"] /\ current' = NoLoop
        /\ search \in {"found", "notfound"} /\ verdict' = [verdict EXCEPT ![l] = search]
    BY <1>8 DEF EndSearch, FindIndVarUpdateCandidates
  <2> QED
    BY <1>1, <2>1 DEF OneSearch, TypeOK
<1> QED
  BY <1>3, <1>4, <1>5, <1>6, <1>7, <1>8 DEF PassNext

-----------------------------------------------------------------------------
(* The marks are accounted for *)

\* Additions are what they were: no step changes the code.
LEMMA SameAdditions ==
  ASSUME M' = M
  PROVE  /\ \A i : Addition(i)' <=> Addition(i)
         /\ \A l : Reached(l)' = Reached(l)
<1>1. \A l : /\ LoopIR(l)'.ins = LoopIR(l).ins /\ LoopIR(l)'.op = LoopIR(l).op
             /\ Reached(l)' = Reached(l)
  BY SameCode
<1>2. \A i : Addition(i)' <=> Addition(i)
  BY <1>1 DEF Addition
<1> QED
  BY <1>1, <1>2

\* A found update stays marked while marks are only added (line 202).
LEMMA StaysKept ==
  ASSUME M' = M, indvar \subseteq indvar', NEW l, UpdateKept(l)
  PROVE  UpdateKept(l)'
<1>1. PICK u \in Reached(l) :
        Flow(l)!IsUpdate(u) /\ (u \in LoopIR(l).located => u \in indvar)
  BY DEF UpdateKept
<1>2. /\ u \in Reached(l)' /\ Flow(l)!IsUpdate(u)'
      /\ u \in LoopIR(l)'.located => u \in indvar'
  BY <1>1, SameCode
<1> QED
  BY <1>2 DEF UpdateKept

\* Nothing is marked and no search ends.
LEMMA QuietAccounted ==
  ASSUME Accounted, M' = M, UNCHANGED <<verdict, indvar>>,
         UNCHANGED <<marked, current>> \/ (current = NoLoop /\ marked' = {})
  PROVE  Accounted'
<1>1. FoundLoops' = FoundLoops
  BY DEF FoundLoops
<1>2. Unaccounted' = Unaccounted
  BY SameAdditions DEF Unaccounted
<1>3. {i \in indvar : Addition(i)}' = {i \in indvar : Addition(i)}
  BY SameAdditions
<1>4. \A l \in FoundLoops' : UpdateKept(l)'
  BY <1>1, StaysKept DEF Accounted
<1>5. ASSUME NEW i \in indvar'
      PROVE  \/ \E l \in FoundLoops' : i \in Reached(l)'
             \/ current' # NoLoop /\ i \in marked'
  BY <1>1, SameAdditions DEF Accounted
<1> QED
  BY <1>1, <1>2, <1>3, <1>4, <1>5 DEF Accounted

\* A step of the search adds at most one addition to the module's marks, and that
\* only if it had added none before.
LEMMA SearchAccounted ==
  ASSUME TypeOK, OneSearch, OneSearch', Accounted, SearchStep
  PROVE  Accounted'
<1> DEFINE A == {i \in indvar : Addition(i)}
           n == Cardinality(FoundLoops)
<1>1. /\ M' = M /\ current' = current /\ verdict' = verdict /\ current # NoLoop
      /\ Search!Next /\ indvar' = indvar \cup marked'
  BY DEF SearchStep, vars, Annotated
<1>2. marked \subseteq indvar /\ SearchInv /\ marked' \subseteq indvar'
  BY <1>1 DEF OneSearch
<1>3. marked \subseteq marked'
  BY <1>1, <1>2, SearchKeeps
<1>4. FoundLoops' = FoundLoops
  BY <1>1 DEF FoundLoops
<1>5. \A l \in FoundLoops' : UpdateKept(l)'
  BY <1>1, <1>4, StaysKept DEF Accounted
<1>6. ASSUME NEW i \in indvar'
      PROVE  \/ \E l \in FoundLoops' : i \in Reached(l)'
             \/ current' # NoLoop /\ i \in marked'
  BY <1>1, <1>3, <1>4, SameAdditions DEF Accounted
<1>7. IsFiniteSet(indvar')
  <2>1. SearchInv'
    BY <1>1 DEF OneSearch
  <2>2. SPInv'
    BY <2>1, SameInv, PTL
  <2>3. SP!WellFormed(P)' /\ marked' \subseteq P'.ins
    BY <2>2 DEF SPInv, SP!TypeOK, SP!WellFormed
  <2>4. IsFiniteSet(P'.ins)
    BY <2>3, Zenon DEF SP!WellFormed, SP!IsFiniteSet, IsFiniteSet
  <2>5. IsFiniteSet(marked')
    BY <2>3, <2>4, FS_Subset
  <2> QED
    BY <1>1, <2>5, FS_Union DEF Accounted
<1>8. A' = A \cup Unaccounted'
  BY <1>1, SameAdditions DEF Unaccounted
<1>9. /\ IsFiniteSet(A) /\ Cardinality(A) \in Nat /\ n \in Nat
      /\ Cardinality(A) <= n + IF Unaccounted = {} THEN 0 ELSE 1
  <2>1. IsFiniteSet(indvar) /\ A \in SUBSET indvar
    BY DEF Accounted
  <2>2. IsFiniteSet(FoundLoops)
    BY Forest, FS_Subset DEF FoundLoops, TypeOK, WellFormed
  <2> QED
    BY <2>1, <2>2, FS_Subset, FS_CardinalityType DEF Accounted
<1>10. \A i, j \in Unaccounted' : i = j
  <2>1. (OneSearch /\ WellFormed(M) =>
           IsFiniteSet(Unaccounted) /\ \A i, j \in Unaccounted : i = j)'
    BY OneAddition, PTL
  <2>2. WellFormed(M)'
    BY <1>1 DEF TypeOK, WellFormed
  <2> QED
    BY <2>1, <2>2
<1>11. Unaccounted \subseteq Unaccounted' /\ Unaccounted \subseteq A
  BY <1>1, <1>2, <1>3, SameAdditions DEF Unaccounted
<1>12. Cardinality(A') <= n + IF Unaccounted' = {} THEN 0 ELSE 1
  <2> HIDE DEF A, n
  <2>1. CASE Unaccounted' \subseteq A
    <3>1. A' = A
      BY <1>8, <2>1
    <3>2. Unaccounted' = {} => Unaccounted = {}
      BY <1>11
    <3> QED
      BY <1>9, <3>1, <3>2
  <2>2. CASE ~ (Unaccounted' \subseteq A)
    <3>1. PICK a \in Unaccounted' : a \notin A
      BY <2>2
    <3>2. Unaccounted' = {a}
      BY <1>10, <3>1
    <3>3. Unaccounted = {}
      BY <1>11, <3>1, <3>2
    <3>4. Cardinality(A') = Cardinality(A) + 1
      BY <1>8, <1>9, <3>1, <3>2, FS_AddElement
    <3> QED
      BY <1>9, <3>2, <3>3, <3>4
  <2> QED
    BY <2>1, <2>2
<1> QED
  BY <1>4, <1>5, <1>6, <1>7, <1>12 DEF Accounted

\* A search that ends with "found" pays for the addition it may have marked; one
\* that ends with "notfound" has marked nothing.
LEMMA EndAccounted ==
  ASSUME TypeOK, OneSearch, Accounted, NEW l \in M.loops, EndSearch(l)
  PROVE  Accounted'
<1> DEFINE A == {i \in indvar : Addition(i)}
<1>1. /\ M' = M /\ current = l /\ current' = NoLoop /\ indvar' = indvar
      /\ search \in {"found", "notfound"} /\ verdict' = [verdict EXCEPT ![l] = search]
  BY DEF EndSearch, FindIndVarUpdateCandidates
<1>2. /\ l # NoLoop /\ P = LoopIR(l) /\ SearchInv /\ verdict[l] = "none"
      /\ verdict \in [M.loops -> {"none", "found", "notfound"}] /\ marked \subseteq indvar
  BY <1>1 DEF OneSearch, TypeOK, WellFormed
<1>3. FoundLoops' = IF search = "found" THEN FoundLoops \cup {l} ELSE FoundLoops
  BY <1>1, <1>2 DEF FoundLoops
<1>4. l \notin FoundLoops
  BY <1>2 DEF FoundLoops
<1>5. A' = A /\ Unaccounted' = {}
  BY <1>1, SameAdditions DEF Unaccounted
<1>6. search = "notfound" => Unaccounted = {}
  BY <1>2, SearchFacts DEF Unaccounted
<1>7. ASSUME NEW k \in FoundLoops' PROVE UpdateKept(k)'
  <2>1. UpdateKept(k)
    <3>1. CASE k \in FoundLoops
      BY <3>1 DEF Accounted
    <3>2. CASE k = l /\ search = "found"
      BY <1>2, <3>2, SearchFacts DEF UpdateKept
    <3> QED
      BY <1>3, <3>1, <3>2
  <2> QED
    BY <1>1, <2>1, StaysKept
<1>8. ASSUME NEW i \in indvar' PROVE \E k \in FoundLoops' : i \in Reached(k)'
  <2>1. CASE i \in marked
    <3>1. search = "found" /\ i \in Reached(l)
      BY <1>1, <1>2, <2>1, SearchFacts
    <3> QED
      BY <1>1, <1>3, <3>1, SameAdditions
  <2>2. CASE i \notin marked
    <3>1. PICK k \in FoundLoops : i \in Reached(k)
      BY <1>1, <2>2 DEF Accounted
    <3> QED
      BY <1>1, <1>3, <3>1, SameAdditions
  <2> QED
    BY <2>1, <2>2
<1>9. Cardinality(A') <= Cardinality(FoundLoops')
  <2>1. IsFiniteSet(FoundLoops)
    BY Forest, FS_Subset DEF FoundLoops, TypeOK, WellFormed
  <2>2. IsFiniteSet(A)
    BY FS_Subset DEF Accounted
  <2>3. Cardinality(FoundLoops) \in Nat /\ Cardinality(A) \in Nat
    BY <2>1, <2>2, FS_CardinalityType
  <2>4. Cardinality(A) <= Cardinality(FoundLoops) + IF Unaccounted = {} THEN 0 ELSE 1
    BY DEF Accounted
  <2> HIDE DEF A
  <2>5. CASE search = "found"
    <3>1. Cardinality(FoundLoops') = Cardinality(FoundLoops) + 1
      BY <1>3, <1>4, <2>1, <2>5, FS_AddElement
    <3> QED
      BY <1>5, <2>3, <2>4, <3>1
  <2>6. CASE search = "notfound"
    BY <1>3, <1>5, <1>6, <2>3, <2>4, <2>6
  <2> QED
    BY <1>1, <2>5, <2>6
<1>10. Cardinality(FoundLoops') + 0 = Cardinality(FoundLoops')
  <2>1. IsFiniteSet(FoundLoops')
    BY <1>1, Forest, FS_Subset DEF FoundLoops, TypeOK, WellFormed
  <2> QED
    BY <2>1, FS_CardinalityType
<1>11. IsFiniteSet(indvar')
  BY <1>1 DEF Accounted
<1> QED
  BY <1>5, <1>7, <1>8, <1>9, <1>10, <1>11 DEF Accounted

\* Each step of the pass keeps the account of marks and finds.
LEMMA AccountedStep ==
  ASSUME TypeOK, OneSearch, OneSearch', Accounted, [PassNext]_passvars
  PROVE  Accounted'
<1>0. M' = M
  BY StepSimulates, WalkFacts DEF passvars
<1>1. CASE WalkStep \/ UNCHANGED passvars
  <2>1. UNCHANGED <<verdict, indvar, marked, current>>
    BY <1>1 DEF WalkStep, searchvars, passvars
  <2> QED
    BY <1>0, <2>1, QuietAccounted
<1>2. CASE SearchStep
  BY <1>2, SearchAccounted
<1>3. ASSUME NEW l \in M.loops, BeginSearch(l) PROVE Accounted'
  BY <1>0, <1>3, QuietAccounted DEF BeginSearch
<1>4. ASSUME NEW l \in M.loops, EndSearch(l) PROVE Accounted'
  BY <1>4, EndAccounted
<1>5. ASSUME NEW l \in M.loops, SearchDies(l) PROVE Accounted'
  BY <1>0, <1>5, QuietAccounted DEF SearchDies, searchvars
<1> QED
  BY <1>1, <1>2, <1>3, <1>4, <1>5 DEF PassNext

\* Before the first loop nothing is found and nothing marked.
LEMMA PassStart == PassInit => OneSearch /\ Accounted
<1> SUFFICES ASSUME PassInit PROVE OneSearch /\ Accounted
  OBVIOUS
<1>1. OneSearch
  BY DEF PassInit, Init, OneSearch
<1>2. FoundLoops = {} /\ indvar = {} /\ Unaccounted = {}
  BY DEF PassInit, FoundLoops, Unaccounted
<1>3. {i \in indvar : Addition(i)} = {}
  BY <1>2
<1> QED
  BY <1>1, <1>2, <1>3, FS_EmptySet DEF Accounted

\* The inductive invariant: searches come one at a time, each on the code of the
\* loop AnalyzeLoop has reached (line 494), with the invariant of the search, and
\* every mark is the find of an ended search or of the one under way.
THEOREM PassInvariant == PassSpec => [](TypeOK /\ OneSearch /\ Accounted)
<1>1. PassSpec => []TypeOK
  BY PassWalks, TypeCorrect, PTL
<1>2. TypeOK /\ OneSearch /\ Accounted /\ [PassNext]_passvars => OneSearch' /\ Accounted'
  BY OneSearchStep, AccountedStep
<1> QED
  BY <1>1, <1>2, PassStart, PTL DEF PassSpec

\* The marks of one loop's search survive those of all later loops (line 202): for
\* any module, any order of its loops and any stack, each loop whose search found
\* an update keeps one that flows into its compare, each mark flows into the
\* compare of such a loop, and no more additions are marked than updates found.
THEOREM MarksAccountedCorrect == PassSpec => []MarksAccounted
<1>1. TypeOK /\ OneSearch /\ Accounted => MarksAccounted
  <2> SUFFICES ASSUME TypeOK, OneSearch, Accounted PROVE MarksAccounted
    OBVIOUS
  <2>1. ASSUME NEW i \in indvar
        PROVE  \E l \in FoundLoops \cup ({current} \ {NoLoop}) : i \in Reached(l)
    <3>1. CASE current # NoLoop /\ i \in marked
      <4>1. P = LoopIR(current) /\ SearchInv
        BY <3>1 DEF OneSearch
      <4>2. marked \subseteq Reached(current)
        BY <4>1, SearchFacts
      <4> QED
        BY <3>1, <4>2
    <3> QED
      BY <3>1 DEF Accounted
  <2>2. ASSUME current = NoLoop
        PROVE  Cardinality({i \in indvar : Addition(i)}) <= Cardinality(FoundLoops)
    <3>1. Unaccounted = {}
      BY <2>2 DEF Unaccounted
    <3>2. Cardinality(FoundLoops) \in Nat
      BY Forest, FS_Subset, FS_CardinalityType DEF FoundLoops, TypeOK, WellFormed
    <3> QED
      BY <3>1, <3>2 DEF Accounted
  <2> QED
    BY <2>1, <2>2 DEF Accounted, MarksAccounted
<1> QED
  BY <1>1, PassInvariant, PTL

-----------------------------------------------------------------------------
(* Crashes *)

\* Only a search that dies crashes the pass, and nothing moves after it.
LEMMA CrashedStep ==
  ASSUME NoLoop \notin M.loops, Crashed, [PassNext]_passvars
  PROVE  Crashed'
<1>1. CASE WalkStep
  BY <1>1 DEF WalkStep, Crashed, SkipDeclaration, AnalyzeFunction, NextFunction, AnalyzeLoop,
              getLoopExitBlocks, TagBackEdges, Return, vars, searchvars
<1>2. CASE SearchStep
  BY <1>2 DEF SearchStep, Crashed, vars
<1>3. ASSUME NEW l \in M.loops, BeginSearch(l) PROVE Crashed'
  BY <1>3 DEF BeginSearch, Crashed, vars
<1>4. ASSUME NEW l \in M.loops, EndSearch(l) PROVE Crashed'
  BY <1>4 DEF EndSearch, FindIndVarUpdateCandidates, Crashed
<1>5. ASSUME NEW l \in M.loops, SearchDies(l) PROVE Crashed'
  BY <1>5 DEF SearchDies, SearchCrashes, Crashed, searchvars
<1>6. CASE UNCHANGED passvars
  BY <1>6 DEF passvars, vars, searchvars, Crashed
<1> QED
  BY <1>1, <1>2, <1>3, <1>4, <1>5, <1>6 DEF PassNext

\* A crash of the pass (lines 388 and 399) is the code's doing: for any module, any
\* order of its loops and whatever earlier searches have marked, some loop's compare
\* is reached by a load through an unknown pointer or by a chain of loads and stores
\* that closes on itself, or the stack is smaller than the loads of its function.
THEOREM CrashExplainedCorrect == PassSpec => []CrashExplained
<1>1. PassInit => Crashed
  BY DEF PassInit, Init, Crashed
<1>2. TypeOK /\ Crashed /\ [PassNext]_passvars => Crashed'
  BY CrashedStep DEF TypeOK, WellFormed
<1>3. TypeOK /\ OneSearch /\ Crashed => CrashExplained
  <2> SUFFICES ASSUME TypeOK, OneSearch, Crashed, status = "crashed"
               PROVE  \E l \in M.loops :
                        ~ Harmless(l) \/ StackLimit <= Cardinality(Flow(l)!AllLoads)
    BY DEF CrashExplained
  <2>1. PICK l \in M.loops : current = l
    BY DEF OneSearch, Crashed
  <2>2. P = LoopIR(l) /\ SearchInv /\ search \in {"nullderef", "overflow"}
    BY <2>1 DEF OneSearch, Crashed
  <2>3. SP!VerdictCorrect
    BY <2>2, SameInv DEF SPInv, SP!FlowInv
  <2>4. SP!ReachedFrom(SP!Candidates) \subseteq Reached(l)
    BY <2>2, CandidatesReach
  <2>5. CASE \E i \in SP!ReachedFrom(SP!Candidates) : SP!UnknownPointer(i) \/ SP!Cyclic(i)
    BY <2>2, <2>4, <2>5, SearchedFlow DEF Harmless
  <2>6. CASE StackLimit <= SP!Cardinality(SP!AllLoads)
    <3>1. SP!Cardinality(SP!AllLoads) = Cardinality(SP!AllLoads)
      BY Zenon DEF SP!Cardinality, Cardinality
    <3> QED
      BY <2>2, <2>6, <3>1, SearchedFlow
  <2> QED
    BY <2>2, <2>3, <2>5, <2>6 DEF SP!VerdictCorrect
<1> QED
  BY <1>1, <1>2, <1>3, PassInvariant, PTL DEF PassSpec

=============================================================================
