---------------------------- MODULE IndVarSearch ----------------------------
(***************************************************************************)
(* The search of custom_loop_analysis.cpp for the instruction that updates *)
(* the induction variable of one loop.  FindIndVarUpdateCandidates scans   *)
(* the loop header and collects the in-loop operands of its compares;      *)
(* isInductionVariableUpdate follows each of them, from a load to the      *)
(* values stored through the same pointer, until it meets an addition with *)
(* a loop-invariant operand.  It marks the addition, and on the way back   *)
(* every load it went through but the first.                               *)
(*                                                                         *)
(* The recursion of line 399 is an explicit stack of frames.  It has no    *)
(* depth limit and no visited set: the process dies when the stack is      *)
(* full (StackLimit frames) or when a load's pointer is no instruction.    *)
(*                                                                         *)
(* Definitions named Op_Variant are faulty forms of Op, see LoopWalk.      *)
(***************************************************************************)
EXTENDS Naturals, Sequences, FiniteSets

CONSTANTS
  Loops,         \* the loops searched, as records (see WellFormed)
  Constant,      \* an operand that is a constant or an argument
  Global,        \* a load's pointer that is a GlobalVariable
  OtherPointer,  \* a pointer that is neither: an argument, a constant expression
  StackLimit     \* the frames that fit on the process's stack

Operands(p) == p.ins \cup {Constant, Global, OtherPointer}

\* The part of the function's IR that the search looks at.
WellFormed(p) ==
  /\ IsFiniteSet(p.ins)
  /\ p.ins \cap {Constant, Global, OtherPointer} = {}
  /\ p.op \in [p.ins -> {"add", "sub", "mul", "alloca", "load", "store", "cmp", "other"}]
  /\ p.arg0 \in [p.ins -> Operands(p)]      \* a store's value, a load's pointer
  /\ p.arg1 \in [p.ins -> Operands(p)]      \* a store's pointer
  /\ p.users \in [p.ins -> Seq(p.ins)]      \* the use list, in LLVM's order
  /\ p.inLoop \subseteq p.ins
  /\ p.inExit \subseteq p.ins               \* in a block of ExitBlocks
  /\ p.volatile \subseteq p.ins
  /\ p.located \subseteq p.ins              \* with a debug location
  /\ p.header \in Seq(p.ins)
  /\ \A u \in p.ins : \A i \in {p.arg0[u], p.arg1[u]} \cap p.ins :
       \E k \in DOMAIN p.users[i] : p.users[i][k] = u

ASSUME LoopsAssumption == \A p \in Loops : WellFormed(p)
ASSUME StackAssumption == StackLimit \in Nat \ {0}
ASSUME OperandAssumption == Constant # Global /\ OtherPointer # Global

VARIABLES
  P,            \* the loop and the instructions around it
  scan,         \* the header iterator of line 424
  NonConstOps,  \* the candidates
  cand,         \* the iterator over them of line 458
  stack,        \* the frames of isInductionVariableUpdate: instruction and next user
  ret,          \* what the last call returned, until its caller looks at it
  marked,       \* the instructions with "IndVarUpdateInst:" metadata
  status

vars == <<P, scan, NonConstOps, cand, stack, ret, marked, status>>

Ended == {"found", "notfound", "nullderef", "overflow"}

FrameSet == [ins : P.ins, next : Nat \ {0}]
Frame(i) == [ins |-> i, next |-> 1]
Top == stack[Len(stack)]
Popped == SubSeq(stack, 1, Len(stack) - 1)

Init ==
  /\ P \in Loops
  /\ scan = 1
  /\ NonConstOps = <<>>
  /\ cand = 1
  /\ stack = <<>>
  /\ ret = "none"
  /\ marked = {}
  /\ status = "scanning"

-----------------------------------------------------------------------------
(* FindIndVarUpdateCandidates *)

\* The function walks the users and looks whether they are in an exit block,
\* but the outcome reaches only its log: any use will do (lines 311-326).
CompareInstDeterminesLoopExitCondition(i) == P.users[i] # <<>>

IsCandidateCompare(i) ==
  P.op[i] = "cmp" /\ CompareInstDeterminesLoopExitCondition(i)

\* An operand is a candidate when it is an instruction of the loop.
Candidate(v) == IF v \in P.inLoop THEN <<v>> ELSE <<>>

ScanHeader ==
  /\ status = "scanning"
  /\ scan <= Len(P.header)
  /\ scan' = scan + 1
  /\ LET i == P.header[scan]
     IN  NonConstOps' = IF IsCandidateCompare(i)
                        THEN NonConstOps \o Candidate(P.arg0[i]) \o Candidate(P.arg1[i])
                        ELSE NonConstOps
  /\ UNCHANGED <<P, cand, stack, ret, marked, status>>

ScanDone ==
  /\ status = "scanning"
  /\ scan > Len(P.header)
  /\ status' = "searching"
  /\ UNCHANGED <<P, scan, NonConstOps, cand, stack, ret, marked>>

\* The first candidate whose search succeeds ends the loop of line 458.
SearchOver_Never == FALSE

SearchOver == ret = "yes"

TryCandidate ==
  /\ status = "searching"
  /\ stack = <<>>
  /\ ~ SearchOver
  /\ cand <= Len(NonConstOps)
  /\ cand' = cand + 1
  /\ stack' = <<Frame(NonConstOps[cand])>>
  /\ ret' = "none"
  /\ UNCHANGED <<P, scan, NonConstOps, marked, status>>

SearchDone ==
  /\ status = "searching"
  /\ stack = <<>>
  /\ SearchOver \/ cand > Len(NonConstOps)
  /\ status' = IF ret = "yes" THEN "found" ELSE "notfound"
  /\ UNCHANGED <<P, scan, NonConstOps, cand, stack, ret, marked>>

-----------------------------------------------------------------------------
(* isInductionVariableUpdate, on the instruction of the top frame *)

isLoopInvariant(v) == v \notin P.inLoop

IsUpdate(i) ==
  P.op[i] = "add" /\ (isLoopInvariant(P.arg0[i]) \/ isLoopInvariant(P.arg1[i]))

\* __addMD marks an instruction only if it has a debug location.
__addMD(i) == IF i \in P.located THEN marked \cup {i} ELSE marked

Running == status = "searching" /\ stack # <<>> /\ ret = "none"

ReturnUpdate ==
  /\ Running
  /\ IsUpdate(Top.ins)
  /\ marked' = __addMD(Top.ins)
  /\ stack' = Popped
  /\ ret' = "yes"
  /\ UNCHANGED <<P, scan, NonConstOps, cand, status>>

\* Lines 377 and 381: volatile loads and loads of globals are not followed.
RejectedLoad_Volatile(i) == P.arg0[i] = Global

RejectedLoad(i) == i \in P.volatile \/ P.arg0[i] = Global

\* Any other addition, a subtraction, a multiplication, an alloca, an opcode
\* the function has no case for, and the loads it refuses.
ReturnReject ==
  /\ Running
  /\ ~ IsUpdate(Top.ins)
  /\ P.op[Top.ins] = "load" => RejectedLoad(Top.ins)
  /\ stack' = Popped
  /\ ret' = "no"
  /\ UNCHANGED <<P, scan, NonConstOps, cand, marked, status>>

FollowedLoad == Running /\ P.op[Top.ins] = "load" /\ ~ RejectedLoad(Top.ins)

\* Line 388 calls a method on the null result of line 387's cast.
NullDereference ==
  /\ FollowedLoad
  /\ P.arg0[Top.ins] \notin P.ins
  /\ status' = "nullderef"
  /\ UNCHANGED <<P, scan, NonConstOps, cand, stack, ret, marked>>

PointerUsers == P.users[P.arg0[Top.ins]]

\* Lines 392-398: the user is a store through the pointer, of an instruction.
StoresThrough_AnyUse(u, ptr) == P.op[u] = "store" /\ P.arg0[u] \in P.ins

StoresThrough_AnyValue(u, ptr) == P.op[u] = "store" /\ P.arg1[u] = ptr

StoresThrough(u, ptr) ==
  P.op[u] = "store" /\ P.arg1[u] = ptr /\ P.arg0[u] \in P.ins

AtUser ==
  /\ FollowedLoad
  /\ P.arg0[Top.ins] \in P.ins
  /\ Top.next <= Len(PointerUsers)

User == PointerUsers[Top.next]

\* The loop of line 390 goes to the next user.
Advanced == [stack EXCEPT ![Len(stack)] = [ins |-> Top.ins, next |-> Top.next + 1]]

SkipUser ==
  /\ AtUser
  /\ ~ StoresThrough(User, P.arg0[Top.ins])
  /\ stack' = Advanced
  /\ UNCHANGED <<P, scan, NonConstOps, cand, ret, marked, status>>

Callee_Load(u) == Top.ins

Callee(u) == P.arg0[u]

\* The recursive call of line 399, on the stored value.
Recurse ==
  /\ AtUser
  /\ StoresThrough(User, P.arg0[Top.ins])
  /\ Len(stack) < StackLimit
  /\ stack' = Append(Advanced, Frame(Callee(User)))
  /\ UNCHANGED <<P, scan, NonConstOps, cand, ret, marked, status>>

StackOverflow ==
  /\ AtUser
  /\ StoresThrough(User, P.arg0[Top.ins])
  /\ Len(stack) >= StackLimit
  /\ status' = "overflow"
  /\ UNCHANGED <<P, scan, NonConstOps, cand, stack, ret, marked>>

UsersExhausted ==
  /\ FollowedLoad
  /\ P.arg0[Top.ins] \in P.ins
  /\ Top.next > Len(PointerUsers)
  /\ stack' = Popped
  /\ ret' = "no"
  /\ UNCHANGED <<P, scan, NonConstOps, cand, marked, status>>

\* `desired' of line 400.
Desired_Pointer == P.arg1[PointerUsers[Top.next - 1]]

Desired == P.arg0[PointerUsers[Top.next - 1]]

\* The call succeeded: the caller marks the stored value, once more if it is
\* the addition, leaves its loop and succeeds too (lines 400-410).
CallSucceeded ==
  /\ status = "searching"
  /\ stack # <<>>
  /\ ret = "yes"
  /\ marked' = __addMD(Desired)
  /\ stack' = Popped
  /\ UNCHANGED <<P, scan, NonConstOps, cand, ret, status>>

\* The user loop goes on behind the store whose value led nowhere.
CallFailed_Rescan ==
  /\ status = "searching"
  /\ stack # <<>>
  /\ ret = "no"
  /\ ret' = "none"
  /\ stack' = [stack EXCEPT ![Len(stack)] = Frame(Top.ins)]
  /\ UNCHANGED <<P, scan, NonConstOps, cand, marked, status>>

CallFailed ==
  /\ status = "searching"
  /\ stack # <<>>
  /\ ret = "no"
  /\ ret' = "none"
  /\ UNCHANGED <<P, scan, NonConstOps, cand, stack, marked, status>>

Stopped ==
  /\ status \in Ended
  /\ UNCHANGED vars

Next ==
  \/ ScanHeader \/ ScanDone \/ TryCandidate \/ SearchDone
  \/ ReturnUpdate \/ ReturnReject \/ NullDereference
  \/ SkipUser \/ Recurse \/ StackOverflow \/ UsersExhausted
  \/ CallSucceeded \/ CallFailed
  \/ Stopped

Spec == Init /\ [][Next]_vars

\* One thread, and no call of the search blocks.
FairSpec == Spec /\ WF_vars(Next)

-----------------------------------------------------------------------------
(* The meaning of the search, without a stack *)

\* The instructions whose value a load can have been given.
StoredValues(i) ==
  IF P.op[i] = "load" /\ P.arg0[i] \in P.ins /\ i \notin P.volatile
  THEN {P.arg0[s] : s \in {u \in P.ins : P.op[u] = "store" /\ P.arg1[u] = P.arg0[i]}}
         \cap P.ins
  ELSE {}

Flowing == UNION {StoredValues(i) : i \in P.ins}

\* The instructions reached from those in S in any number of steps: S and the least
\* set of stored values that is closed under the flow.
ReachedFrom(S) ==
  S \cup {v \in Flowing : \A T \in SUBSET Flowing :
            (\A i \in S \cup T : StoredValues(i) \subseteq T) => v \in T}

Candidates == {NonConstOps[k] : k \in 1..Len(NonConstOps)}

\* What the whole header offers: the in-loop operands of its compares.
Starts ==
  {v \in P.inLoop : \E k \in 1..Len(P.header) :
     LET i == P.header[k] IN IsCandidateCompare(i) /\ v \in {P.arg0[i], P.arg1[i]}}

AllLoads == {i \in P.ins : P.op[i] = "load"}

Cyclic(i) == i \in ReachedFrom(StoredValues(i))

UnknownPointer(i) ==
  P.op[i] = "load" /\ i \notin P.volatile /\ P.arg0[i] \notin P.ins \cup {Global}

-----------------------------------------------------------------------------
(* Properties *)

TypeOK ==
  /\ WellFormed(P)
  /\ scan \in 1..(Len(P.header) + 1)
  /\ NonConstOps \in Seq(P.inLoop)
  /\ cand \in 1..(Len(NonConstOps) + 1)
  /\ stack \in Seq(FrameSet)
  /\ ret \in {"none", "yes", "no"}
  /\ marked \subseteq P.located
  /\ status \in Ended \cup {"scanning", "searching"}

\* The search answers what the data flow says: "found" only if an addition with
\* an invariant operand flows into a candidate through memory, "notfound" only
\* if none does; a null dereference only if a load of an unknown pointer does, a
\* stack overflow only if a chain of loads and stores closes on itself, or the
\* stack has no room for all loads.
VerdictCorrect ==
  LET reached == ReachedFrom(Candidates)
  IN  /\ status = "found" => \E i \in reached : IsUpdate(i)
      /\ status = "notfound" => \A i \in reached :
           ~ IsUpdate(i) /\ ~ UnknownPointer(i) /\ ~ Cyclic(i)
      /\ status = "nullderef" => \E i \in reached : UnknownPointer(i)
      /\ status = "overflow" =>
           (\E i \in reached : Cyclic(i)) \/ StackLimit <= Cardinality(AllLoads)

\* Each frame of the recursion was called on a value that some store puts where
\* the frame below it loads from (lines 390-399), and the bottom one on a
\* candidate.
StackChain ==
  /\ stack # <<>> => stack[1].ins \in Candidates
  /\ \A k \in 2..Len(stack) : stack[k].ins \in StoredValues(stack[k - 1].ins)

\* Backtracking leaves no trace: nothing is marked before the search of a
\* candidate has succeeded, and then one addition at most, whatever the depth at
\* which __addMD (line 409) is called and how often.
OneUpdate ==
  /\ marked # {} => ret = "yes"
  /\ \A i, j \in marked : P.op[i] = "add" /\ P.op[j] = "add" => i = j

\* Whatever is marked is an update or a load that an update flows into, and
\* that update is marked too if it has a debug location.
MarkedFlow ==
  \A i \in marked : \E u \in ReachedFrom({i}) : IsUpdate(u) /\ (u \in P.located => u \in marked)

\* Where no chain of loads and stores closes on itself, the recursion of line
\* 399 goes through each load at most once.
DepthBounded ==
  (\A i \in ReachedFrom(Candidates) : ~ Cyclic(i)) =>
    Len(stack) <= Cardinality(AllLoads) + 1

\* A rank that falls along every flow from a stored value to a load exists when
\* no chain closes on itself; here one that fits in the stack.
Ranked(r) ==
  /\ r \in [P.ins -> 0..(StackLimit - 1)]
  /\ \A i \in P.ins : \A v \in StoredValues(i) : r[v] < r[i]

NoOverflowIfRanked ==
  status = "overflow" => ~ \E r \in [P.ins -> 0..(StackLimit - 1)] : Ranked(r)

\* The search comes to an end, for better or worse.
SearchEnds == <>(status \in Ended)

\* The strengthening behind the proofs: a frame below the top is a load waiting
\* for the call on the value stored by the user before its `next', and so is the
\* top frame between the end of a call and its handling; ranks fall up the stack.
Calling(f) ==
  /\ P.op[f.ins] = "load"
  /\ P.arg0[f.ins] \in P.ins
  /\ f.next - 1 \in 1..Len(P.users[P.arg0[f.ins]])

Called(f) == P.arg0[P.users[P.arg0[f.ins]][f.next - 1]]

Waiting ==
  /\ status = "scanning" => stack = <<>> /\ ret = "none"
  /\ \A k \in 1..(Len(stack) - 1) : Calling(stack[k]) /\ Called(stack[k]) = stack[k + 1].ins
  /\ ret # "none" /\ stack # <<>> => Calling(Top)

LastMarked ==
  ret = "yes" /\ stack # <<>> /\ P.op[Called(Top)] = "add" =>
    \A i \in marked : P.op[i] = "add" => i = Called(Top)

RanksFall ==
  \A r \in [P.ins -> 0..(StackLimit - 1)] : Ranked(r) =>
    \A k \in 1..Len(stack) : r[stack[k].ins] + k <= StackLimit

\* Nothing is to be found from instruction i, and nothing to die of: what a call
\* that returns false has established.
Dead(i) ==
  \A j \in ReachedFrom({i}) : ~ IsUpdate(j) /\ ~ UnknownPointer(j) /\ ~ Cyclic(j)

\* The first n users of the pointer that frame f loads from were tried in vain.
Tried(f, n) ==
  \A k \in 1..n : LET u == P.users[P.arg0[f.ins]][k]
                  IN  StoresThrough(u, P.arg0[f.ins]) => Dead(P.arg0[u])

\* The search without a visited set is exhaustive all the same: the users before
\* the one a frame waits for, and the candidates before the current one, are dead.
Exhausted ==
  /\ status = "scanning" => cand = 1
  /\ stack # <<>> => cand > 1 /\ stack[1].ins = NonConstOps[cand - 1]
  /\ \A k \in 1..(Len(stack) - 1) : Tried(stack[k], stack[k].next - 2)
  /\ stack # <<>> /\ ret # "yes" => Tried(Top, Top.next - 1)
  /\ \A c \in 1..(cand - 1) :
       c < cand - 1 \/ (stack = <<>> /\ ret # "yes") => Dead(NonConstOps[c])

\* Each frame is reached from the candidates, and from every frame below it.
StackReached ==
  /\ \A k \in 1..Len(stack) : stack[k].ins \in ReachedFrom(Candidates)
  /\ \A j, k \in 1..Len(stack) :
       j < k => stack[k].ins \in ReachedFrom(StoredValues(stack[j].ins))

\* A call that has succeeded was on a stored value that an update flows into.
UpdateFound ==
  /\ ret = "yes" => \E u \in ReachedFrom(Candidates) :
                      IsUpdate(u) /\ (u \in P.located => u \in marked)
  /\ ret = "yes" /\ stack # <<>> =>
       /\ Called(Top) \in StoredValues(Top.ins)
       /\ \E u \in ReachedFrom({Called(Top)}) :
            IsUpdate(u) /\ (u \in P.located => u \in marked)

IInv == /\ TypeOK /\ Waiting /\ StackChain
        /\ OneUpdate /\ LastMarked /\ RanksFall /\ NoOverflowIfRanked

\* Where candidates and marks come from, and what the verdict was given for.
Origins ==
  /\ Candidates \subseteq Starts
  /\ marked \subseteq ReachedFrom(Candidates)
  /\ status = "found" => ret = "yes"
  /\ status = "notfound" => ret # "yes"

FlowInv == /\ Exhausted /\ StackReached /\ UpdateFound /\ MarkedFlow
           /\ VerdictCorrect /\ Origins

-----------------------------------------------------------------------------
(* What the comments and the README say of the search; see the findings *)

\* README.md:16-18: the pass produces annotated IR, so the search must return;
\* said here of functions where every load it comes to is through an instruction
\* or a global, which leaves only the recursion of line 399 to stop it.
SearchReturns ==
  (\A i \in ReachedFrom(Starts) : ~ UnknownPointer(i)) => <>(status \in {"found", "notfound"})

\* custom_loop_analysis.cpp:312-313 and :427: a compare whose operands are
\* followed determines an exit of the loop, so one of its users is in an exit
\* block.
CandidatesFromExitCompares ==
  \A v \in Candidates :
    \E c \in P.ins : /\ P.op[c] = "cmp"
                     /\ v \in {P.arg0[c], P.arg1[c]}
                     /\ \E k \in DOMAIN P.users[c] : P.users[c][k] \in P.inExit

\* README.md:6-7: the marked instruction generates the update of this loop's
\* induction variable: where an addition of the loop flows into a candidate, the
\* marked one is an instruction of the loop.
MarksInLoop ==
  (\E u \in ReachedFrom(Candidates) : IsUpdate(u) /\ u \in P.inLoop) =>
    \A i \in marked : P.op[i] = "add" => i \in P.inLoop

=============================================================================
