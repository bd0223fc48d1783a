------------------------- MODULE IndVarSearchProofs -------------------------
(***************************************************************************)
(* Proofs about IndVarSearch for every loop, any number of instructions    *)
(* and any stack size: the recursion of isInductionVariableUpdate follows  *)
(* stores to loads, marks one addition at most, and cannot overflow where  *)
(* the flow through memory has no cycle.                                   *)
(***************************************************************************)
EXTENDS IndVarSearch, SequenceTheorems, TLAPS

-----------------------------------------------------------------------------
(* The three ways the stack changes *)

\* A return removes the top frame and touches no other (line 410).
LEMMA PopFacts ==
  ASSUME stack \in Seq(FrameSet), stack # <<>>
  PROVE  /\ Len(stack) \in Nat \ {0}
         /\ Popped \in Seq(FrameSet)
         /\ Len(Popped) = Len(stack) - 1
         /\ \A k \in 1..(Len(stack) - 1) : Popped[k] = stack[k]
         /\ \A k \in 1..Len(stack) : stack[k] \in FrameSet
         /\ Top \in FrameSet
<1>1. Len(stack) \in Nat \ {0}
  BY EmptySeq
<1>2. \A k \in 1..Len(stack) : stack[k] \in FrameSet
  BY ElementOfSeq
<1>3. \A k \in 1..(Len(stack) - 1) : stack[k] \in FrameSet
  BY <1>1, <1>2
<1>4. /\ Popped \in Seq(FrameSet)
      /\ Len(Popped) = IF 1 <= Len(stack) - 1 THEN (Len(stack) - 1) - 1 + 1 ELSE 0
      /\ \A k \in 1..((Len(stack) - 1) - 1 + 1) : Popped[k] = stack[1 + k - 1]
  <2>1. 1 \in Int /\ Len(stack) - 1 \in Int
    BY <1>1
  <2> QED
    BY <2>1, <1>3, SubSeqProperties DEF Popped
<1>5. Len(Popped) = Len(stack) - 1
  <2> DEFINE n == Len(stack)
             m == Len(Popped)
  <2>1. n \in Nat /\ n >= 1
    BY <1>1
  <2>2. m = IF 1 <= n - 1 THEN (n - 1) - 1 + 1 ELSE 0
    BY <1>4
  <2> HIDE DEF n, m
  <2>3. m = n - 1
    BY <2>1, <2>2
  <2> QED
    BY <2>3 DEF m, n
<1>6. \A k \in 1..(Len(stack) - 1) : Popped[k] = stack[k]
  <2> TAKE k \in 1..(Len(stack) - 1)
  <2>1. k \in 1..((Len(stack) - 1) - 1 + 1) /\ 1 + k - 1 = k
    BY <1>1
  <2> QED
    BY <2>1, <1>4
<1>7. Top \in FrameSet
  BY <1>1, <1>2 DEF Top
<1> QED
  BY <1>1, <1>2, <1>4, <1>5, <1>6, <1>7

\* The user loop of line 390 moves the top frame to the next user.
LEMMA AdvanceFacts ==
  ASSUME stack \in Seq(FrameSet), stack # <<>>
  PROVE  /\ Advanced \in Seq(FrameSet)
         /\ Len(Advanced) = Len(stack)
         /\ \A k \in 1..(Len(stack) - 1) : Advanced[k] = stack[k]
         /\ Advanced[Len(stack)] = [ins |-> Top.ins, next |-> Top.next + 1]
         /\ \A k \in 1..Len(stack) : Advanced[k].ins = stack[k].ins
<1> DEFINE e == [ins |-> Top.ins, next |-> Top.next + 1]
<1>1. Len(stack) \in 1..Len(stack)
  BY PopFacts
<1>2. Top \in FrameSet
  BY PopFacts
<1>3. e \in FrameSet
  BY <1>2 DEF FrameSet
<1> HIDE DEF e
<1>4. /\ Advanced \in Seq(FrameSet)
      /\ Len(Advanced) = Len(stack)
      /\ \A j \in 1..Len(stack) : Advanced[j] = IF j = Len(stack) THEN e ELSE stack[j]
  <2>1. Advanced = [stack EXCEPT ![Len(stack)] = e]
    BY DEF Advanced, e
  <2> QED
    BY <2>1, <1>1, <1>3, ExceptSeq
<1>5. e.ins = stack[Len(stack)].ins
  BY DEF e, Top
<1>6. Advanced[Len(stack)] = e
  BY <1>1, <1>4
<1> QED
  BY <1>1, <1>4, <1>5, <1>6 DEF e

\* The recursive call of line 399 puts a frame on top of the advanced one.
LEMMA PushFacts ==
  ASSUME stack \in Seq(FrameSet), stack # <<>>, NEW i \in P.ins
  PROVE  /\ Append(Advanced, Frame(i)) \in Seq(FrameSet)
         /\ Append(Advanced, Frame(i)) # <<>>
         /\ Len(Append(Advanced, Frame(i))) = Len(stack) + 1
         /\ \A k \in 1..Len(stack) : Append(Advanced, Frame(i))[k] = Advanced[k]
         /\ Append(Advanced, Frame(i))[Len(stack) + 1] = Frame(i)
<1>1. Frame(i) \in FrameSet
  BY DEF Frame, FrameSet
<1> QED
  BY <1>1, AdvanceFacts, AppendProperties

\* A user that the recursion follows (lines 392-399) stores an instruction where
\* the top frame loads from, and leaves that frame calling it.
LEMMA FollowedUser ==
  ASSUME TypeOK, AtUser, StoresThrough(User, P.arg0[Top.ins])
  PROVE  /\ stack # <<>> /\ Top \in FrameSet
         /\ P.arg0[User] \in P.ins
         /\ P.arg0[User] \in StoredValues(Top.ins)
         /\ Calling([ins |-> Top.ins, next |-> Top.next + 1])
         /\ Called([ins |-> Top.ins, next |-> Top.next + 1]) = P.arg0[User]
<1>1. stack # <<>> /\ Top \in FrameSet
  BY PopFacts DEF AtUser, FollowedLoad, Running, TypeOK
<1>2. Top.ins \in P.ins /\ Top.next \in Nat \ {0}
  BY <1>1 DEF FrameSet
<1>3. /\ P.op[Top.ins] = "load" /\ Top.ins \notin P.volatile
      /\ P.arg0[Top.ins] \in P.ins /\ Top.next <= Len(PointerUsers)
  BY DEF AtUser, FollowedLoad, RejectedLoad
<1>4. PointerUsers \in Seq(P.ins)
  BY <1>3 DEF PointerUsers, TypeOK, WellFormed
<1>5. Len(PointerUsers) \in Nat
  BY <1>4
<1>6. Top.next \in 1..Len(PointerUsers) /\ Top.next + 1 - 1 = Top.next
  BY <1>2, <1>3, <1>5
<1>7. User \in P.ins
  BY <1>4, <1>6, ElementOfSeq DEF User
<1>8. P.arg0[User] \in P.ins /\ P.op[User] = "store" /\ P.arg1[User] = P.arg0[Top.ins]
  BY DEF StoresThrough
<1>9. P.arg0[User] \in StoredValues(Top.ins)
  BY <1>3, <1>7, <1>8 DEF StoredValues
<1>10. /\ Calling([ins |-> Top.ins, next |-> Top.next + 1])
       /\ Called([ins |-> Top.ins, next |-> Top.next + 1]) = P.arg0[User]
  <2> DEFINE f == [ins |-> Top.ins, next |-> Top.next + 1]
  <2>1. f.ins = Top.ins /\ f.next - 1 = Top.next
    BY <1>6
  <2> HIDE DEF f
  <2>2. Calling(f)
    BY <1>3, <1>6, <2>1 DEF Calling, PointerUsers
  <2>3. Called(f) = P.arg0[User]
    BY <2>1 DEF Called, PointerUsers, User
  <2> QED
    BY <2>2, <2>3 DEF f
<1> QED
  BY <1>1, <1>8, <1>9, <1>10

-----------------------------------------------------------------------------
(* Type correctness *)

\* No step changes the function under analysis.
LEMMA SameFunction == ASSUME [Next]_vars PROVE P' = P
  BY DEF Next, vars, ScanHeader, ScanDone, TryCandidate, SearchDone, ReturnUpdate,
         ReturnReject, NullDereference, SkipUser, Recurse, StackOverflow, UsersExhausted,
         CallSucceeded, CallFailed, Stopped

\* Every step keeps the variables within their types, the stack included.
LEMMA TypeStep == TypeOK /\ [Next]_vars => TypeOK'
<1> SUFFICES ASSUME TypeOK, [Next]_vars PROVE TypeOK'
  OBVIOUS
<1>0. P' = P /\ FrameSet' = FrameSet
  BY SameFunction DEF FrameSet
<1>1. CASE ScanHeader
  <2> DEFINE i == P.header[scan]
  <2>1. scan \in 1..Len(P.header) /\ i \in P.ins
    <3>1. P.header \in Seq(P.ins) /\ Len(P.header) \in Nat
      BY DEF TypeOK, WellFormed
    <3>2. scan \in 1..Len(P.header)
      BY <1>1, <3>1 DEF TypeOK, ScanHeader
    <3> QED
      BY <3>1, <3>2, ElementOfSeq
  <2>2. ASSUME NEW v
        PROVE  Candidate(v) \in Seq(P.inLoop)
    <3>1. CASE v \in P.inLoop
      <4>1. Candidate(v) = <<v>>
        BY <3>1 DEF Candidate
      <4>2. \A S : \A x \in S : <<x>> \in Seq(S)
        OBVIOUS
      <4> QED
        BY <3>1, <4>1, <4>2
    <3>2. CASE v \notin P.inLoop
      BY <3>2, EmptySeq DEF Candidate
    <3> QED
      BY <3>1, <3>2
  <2>3. NonConstOps' \in Seq(P.inLoop) /\ Len(NonConstOps') >= Len(NonConstOps)
    <3> DEFINE s0 == Candidate(P.arg0[i])
               s1 == Candidate(P.arg1[i])
    <3>1. s0 \in Seq(P.inLoop) /\ s1 \in Seq(P.inLoop) /\ NonConstOps \in Seq(P.inLoop)
      BY <2>2 DEF TypeOK
    <3>2. NonConstOps' = NonConstOps \/ NonConstOps' = NonConstOps \o s0 \o s1
      BY <1>1 DEF ScanHeader
    <3> HIDE DEF s0, s1, i
    <3>3. /\ NonConstOps \o s0 \in Seq(P.inLoop)
          /\ Len(NonConstOps \o s0) = Len(NonConstOps) + Len(s0)
      BY <3>1
    <3>4. /\ NonConstOps \o s0 \o s1 \in Seq(P.inLoop)
          /\ Len(NonConstOps \o s0 \o s1) = Len(NonConstOps) + Len(s0) + Len(s1)
      BY <3>1, <3>3
    <3>5. Len(NonConstOps) \in Nat /\ Len(s0) \in Nat /\ Len(s1) \in Nat
      BY <3>1
    <3>6. CASE NonConstOps' = NonConstOps
      BY <3>1, <3>5, <3>6
    <3>7. CASE NonConstOps' = NonConstOps \o s0 \o s1
      <4>1. Len(NonConstOps') = Len(NonConstOps) + Len(s0) + Len(s1)
        BY <3>4, <3>7
      <4>2. Len(NonConstOps') >= Len(NonConstOps)
        BY <3>5, <4>1
      <4> QED
        BY <3>4, <3>7, <4>2
    <3> QED
      BY <3>2, <3>6, <3>7
  <2>4. cand' \in 1..(Len(NonConstOps') + 1)
    BY <1>1, <2>3 DEF ScanHeader, TypeOK
  <2>5. scan' \in 1..(Len(P.header) + 1)
    BY <1>1, <2>1 DEF ScanHeader, TypeOK, WellFormed
  <2> QED
    BY <1>0, <1>1, <2>3, <2>4, <2>5 DEF ScanHeader, TypeOK
<1>2. CASE ScanDone
  BY <1>0, <1>2 DEF TypeOK, ScanDone
<1>3. CASE TryCandidate
  <2>1. cand \in 1..Len(NonConstOps) /\ NonConstOps \in Seq(P.inLoop)
    BY <1>3 DEF TypeOK, TryCandidate
  <2>2. NonConstOps[cand] \in P.ins
    BY <2>1, ElementOfSeq DEF TypeOK, WellFormed
  <2>3. Frame(NonConstOps[cand]) \in FrameSet
    BY <2>2 DEF Frame, FrameSet
  <2>4. stack' \in Seq(FrameSet)
    BY <1>3, <2>3 DEF TryCandidate
  <2> QED
    BY <1>0, <1>3, <2>1, <2>4 DEF TypeOK, TryCandidate
<1>4. CASE SearchDone
  BY <1>0, <1>4 DEF TypeOK, SearchDone, Ended
<1>5. CASE ReturnUpdate
  BY <1>0, <1>5, PopFacts DEF TypeOK, ReturnUpdate, Running, __addMD
<1>6. CASE ReturnReject
  BY <1>0, <1>6, PopFacts DEF TypeOK, ReturnReject, Running
<1>7. CASE NullDereference
  BY <1>0, <1>7 DEF TypeOK, NullDereference, Ended
<1>8. CASE SkipUser
  BY <1>0, <1>8, AdvanceFacts DEF TypeOK, SkipUser, AtUser, FollowedLoad, Running
<1>9. CASE Recurse
  <2>1. stack' \in Seq(FrameSet)
    BY <1>9, FollowedUser, PushFacts DEF Recurse, TypeOK, Callee
  <2> QED
    BY <1>0, <1>9, <2>1 DEF TypeOK, Recurse
<1>10. CASE StackOverflow
  BY <1>0, <1>10 DEF TypeOK, StackOverflow, Ended
<1>11. CASE UsersExhausted
  BY <1>0, <1>11, PopFacts DEF TypeOK, UsersExhausted, FollowedLoad, Running
<1>12. CASE CallSucceeded
  BY <1>0, <1>12, PopFacts DEF TypeOK, CallSucceeded, __addMD
<1>13. CASE CallFailed
  BY <1>0, <1>13 DEF TypeOK, CallFailed
<1>14. CASE Stopped \/ UNCHANGED vars
  BY <1>0, <1>14 DEF TypeOK, Stopped, vars
<1> QED
  BY <1>1, <1>2, <1>3, <1>4, <1>5, <1>6, <1>7, <1>8, <1>9, <1>10, <1>11, <1>12, <1>13,
     <1>14 DEF Next

-----------------------------------------------------------------------------
(* The frames *)

\* After a return the frame below, if any, is the load that made the call.
LEMMA ReturnTo ==
  ASSUME TypeOK, Waiting, stack # <<>>, stack' = Popped, P' = P
  PROVE  /\ \A k \in 1..(Len(stack') - 1) :
              Calling(stack[k])' /\ Called(stack[k])' = stack'[k + 1].ins
         /\ stack' # <<>> => /\ Calling(Top)'
                             /\ Called(Top)' = Top.ins
<1> DEFINE n == Len(stack)
<1>1. /\ n \in Nat \ {0} /\ stack' \in Seq(FrameSet) /\ Len(stack') = n - 1
      /\ \A k \in 1..(n - 1) : stack'[k] = stack[k]
  BY PopFacts DEF TypeOK
<1>2. \A k \in 1..(n - 1) : Calling(stack[k]) /\ Called(stack[k]) = stack[k + 1].ins
  BY DEF Waiting
<1>3. \A k \in 1..(n - 1) : Calling(stack[k])' /\ Called(stack[k])' = stack[k + 1].ins
  BY <1>1, <1>2 DEF Calling, Called
<1>4. ASSUME NEW k \in 1..(Len(stack') - 1)
      PROVE  Calling(stack[k])' /\ Called(stack[k])' = stack'[k + 1].ins
  <2>1. k \in 1..(n - 1) /\ k + 1 \in 1..(n - 1)
    BY <1>1
  <2>2. stack'[k + 1] = stack[k + 1]
    BY <1>1, <2>1
  <2> QED
    BY <1>3, <2>1, <2>2
<1>5. ASSUME stack' # <<>>
      PROVE  Calling(Top)' /\ Called(Top)' = Top.ins
  <2>1. n - 1 \in 1..(n - 1)
    BY <1>1, <1>5, EmptySeq
  <2>2. Calling(stack[n - 1]) /\ Called(stack[n - 1]) = stack[n].ins
    BY <1>1, <1>2, <2>1
  <2>3. Top' = stack[n - 1]
    BY <1>1, <2>1 DEF Top
  <2> QED
    BY <2>2, <2>3 DEF Top, Calling, Called
<1> QED
  BY <1>4, <1>5

\* Every step keeps the frames below the top waiting for the call they made.
LEMMA WaitingStep == TypeOK /\ Waiting /\ [Next]_vars => Waiting'
<1> SUFFICES ASSUME TypeOK, Waiting, [Next]_vars PROVE Waiting'
  OBVIOUS
<1>0. P' = P
  BY SameFunction
<1>1. CASE ScanHeader \/ ScanDone
  BY <1>0, <1>1 DEF Waiting, ScanHeader, ScanDone, Calling, Called, Top
<1>2. CASE TryCandidate
  <2>1. stack' = <<Frame(NonConstOps[cand])>> /\ ret' = "none" /\ status' = "searching"
    BY <1>2 DEF TryCandidate
  <2>2. Len(stack') = 1
    BY <2>1
  <2> QED
    BY <2>1, <2>2 DEF Waiting
<1>3. CASE SearchDone \/ NullDereference \/ StackOverflow \/ Stopped \/ UNCHANGED vars
  <2>1. stack' = stack /\ ret' = ret /\ (status' = "scanning" => status = "scanning")
    BY <1>3 DEF SearchDone, NullDereference, StackOverflow, Stopped, vars
  <2> QED
    BY <1>0, <2>1 DEF Waiting, Calling, Called, Top
<1>4. CASE ReturnUpdate \/ ReturnReject \/ UsersExhausted \/ CallSucceeded
  <2>1. stack # <<>> /\ stack' = Popped /\ status' = "searching"
    BY <1>4 DEF ReturnUpdate, ReturnReject, UsersExhausted, CallSucceeded, FollowedLoad, Running
  <2> QED
    BY <1>0, <2>1, ReturnTo DEF Waiting
<1>5. CASE SkipUser
  <2>1. stack # <<>> /\ stack' = Advanced /\ ret' = "none" /\ status' = "searching"
    BY <1>5 DEF SkipUser, AtUser, FollowedLoad, Running
  <2>2. /\ Len(stack') = Len(stack)
        /\ \A k \in 1..(Len(stack) - 1) : stack'[k] = stack[k]
        /\ \A k \in 1..Len(stack) : stack'[k].ins = stack[k].ins
    BY <2>1, AdvanceFacts DEF TypeOK
  <2>3. Len(stack) \in Nat
    BY DEF TypeOK
  <2>4. ASSUME NEW k \in 1..(Len(stack) - 1)
        PROVE  Calling(stack[k])' /\ Called(stack[k])' = stack'[k + 1].ins
    <3>1. k + 1 \in 1..Len(stack)
      BY <2>3
    <3>2. Calling(stack[k]) /\ Called(stack[k]) = stack[k + 1].ins
      BY DEF Waiting
    <3>3. Calling(stack[k])' /\ Called(stack[k])' = stack[k + 1].ins
      BY <1>0, <2>2, <3>2 DEF Calling, Called
    <3> QED
      BY <2>2, <3>1, <3>3
  <2> QED
    BY <2>1, <2>2, <2>4 DEF Waiting
<1>6. CASE Recurse
  <2> DEFINE f == [ins |-> Top.ins, next |-> Top.next + 1]
             n == Len(stack)
  <2>1. /\ stack # <<>> /\ ret' = "none" /\ status' = "searching"
        /\ stack' = Append(Advanced, Frame(P.arg0[User]))
    BY <1>6 DEF Recurse, AtUser, FollowedLoad, Running, Callee
  <2>2. P.arg0[User] \in P.ins /\ Calling(f) /\ Called(f) = P.arg0[User]
    BY <1>6, FollowedUser DEF Recurse
  <2>3. /\ Len(stack') = n + 1
        /\ \A k \in 1..n : stack'[k] = Advanced[k]
        /\ stack'[n + 1] = Frame(P.arg0[User])
    BY <2>1, <2>2, PushFacts DEF TypeOK
  <2>4. /\ \A k \in 1..(n - 1) : Advanced[k] = stack[k]
        /\ \A k \in 1..n : Advanced[k].ins = stack[k].ins
        /\ Advanced[n] = f
    BY <2>1, AdvanceFacts DEF TypeOK
  <2>5. n \in Nat \ {0}
    BY <2>1, EmptySeq DEF TypeOK
  <2> HIDE DEF f, n
  <2>6. ASSUME NEW k \in 1..n
        PROVE  Calling(stack[k])' /\ Called(stack[k])' = stack'[k + 1].ins
    <3>1. CASE k = n
      <4>1. stack'[k] = f
        BY <2>3, <2>4, <3>1
      <4>2. stack'[k + 1].ins = P.arg0[User]
        BY <2>3, <3>1 DEF Frame
      <4> QED
        BY <1>0, <2>2, <4>1, <4>2 DEF Calling, Called
    <3>2. CASE k # n
      <4>1. k \in 1..(n - 1) /\ k + 1 \in 1..n
        BY <2>5, <3>2
      <4>2. stack'[k] = stack[k] /\ stack'[k + 1].ins = stack[k + 1].ins
        BY <2>3, <2>4, <4>1
      <4>3. Calling(stack[k]) /\ Called(stack[k]) = stack[k + 1].ins
        BY <4>1 DEF Waiting, n
      <4> QED
        BY <1>0, <4>2, <4>3 DEF Calling, Called
    <3> QED
      BY <3>1, <3>2
  <2> QED
    BY <2>1, <2>3, <2>5, <2>6 DEF Waiting
<1>7. CASE CallFailed
  BY <1>0, <1>7 DEF CallFailed, Waiting, Calling, Called
<1> QED
  BY <1>1, <1>2, <1>3, <1>4, <1>5, <1>6, <1>7 DEF Next

\* What a step has to establish of the new stack: the function's data flow and
\* the candidates are those of the state before.
LEMMA NewChain ==
  ASSUME P' = P, NonConstOps' = NonConstOps,
         stack' # <<>> => stack'[1].ins \in Candidates,
         \A k \in 2..Len(stack') : stack'[k].ins \in StoredValues(stack'[k - 1].ins)
  PROVE  StackChain'
<1>1. Candidates' = Candidates
  BY DEF Candidates
<1>2. ASSUME NEW k \in 2..Len(stack')
      PROVE  (stack[k].ins \in StoredValues(stack[k - 1].ins))'
  <2>1. stack'[k].ins \in StoredValues(stack'[k - 1].ins)
    OBVIOUS
  <2> QED
    BY <2>1 DEF StoredValues
<1> QED
  BY <1>1, <1>2 DEF StackChain

\* Every step keeps the stack a chain of loads, each called with a value that is
\* stored where the one below it loads from.
LEMMA ChainStep == TypeOK /\ Waiting /\ StackChain /\ [Next]_vars => StackChain'
<1> SUFFICES ASSUME TypeOK, Waiting, StackChain, [Next]_vars PROVE StackChain'
  OBVIOUS
<1>0. P' = P
  BY SameFunction
<1>1. CASE ScanHeader \/ ScanDone
  <2>1. stack' = <<>>
    BY <1>1 DEF ScanHeader, ScanDone, Waiting
  <2> QED
    BY <2>1 DEF StackChain
<1>2. CASE TryCandidate
  <2>1. /\ stack' = <<Frame(NonConstOps[cand])>> /\ NonConstOps' = NonConstOps
        /\ cand \in 1..Len(NonConstOps)
    BY <1>2 DEF TryCandidate, TypeOK
  <2>2. Len(stack') = 1 /\ stack'[1].ins = NonConstOps[cand]
    BY <2>1 DEF Frame
  <2> QED
    BY <2>1, <2>2 DEF StackChain, Candidates
<1>3. CASE \/ SearchDone \/ NullDereference \/ StackOverflow \/ CallFailed
           \/ Stopped \/ UNCHANGED vars
  <2>1. stack' = stack /\ NonConstOps' = NonConstOps
    BY <1>3 DEF SearchDone, NullDereference, StackOverflow, CallFailed, Stopped, vars
  <2> QED
    BY <1>0, <2>1 DEF StackChain, Candidates, StoredValues
<1>4. CASE ReturnUpdate \/ ReturnReject \/ UsersExhausted \/ CallSucceeded
  <2>1. stack # <<>> /\ stack' = Popped /\ NonConstOps' = NonConstOps
    BY <1>4 DEF ReturnUpdate, ReturnReject, UsersExhausted, CallSucceeded, FollowedLoad, Running
  <2>2. /\ Len(stack) \in Nat \ {0} /\ Len(stack') = Len(stack) - 1
        /\ stack' \in Seq(FrameSet)
        /\ \A k \in 1..(Len(stack) - 1) : stack'[k] = stack[k]
    BY <2>1, PopFacts DEF TypeOK
  <2>3. stack' # <<>> => stack'[1] = stack[1]
    BY <2>2, EmptySeq
  <2>4. \A k \in 2..Len(stack') : stack'[k] = stack[k] /\ stack'[k - 1] = stack[k - 1]
                                    /\ k \in 2..Len(stack)
    BY <2>2
  <2> QED
    BY <1>0, <2>1, <2>3, <2>4, NewChain DEF StackChain
<1>5. CASE SkipUser
  <2>1. stack # <<>> /\ stack' = Advanced /\ NonConstOps' = NonConstOps
    BY <1>5 DEF SkipUser, AtUser, FollowedLoad, Running
  <2>2. /\ Len(stack') = Len(stack) /\ Len(stack) \in Nat \ {0}
        /\ \A k \in 1..Len(stack) : stack'[k].ins = stack[k].ins
    BY <2>1, AdvanceFacts, PopFacts DEF TypeOK
  <2>3. \A k \in 2..Len(stack') : /\ k \in 2..Len(stack)
                                    /\ stack'[k].ins = stack[k].ins
                                    /\ stack'[k - 1].ins = stack[k - 1].ins
    BY <2>2
  <2>4. stack'[1].ins \in Candidates
    BY <2>1, <2>2 DEF StackChain
  <2>5. \A k \in 2..Len(stack') : stack'[k].ins \in StoredValues(stack'[k - 1].ins)
    BY <2>3 DEF StackChain
  <2> QED
    BY <1>0, <2>1, <2>4, <2>5, NewChain
<1>6. CASE Recurse
  <2> DEFINE n == Len(stack)
  <2>1. /\ stack # <<>> /\ NonConstOps' = NonConstOps
        /\ stack' = Append(Advanced, Frame(P.arg0[User]))
    BY <1>6 DEF Recurse, AtUser, FollowedLoad, Running, Callee
  <2>2. P.arg0[User] \in P.ins /\ P.arg0[User] \in StoredValues(stack[n].ins)
    BY <1>6, FollowedUser DEF Recurse, Top
  <2>3. /\ Len(stack') = n + 1
        /\ \A k \in 1..n : stack'[k] = Advanced[k]
        /\ stack'[n + 1] = Frame(P.arg0[User])
    BY <2>1, <2>2, PushFacts DEF TypeOK
  <2>4. n \in Nat \ {0} /\ \A k \in 1..n : Advanced[k].ins = stack[k].ins
    BY <2>1, AdvanceFacts, PopFacts DEF TypeOK
  <2> HIDE DEF n
  <2>5. \A k \in 1..n : stack'[k].ins = stack[k].ins
    BY <2>3, <2>4
  <2>6. stack'[n + 1].ins = P.arg0[User]
    BY <2>3 DEF Frame
  <2>7. ASSUME NEW k \in 2..(n + 1)
        PROVE  stack'[k].ins \in StoredValues(stack'[k - 1].ins)
    <3>1. CASE k = n + 1
      <4>1. k - 1 = n /\ stack'[k - 1].ins = stack[n].ins /\ stack'[k].ins = P.arg0[User]
        BY <2>4, <2>5, <2>6, <3>1
      <4> QED
        BY <2>2, <4>1
    <3>2. CASE k # n + 1
      <4>1. k \in 2..n /\ k \in 1..n /\ k - 1 \in 1..n
        BY <2>4, <3>2
      <4>2. stack[k].ins \in StoredValues(stack[k - 1].ins)
        BY <4>1 DEF StackChain, n
      <4> QED
        BY <2>5, <4>1, <4>2
    <3> QED
      BY <3>1, <3>2
  <2>8. stack'[1].ins \in Candidates
    BY <2>1, <2>4, <2>5 DEF StackChain
  <2> QED
    BY <1>0, <2>1, <2>3, <2>7, <2>8, NewChain
<1> QED
  BY <1>1, <1>2, <1>3, <1>4, <1>5, <1>6 DEF Next

-----------------------------------------------------------------------------
(* The marks *)

\* Every step keeps it that one addition at most is marked: the addition a call
\* found is the value the caller marks again (line 409 after line 400).
LEMMA MarkStep ==
  TypeOK /\ Waiting /\ OneUpdate /\ LastMarked /\ [Next]_vars => OneUpdate' /\ LastMarked'
<1> SUFFICES ASSUME TypeOK, Waiting, OneUpdate, LastMarked, [Next]_vars
             PROVE  OneUpdate' /\ LastMarked'
  OBVIOUS
<1>0. P' = P
  BY SameFunction
<1>1. CASE ret' # "yes" /\ marked' = {}
  BY <1>1 DEF OneUpdate, LastMarked
<1>2. CASE ret' = ret /\ marked' = marked /\ stack' = stack
  BY <1>0, <1>2 DEF OneUpdate, LastMarked, Called, Top
<1>3. CASE ReturnUpdate
  <2>1. /\ stack # <<>> /\ stack' = Popped /\ ret' = "yes" /\ marked = {}
        /\ marked' = __addMD(Top.ins)
    BY <1>3 DEF ReturnUpdate, Running, OneUpdate
  <2>2. \A i \in marked' : i = Top.ins
    BY <2>1 DEF __addMD
  <2>3. stack' # <<>> => Called(Top)' = Top.ins
    BY <1>0, <2>1, ReturnTo
  <2> QED
    BY <2>1, <2>2, <2>3 DEF OneUpdate, LastMarked
<1>4. CASE CallSucceeded
  <2>1. /\ stack # <<>> /\ stack' = Popped /\ ret' = "yes" /\ ret = "yes"
        /\ marked' = __addMD(Called(Top))
    BY <1>4 DEF CallSucceeded, Desired, PointerUsers, Called
  <2>2. \A i \in marked' : i \in marked \/ i = Called(Top)
    BY <2>1 DEF __addMD
  <2>3. \A i, j \in marked' : P.op[i] = "add" /\ P.op[j] = "add" => i = j
    BY <2>1, <2>2 DEF OneUpdate, LastMarked
  <2>4. P.op[Top.ins] = "load"
    BY <2>1 DEF Waiting, Calling
  <2>5. stack' # <<>> => P.op[Called(Top)'] = "load"
    BY <1>0, <2>1, <2>4, ReturnTo
  <2>6. LastMarked'
    BY <1>0, <2>5 DEF LastMarked
  <2> QED
    BY <1>0, <2>1, <2>3, <2>6 DEF OneUpdate
<1>5. CASE TryCandidate
  BY <1>1, <1>5 DEF TryCandidate, SearchOver, OneUpdate
<1>6. CASE ReturnReject \/ UsersExhausted \/ CallFailed \/ SkipUser \/ Recurse
  BY <1>1, <1>6 DEF ReturnReject, UsersExhausted, CallFailed, SkipUser, Recurse, AtUser,
                    FollowedLoad, Running, OneUpdate
<1>7. CASE \/ ScanHeader \/ ScanDone \/ SearchDone \/ NullDereference \/ StackOverflow
           \/ Stopped \/ UNCHANGED vars
  BY <1>2, <1>7 DEF ScanHeader, ScanDone, SearchDone, NullDereference, StackOverflow,
                    Stopped, vars
<1> QED
  BY <1>3, <1>4, <1>5, <1>6, <1>7 DEF Next

-----------------------------------------------------------------------------
(* The depth *)

\* A followed store (line 399) leads to an instruction of smaller rank.
LEMMA RankFalls ==
  ASSUME TypeOK, AtUser, StoresThrough(User, P.arg0[Top.ins]), RanksFall,
         NEW r \in [P.ins -> 0..(StackLimit - 1)], Ranked(r)
  PROVE  /\ Len(stack) \in Nat \ {0}
         /\ r[P.arg0[User]] \in Nat
         /\ r[P.arg0[User]] + Len(stack) + 1 <= StackLimit
<1>1. /\ Top.ins \in P.ins /\ P.arg0[User] \in P.ins
      /\ P.arg0[User] \in StoredValues(Top.ins)
  BY FollowedUser DEF FrameSet
<1>2. Len(stack) \in Nat \ {0}
  BY FollowedUser, PopFacts DEF TypeOK
<1>3. r[P.arg0[User]] < r[Top.ins]
  BY <1>1 DEF Ranked
<1>4. r[Top.ins] + Len(stack) <= StackLimit
  BY <1>2 DEF RanksFall, Top
<1>5. r[P.arg0[User]] \in Nat /\ r[Top.ins] \in Nat
  BY <1>1, StackAssumption
<1> QED
  BY <1>2, <1>3, <1>4, <1>5, StackAssumption

\* Every step keeps ranks falling up the stack, so that the stack is never full
\* when the recursion needs another frame.
LEMMA RankStep ==
  TypeOK /\ Waiting /\ RanksFall /\ NoOverflowIfRanked /\ [Next]_vars
    => RanksFall' /\ NoOverflowIfRanked'
<1> SUFFICES ASSUME TypeOK, Waiting, RanksFall, NoOverflowIfRanked, [Next]_vars
             PROVE  RanksFall' /\ NoOverflowIfRanked'
  OBVIOUS
<1>0. P' = P
  BY SameFunction
<1>1. ASSUME NEW r, Ranked(r)' PROVE Ranked(r) /\ r \in [P.ins -> 0..(StackLimit - 1)]
  BY <1>0, <1>1 DEF Ranked, StoredValues
<1>2. SUFFICES ASSUME NEW r \in [P.ins -> 0..(StackLimit - 1)], Ranked(r)
               PROVE  /\ \A k \in 1..Len(stack') : r[stack'[k].ins] + k <= StackLimit
                      /\ status' # "overflow"
  BY <1>0, <1>1 DEF RanksFall, NoOverflowIfRanked
<1>3. status # "overflow"
  BY <1>2 DEF NoOverflowIfRanked
<1>4. \A k \in 1..Len(stack) : r[stack[k].ins] + k <= StackLimit
  BY <1>2 DEF RanksFall
<1>5. CASE ScanHeader \/ ScanDone \/ SearchDone \/ NullDereference \/ CallFailed \/ Stopped
           \/ UNCHANGED vars
  <2>1. stack' = stack /\ status' # "overflow"
    BY <1>3, <1>5 DEF ScanHeader, ScanDone, SearchDone, NullDereference, CallFailed, Stopped,
                      vars
  <2> QED
    BY <1>4, <2>1
<1>6. CASE TryCandidate
  <2>1. /\ stack' = <<Frame(NonConstOps[cand])>> /\ status' = "searching"
        /\ cand \in 1..Len(NonConstOps) /\ NonConstOps \in Seq(P.inLoop)
    BY <1>6 DEF TryCandidate, TypeOK
  <2>2. NonConstOps[cand] \in P.ins
    BY <2>1, ElementOfSeq DEF TypeOK, WellFormed
  <2>3. Len(stack') = 1 /\ stack'[1].ins = NonConstOps[cand]
    BY <2>1 DEF Frame
  <2>4. r[NonConstOps[cand]] + 1 <= StackLimit
    BY <2>2, StackAssumption
  <2> QED
    BY <2>1, <2>3, <2>4
<1>7. CASE ReturnUpdate \/ ReturnReject \/ UsersExhausted \/ CallSucceeded
  <2>1. stack # <<>> /\ stack' = Popped /\ status' = "searching"
    BY <1>7 DEF ReturnUpdate, ReturnReject, UsersExhausted, CallSucceeded, FollowedLoad, Running
  <2>2. /\ Len(stack) \in Nat \ {0} /\ Len(stack') = Len(stack) - 1
        /\ \A k \in 1..(Len(stack) - 1) : stack'[k] = stack[k]
    BY <2>1, PopFacts DEF TypeOK
  <2>3. \A k \in 1..Len(stack') : k \in 1..Len(stack) /\ stack'[k] = stack[k]
    BY <2>2
  <2> QED
    BY <1>4, <2>1, <2>3
<1>8. CASE SkipUser
  <2>1. stack # <<>> /\ stack' = Advanced /\ status' = "searching"
    BY <1>8 DEF SkipUser, AtUser, FollowedLoad, Running
  <2>2. /\ Len(stack') = Len(stack)
        /\ \A k \in 1..Len(stack) : stack'[k].ins = stack[k].ins
    BY <2>1, AdvanceFacts DEF TypeOK
  <2> QED
    BY <1>4, <2>1, <2>2
<1>9. CASE Recurse
  <2> DEFINE n == Len(stack)
             c == P.arg0[User]
  <2>1. /\ stack # <<>> /\ status' = "searching"
        /\ stack' = Append(Advanced, Frame(c))
    BY <1>9 DEF Recurse, AtUser, FollowedLoad, Running, Callee
  <2>2. c \in P.ins /\ n \in Nat \ {0} /\ r[c] \in Nat /\ r[c] + n + 1 <= StackLimit
    BY <1>2, <1>9, FollowedUser, RankFalls DEF Recurse
  <2>3. /\ Len(stack') = n + 1
        /\ \A k \in 1..n : stack'[k] = Advanced[k]
        /\ stack'[n + 1] = Frame(c)
    BY <2>1, <2>2, PushFacts DEF TypeOK
  <2>4. \A k \in 1..n : Advanced[k].ins = stack[k].ins
    BY <2>1, AdvanceFacts DEF TypeOK
  <2>5. stack'[n + 1].ins = c
    BY <2>3 DEF Frame
  <2> HIDE DEF n, c
  <2>6. ASSUME NEW k \in 1..(n + 1) PROVE r[stack'[k].ins] + k <= StackLimit
    <3>1. CASE k = n + 1
      BY <2>2, <2>5, <3>1, StackAssumption
    <3>2. CASE k # n + 1
      <4>1. k \in 1..n
        BY <2>2, <3>2
      <4> QED
        BY <1>4, <2>3, <2>4, <4>1 DEF n
    <3> QED
      BY <3>1, <3>2
  <2> QED
    BY <2>1, <2>3, <2>6
<1>10. CASE StackOverflow
  <2>1. Len(stack) >= StackLimit
    BY <1>10 DEF StackOverflow
  <2>2. /\ Len(stack) \in Nat \ {0} /\ r[P.arg0[User]] \in Nat
        /\ r[P.arg0[User]] + Len(stack) + 1 <= StackLimit
    BY <1>2, <1>10, RankFalls DEF StackOverflow
  <2> QED
    BY <2>1, <2>2, StackAssumption
<1> QED
  BY <1>5, <1>6, <1>7, <1>8, <1>9, <1>10 DEF Next

-----------------------------------------------------------------------------
(* The theorems *)

\* A search that begins is in the invariant, whatever the loop.
LEMMA StartInv ==
  ASSUME WellFormed(P), scan = 1, NonConstOps = <<>>, cand = 1, stack = <<>>, ret = "none",
         marked = {}, status = "scanning"
  PROVE  IInv
<1>2. TypeOK
  <2>1. Len(P.header) \in Nat
    BY DEF WellFormed
  <2> QED
    BY <2>1, EmptySeq DEF TypeOK
<1>3. Len(stack) = 0
  OBVIOUS
<1>4. Waiting /\ StackChain /\ OneUpdate /\ LastMarked /\ RanksFall /\ NoOverflowIfRanked
  BY <1>3 DEF Waiting, StackChain, OneUpdate, LastMarked, RanksFall, NoOverflowIfRanked
<1> QED
  BY <1>2, <1>4 DEF IInv

LEMMA InitInv == Init => IInv
  BY LoopsAssumption, StartInv DEF Init

\* The strengthened invariant of isInductionVariableUpdate's recursion (lines
\* 328-414) holds throughout the search.
THEOREM InductiveInvariant == Spec => []IInv
<1>1. IInv /\ [Next]_vars => IInv'
  BY TypeStep, WaitingStep, ChainStep, MarkStep, RankStep DEF IInv
<1> QED
  BY InitInv, <1>1, PTL DEF Spec

\* The variables of the search keep their types: every frame of the recursion
\* (line 399) is on an instruction, every candidate is in the loop.
THEOREM TypeCorrect == Spec => []TypeOK
<1>1. IInv => TypeOK
  BY DEF IInv
<1> QED
  BY <1>1, InductiveInvariant, PTL

\* The recursion of line 399 is at any depth a chain of loads, each fed by the
\* value above it, up from a candidate of line 458.
THEOREM StackChainCorrect == Spec => []StackChain
<1>1. IInv => StackChain
  BY DEF IInv
<1> QED
  BY <1>1, InductiveInvariant, PTL

\* A failing search marks nothing and a successful one marks one addition at
\* most, though __addMD is called in every frame it unwinds (line 409).
THEOREM OneUpdateCorrect == Spec => []OneUpdate
<1>1. IInv => OneUpdate
  BY DEF IInv
<1> QED
  BY <1>1, InductiveInvariant, PTL

\* The recursion of line 399, which has neither a depth limit nor a visited set,
\* does not overflow the stack where the flow from stores to loads can be ranked
\* within the stack's size.
THEOREM AcyclicNeverOverflows == Spec => []NoOverflowIfRanked
<1>1. IInv => NoOverflowIfRanked
  BY DEF IInv
<1> QED
  BY <1>1, InductiveInvariant, PTL

=============================================================================
