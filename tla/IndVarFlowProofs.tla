-------------------------- MODULE IndVarFlowProofs --------------------------
(***************************************************************************)
(* More proofs about IndVarSearch: for every loop, what the search answers *)
(* is what the flow of values through memory says, and what it marks lies  *)
(* on that flow.                                                           *)
(***************************************************************************)
EXTENDS IndVarSearchProofs, FiniteSetTheorems

-----------------------------------------------------------------------------
(* Reachability: the least set closed under the flow from stores to loads *)

\* Values are reached from themselves.
LEMMA ReachSelf == ASSUME NEW S PROVE S \subseteq ReachedFrom(S)
  BY DEF ReachedFrom

\* What is stored where a reached load reads from is reached too.
LEMMA ReachStep ==
  ASSUME NEW S, S \subseteq P.ins, NEW i \in ReachedFrom(S), NEW v \in StoredValues(i)
  PROVE  v \in ReachedFrom(S)
<1>1. i \in P.ins
  <2>1. \A x \in Flowing : x \in P.ins
    BY DEF Flowing, StoredValues
  <2>2. QED
    BY <2>1 DEF ReachedFrom
<1>2. v \in Flowing
  BY <1>1 DEF Flowing
<1>3. ASSUME NEW T \in SUBSET Flowing,
             \A x \in S \cup T : StoredValues(x) \subseteq T
      PROVE  v \in T
  <2>1. i \in S \cup T
    BY <1>3 DEF ReachedFrom
  <2>2. QED
    BY <1>3, <2>1
<1>4. QED
  BY <1>2, <1>3 DEF ReachedFrom

\* A set that holds S and is closed under the flow holds all that S reaches.
LEMMA ReachLeast ==
  ASSUME NEW S, S \subseteq P.ins, NEW C, S \subseteq C,
         \A i \in C : i \in P.ins => StoredValues(i) \subseteq C
  PROVE  ReachedFrom(S) \subseteq C
<1> DEFINE T == C \cap Flowing
<1>1. T \in SUBSET Flowing
  OBVIOUS
<1>2. ASSUME NEW i \in S \cup T PROVE StoredValues(i) \subseteq T
  <2>1. i \in C /\ i \in P.ins
    BY DEF Flowing, StoredValues
  <2>2. StoredValues(i) \subseteq Flowing
    BY <2>1 DEF Flowing
  <2>3. QED
    BY <2>1, <2>2
<1> HIDE DEF T
<1>3. ASSUME NEW v \in ReachedFrom(S), v \notin S PROVE v \in T
  BY <1>1, <1>2, <1>3 DEF ReachedFrom
<1>4. QED
  BY <1>3 DEF T

\* Reached values are instructions.
LEMMA ReachType == ASSUME NEW S, S \subseteq P.ins PROVE ReachedFrom(S) \subseteq P.ins
  BY ReachLeast DEF StoredValues

\* What is reached from reached values is reached.
LEMMA ReachTrans ==
  ASSUME NEW S, S \subseteq P.ins, NEW U, U \subseteq ReachedFrom(S)
  PROVE  ReachedFrom(U) \subseteq ReachedFrom(S)
<1>1. U \subseteq P.ins
  BY ReachType
<1>2. \A i \in ReachedFrom(S) : i \in P.ins => StoredValues(i) \subseteq ReachedFrom(S)
  BY ReachStep
<1>3. QED
  BY <1>1, <1>2, ReachLeast

\* One step of the flow unfolded: a value reaches itself and what the values
\* stored for it reach.
LEMMA ReachUnfold ==
  ASSUME NEW i \in P.ins, NEW j \in ReachedFrom({i})
  PROVE  j = i \/ \E v \in StoredValues(i) : j \in ReachedFrom({v})
<1> DEFINE C == {i} \cup UNION {ReachedFrom({v}) : v \in StoredValues(i)}
<1>1. StoredValues(i) \subseteq P.ins
  BY DEF StoredValues
<1>2. ASSUME NEW x \in C, x \in P.ins PROVE StoredValues(x) \subseteq C
  <2>1. CASE x = i
    BY <2>1, ReachSelf
  <2>2. CASE x # i
    <3>1. PICK v \in StoredValues(i) : x \in ReachedFrom({v})
      BY <2>2
    <3>2. StoredValues(x) \subseteq ReachedFrom({v})
      BY <1>1, <3>1, ReachStep
    <3>3. QED
      BY <3>2
  <2>3. QED
    BY <2>1, <2>2
<1>3. i \in C
  OBVIOUS
<1> HIDE DEF C
<1>4. j \in C
  BY <1>2, <1>3, ReachLeast
<1>5. QED
  BY <1>4 DEF C

\* The same for a set: each value that S reaches, one element of S reaches.
LEMMA ReachMember ==
  ASSUME NEW S, S \subseteq P.ins, NEW j \in ReachedFrom(S)
  PROVE  \E s \in S : j \in ReachedFrom({s})
<1> DEFINE C == UNION {ReachedFrom({s}) : s \in S}
<1>1. ASSUME NEW x \in C, x \in P.ins PROVE StoredValues(x) \subseteq C
  <2>1. PICK s \in S : x \in ReachedFrom({s})
    OBVIOUS
  <2>2. StoredValues(x) \subseteq ReachedFrom({s})
    BY <2>1, ReachStep
  <2>3. QED
    BY <2>2
<1>2. S \subseteq C
  BY ReachSelf
<1> HIDE DEF C
<1>3. j \in C
  BY <1>1, <1>2, ReachLeast
<1>4. QED
  BY <1>3 DEF C

\* The flow is that of the function, which no step changes.
LEMMA SameFlow ==
  ASSUME P' = P
  PROVE  /\ \A i : StoredValues(i)' = StoredValues(i)
         /\ \A S : ReachedFrom(S)' = ReachedFrom(S)
         /\ \A i : IsUpdate(i)' <=> IsUpdate(i)
         /\ \A i : Dead(i)' <=> Dead(i)
<1>1. \A i : StoredValues(i)' = StoredValues(i)
  BY DEF StoredValues
<1>2. Flowing' = Flowing
  BY <1>1 DEF Flowing
<1>3. \A S : ReachedFrom(S)' = ReachedFrom(S)
  BY <1>1, <1>2 DEF ReachedFrom
<1>4. \A i : IsUpdate(i)' <=> IsUpdate(i)
  BY DEF IsUpdate, isLoopInvariant
<1>5. \A i : UnknownPointer(i)' <=> UnknownPointer(i)
  BY DEF UnknownPointer
<1>6. \A i : Cyclic(i)' <=> Cyclic(i)
  BY <1>1, <1>3 DEF Cyclic
<1>7. \A i : Dead(i)' <=> Dead(i)
  BY <1>3, <1>4, <1>5, <1>6 DEF Dead
<1>8. QED
  BY <1>1, <1>3, <1>4, <1>7

-----------------------------------------------------------------------------
(* Dead ends *)

\* What ReturnReject refuses (lines 377-384 and the opcodes without a case) is a
\* dead end: nothing flows into it.
LEMMA RejectedIsDead ==
  ASSUME WellFormed(P), NEW i \in P.ins, ~ IsUpdate(i), P.op[i] = "load" => RejectedLoad(i)
  PROVE  Dead(i)
<1>1. StoredValues(i) = {}
  BY DEF StoredValues, RejectedLoad, WellFormed
<1>2. \A j \in ReachedFrom({i}) : j = i
  BY <1>1, ReachUnfold
<1>3. ~ Cyclic(i)
  <2>1. ReachedFrom({}) \subseteq {}
    BY ReachLeast
  <2>2. QED
    BY <1>1, <2>1 DEF Cyclic
<1>4. ~ UnknownPointer(i)
  BY DEF UnknownPointer, RejectedLoad
<1>5. QED
  BY <1>2, <1>3, <1>4 DEF Dead

\* A load all of whose stored values are dead ends is one, and on no cycle: it
\* would be reached from one of them.
LEMMA LoadIsDead ==
  ASSUME NEW i \in P.ins, P.op[i] = "load", P.arg0[i] \in P.ins,
         \A v \in StoredValues(i) : Dead(v)
  PROVE  Dead(i)
<1>1. ~ IsUpdate(i) /\ ~ UnknownPointer(i)
  BY DEF IsUpdate, UnknownPointer
<1>2. ~ Cyclic(i)
  <2> SUFFICES ASSUME i \in ReachedFrom(StoredValues(i)) PROVE FALSE
    BY DEF Cyclic
  <2>1. StoredValues(i) \subseteq P.ins
    BY DEF StoredValues
  <2>2. PICK v \in StoredValues(i) : i \in ReachedFrom({v})
    BY <2>1, ReachMember
  <2>3. Dead(v)
    OBVIOUS
  <2>4. QED
    BY <2>2, <2>3 DEF Dead, Cyclic
<1>3. ASSUME NEW j \in ReachedFrom({i}), j # i
      PROVE  ~ IsUpdate(j) /\ ~ UnknownPointer(j) /\ ~ Cyclic(j)
  <2>1. PICK v \in StoredValues(i) : j \in ReachedFrom({v})
    BY <1>3, ReachUnfold
  <2>2. QED
    BY <2>1 DEF Dead
<1>4. QED
  BY <1>1, <1>2, <1>3 DEF Dead

-----------------------------------------------------------------------------
(* The search is exhaustive *)

\* What a step has to establish, with the flow of the state before.
LEMMA NewExhausted ==
  ASSUME P' = P,
         status' = "scanning" => cand' = 1,
         stack' # <<>> => cand' > 1 /\ stack'[1].ins = NonConstOps'[cand' - 1],
         \A k \in 1..(Len(stack') - 1) : Tried(stack'[k], stack'[k].next - 2),
         stack' # <<>> /\ ret' # "yes" =>
           Tried(stack'[Len(stack')], stack'[Len(stack')].next - 1),
         \A c \in 1..(cand' - 1) :
           c < cand' - 1 \/ (stack' = <<>> /\ ret' # "yes") => Dead(NonConstOps'[c])
  PROVE  Exhausted'
<1>1. \A f, n : Tried(f, n)' <=> Tried(f, n)
  BY SameFlow DEF Tried, StoresThrough
<1>2. \A i : Dead(i)' <=> Dead(i)
  BY SameFlow
<1>3. QED
  BY <1>1, <1>2 DEF Exhausted, Top

\* UsersExhausted: every value stored where the load reads from was tried, since
\* every store is in the use list of its pointer (line 390).
LEMMA ExhaustedIsDead ==
  ASSUME TypeOK, FollowedLoad, P.arg0[Top.ins] \in P.ins, Top.next > Len(PointerUsers),
         Tried(Top, Top.next - 1)
  PROVE  Dead(Top.ins)
<1>1. Top \in FrameSet
  BY PopFacts DEF TypeOK, FollowedLoad, Running
<1>2. Top.ins \in P.ins /\ Top.next \in Nat \ {0} /\ P.op[Top.ins] = "load"
  BY <1>1 DEF FrameSet, FollowedLoad
<1>3. PointerUsers \in Seq(P.ins) /\ Len(PointerUsers) \in Nat
  BY DEF TypeOK, WellFormed, PointerUsers
<1>4. ASSUME NEW v \in StoredValues(Top.ins) PROVE Dead(v)
  <2>1. PICK u \in P.ins : /\ P.op[u] = "store" /\ P.arg1[u] = P.arg0[Top.ins]
                           /\ v = P.arg0[u] /\ v \in P.ins
    BY <1>4 DEF StoredValues
  <2>2. PICK k \in DOMAIN PointerUsers : PointerUsers[k] = u
    BY <2>1 DEF TypeOK, WellFormed, PointerUsers
  <2>3. k \in 1..(Top.next - 1)
    BY <1>2, <1>3, <2>2
  <2>4. StoresThrough(u, P.arg0[Top.ins])
    BY <2>1 DEF StoresThrough
  <2>5. QED
    BY <2>1, <2>2, <2>3, <2>4 DEF Tried, PointerUsers
<1>5. QED
  BY <1>2, <1>4, LoadIsDead

\* Every step keeps the users and candidates already passed dead ends.
LEMMA ExhaustedStep == TypeOK /\ Waiting /\ Exhausted /\ [Next]_vars => Exhausted'
<1> SUFFICES ASSUME TypeOK, Waiting, Exhausted, [Next]_vars PROVE Exhausted'
  OBVIOUS
<1>0. P' = P
  BY SameFunction
<1>1. CASE ScanHeader \/ ScanDone
  <2>1. stack' = <<>> /\ cand' = 1
    BY <1>1 DEF ScanHeader, ScanDone, Waiting, Exhausted
  <2>2. Len(stack') = 0
    BY <2>1
  <2>3. QED
    BY <1>0, <2>1, <2>2, NewExhausted
<1>2. CASE TryCandidate
  <2>1. /\ stack' = <<Frame(NonConstOps[cand])>> /\ NonConstOps' = NonConstOps
        /\ cand' = cand + 1 /\ status' = "searching" /\ stack = <<>> /\ ret # "yes"
    BY <1>2 DEF TryCandidate, SearchOver
  <2>2. cand \in Nat \ {0}
    BY DEF TypeOK
  <2>3. /\ Len(stack') = 1 /\ stack'[1].ins = NonConstOps[cand] /\ stack'[1].next = 1
    BY <2>1 DEF Frame
  <2>4. Tried(stack'[1], stack'[1].next - 1)
    <3>1. stack'[1].next - 1 = 0
      BY <2>3
    <3>2. \A g : Tried(g, 0)
      BY DEF Tried
    <3>3. QED
      BY <3>1, <3>2, Zenon
  <2>5. \A c \in 1..(cand - 1) : Dead(NonConstOps[c])
    BY <2>1 DEF Exhausted
  <2>6. cand' > 1 /\ cand' - 1 = cand
    BY <2>1, <2>2
  <2>7. ASSUME NEW c \in 1..(cand' - 1), c < cand' - 1 PROVE Dead(NonConstOps'[c])
    BY <2>1, <2>2, <2>5, <2>6, <2>7
  <2>8. QED
    BY <1>0, <2>1, <2>3, <2>4, <2>6, <2>7, NewExhausted
<1>3. CASE SearchDone \/ NullDereference \/ StackOverflow \/ Stopped \/ UNCHANGED vars
           \/ CallFailed
  <2>1. /\ UNCHANGED <<stack, cand, NonConstOps>> /\ (ret' = "yes" <=> ret = "yes")
        /\ status' = "scanning" => status = "scanning"
    BY <1>3 DEF SearchDone, NullDereference, StackOverflow, Stopped, vars, CallFailed
  <2>2. QED
    BY <1>0, <2>1, NewExhausted DEF Exhausted, Top
<1>4. CASE ReturnUpdate \/ CallSucceeded \/ ReturnReject \/ UsersExhausted
  <2> DEFINE n == Len(stack)
  <2>1. /\ stack # <<>> /\ stack' = Popped /\ UNCHANGED <<cand, NonConstOps>>
        /\ status' = "searching"
    BY <1>4 DEF ReturnUpdate, CallSucceeded, ReturnReject, UsersExhausted, FollowedLoad, Running
  <2>2. /\ n \in Nat \ {0} /\ stack' \in Seq(FrameSet) /\ Len(stack') = n - 1
        /\ \A k \in 1..(n - 1) : stack'[k] = stack[k]
        /\ \A k \in 1..n : stack[k] \in FrameSet
    BY <2>1, PopFacts DEF TypeOK
  <2>3. \A k \in 1..(n - 1) : Tried(stack'[k], stack'[k].next - 2)
    BY <2>2 DEF Exhausted
  <2>4. stack' # <<>> => cand > 1 /\ stack'[1].ins = NonConstOps[cand - 1]
    BY <2>1, <2>2, EmptySeq DEF Exhausted
  <2>5. stack # <<>> /\ cand > 1 /\ stack[1].ins = NonConstOps[cand - 1]
    BY <2>1 DEF Exhausted
  <2>6. \A c \in 1..(cand - 1) : c < cand - 1 => Dead(NonConstOps[c])
    BY DEF Exhausted
  <2>7. ret' # "yes" => Dead(Top.ins)
    <3>1. CASE ReturnUpdate \/ CallSucceeded
      BY <3>1 DEF ReturnUpdate, CallSucceeded
    <3>2. CASE ReturnReject
      <4>1. Top.ins \in P.ins
        BY <2>1, PopFacts DEF TypeOK, FrameSet
      <4>2. QED
        BY <3>2, <4>1, RejectedIsDead DEF ReturnReject, TypeOK
    <3>3. CASE UsersExhausted
      <4>1. Tried(Top, Top.next - 1)
        BY <3>3 DEF UsersExhausted, FollowedLoad, Running, Exhausted
      <4>2. QED
        BY <3>3, <4>1, ExhaustedIsDead DEF UsersExhausted
    <3>4. QED
      BY <1>4, <3>1, <3>2, <3>3
  <2>8. ASSUME stack' # <<>>, ret' # "yes"
        PROVE  Tried(stack'[n - 1], stack'[n - 1].next - 1)
    <3> DEFINE f == stack[n - 1]
    <3>1. n - 1 \in 1..(n - 1) /\ n - 1 \in 1..n /\ (n - 1) + 1 = n
      BY <2>2, <2>8, EmptySeq
    <3>2. stack'[n - 1] = f /\ Tried(f, f.next - 2) /\ f \in FrameSet
      BY <2>2, <2>3, <3>1
    <3>3. Called(f) = Top.ins
      BY <3>1 DEF Waiting, Top
    <3>4. Dead(Called(f))
      BY <2>7, <2>8, <3>3
    <3> HIDE DEF f
    <3>5. f.next \in Nat \ {0}
      BY <3>2 DEF FrameSet
    <3>6. \A k \in 1..(f.next - 1) : k \in 1..(f.next - 2) \/ k = f.next - 1
      BY <3>5
    <3>7. Tried(f, f.next - 1)
      BY <3>2, <3>4, <3>6 DEF Tried, Called
    <3>8. QED
      BY <3>2, <3>7
  <2>9. ASSUME NEW c \in 1..(cand - 1),
               c < cand - 1 \/ (stack' = <<>> /\ ret' # "yes")
        PROVE  Dead(NonConstOps[c])
    <3>1. CASE c < cand - 1
      BY <2>6, <3>1
    <3>2. CASE ~ (c < cand - 1)
      <4>1. n - 1 = 0
        BY <2>2, <2>9, <3>2, EmptySeq
      <4> HIDE DEF n
      <4>2. n = 1
        BY <2>2, <4>1
      <4>3. Top.ins = NonConstOps[cand - 1]
        BY <2>5, <4>2 DEF Top, n
      <4>4. c = cand - 1
        BY <3>2, <2>9 DEF TypeOK
      <4>5. QED
        BY <2>7, <2>9, <3>2, <4>3, <4>4
    <3>3. QED
      BY <3>1, <3>2
  <2> HIDE DEF n
  <2>10. \A k \in 1..(Len(stack') - 1) : k \in 1..(n - 1)
    BY <2>2
  <2>11. QED
    BY <1>0, <2>1, <2>2, <2>3, <2>4, <2>8, <2>9, <2>10, NewExhausted
<1>5. CASE SkipUser
  <2> DEFINE n == Len(stack)
  <2>1. /\ stack # <<>> /\ stack' = Advanced /\ UNCHANGED <<cand, NonConstOps, ret>>
        /\ status' = "searching" /\ ret = "none"
    BY <1>5 DEF SkipUser, AtUser, FollowedLoad, Running
  <2>2. /\ Len(stack') = n /\ n \in Nat \ {0}
        /\ \A k \in 1..(n - 1) : stack'[k] = stack[k]
        /\ stack'[n] = [ins |-> Top.ins, next |-> Top.next + 1]
        /\ \A k \in 1..n : stack'[k].ins = stack[k].ins
        /\ Top \in FrameSet
    BY <2>1, AdvanceFacts, PopFacts DEF TypeOK
  <2>3. Tried(stack'[n], stack'[n].next - 1)
    <3>1. Top.next \in Nat \ {0}
      BY <2>2 DEF FrameSet
    <3>2. stack'[n].ins = Top.ins /\ stack'[n].next - 1 = Top.next
      BY <2>2, <3>1
    <3>3. Tried(Top, Top.next - 1)
      BY <2>1 DEF Exhausted
    <3>4. ~ StoresThrough(P.users[P.arg0[Top.ins]][Top.next], P.arg0[Top.ins])
      BY <1>5 DEF SkipUser, User, PointerUsers
    <3>5. \A k \in 1..Top.next : k \in 1..(Top.next - 1) \/ k = Top.next
      BY <3>1
    <3>6. QED
      BY <3>2, <3>3, <3>4, <3>5 DEF Tried
  <2>4. \A k \in 1..(n - 1) : Tried(stack'[k], stack'[k].next - 2)
    BY <2>2 DEF Exhausted
  <2>5. cand > 1 /\ stack'[1].ins = NonConstOps[cand - 1]
    BY <2>1, <2>2 DEF Exhausted
  <2>6. \A c \in 1..(cand - 1) : c < cand - 1 => Dead(NonConstOps[c])
    BY DEF Exhausted
  <2>7. stack' # <<>>
    BY <2>2, EmptySeq
  <2> HIDE DEF n
  <2>8. QED
    BY <1>0, <2>1, <2>2, <2>3, <2>4, <2>5, <2>6, <2>7, NewExhausted
<1>6. CASE Recurse
  <2> DEFINE n == Len(stack)
             f == [ins |-> Top.ins, next |-> Top.next + 1]
  <2>1. /\ stack # <<>> /\ UNCHANGED <<cand, NonConstOps, ret>> /\ ret = "none"
        /\ stack' = Append(Advanced, Frame(P.arg0[User])) /\ status' = "searching"
    BY <1>6 DEF Recurse, AtUser, FollowedLoad, Running, Callee
  <2>2. P.arg0[User] \in P.ins /\ Top \in FrameSet
    BY <1>6, FollowedUser DEF Recurse
  <2>3. /\ Len(stack') = n + 1 /\ stack' # <<>>
        /\ \A k \in 1..n : stack'[k] = Advanced[k]
        /\ stack'[n + 1] = Frame(P.arg0[User])
    BY <2>1, <2>2, PushFacts DEF TypeOK
  <2>4. /\ n \in Nat \ {0}
        /\ \A k \in 1..(n - 1) : Advanced[k] = stack[k]
        /\ \A k \in 1..n : Advanced[k].ins = stack[k].ins
        /\ Advanced[n] = f
    BY <2>1, AdvanceFacts, PopFacts DEF TypeOK
  <2>5. Tried(f, f.next - 2)
    <3>1. Top.next \in Nat \ {0}
      BY <2>2 DEF FrameSet
    <3>2. f.ins = Top.ins /\ f.next - 2 = Top.next - 1
      BY <3>1
    <3>3. Tried(Top, Top.next - 1)
      BY <2>1 DEF Exhausted
    <3> HIDE DEF f
    <3>4. QED
      BY <3>2, <3>3 DEF Tried
  <2> HIDE DEF n, f
  <2>6. ASSUME NEW k \in 1..n PROVE Tried(stack'[k], stack'[k].next - 2)
    <3>1. CASE k = n
      BY <2>3, <2>4, <2>5, <3>1
    <3>2. CASE k # n
      <4>1. k \in 1..(n - 1)
        BY <2>4, <3>2
      <4>2. stack'[k] = stack[k]
        BY <2>3, <2>4, <4>1
      <4>3. QED
        BY <4>1, <4>2 DEF Exhausted, n
    <3>3. QED
      BY <3>1, <3>2
  <2>7. Tried(stack'[n + 1], stack'[n + 1].next - 1)
    <3>1. stack'[n + 1].next - 1 = 0
      BY <2>3 DEF Frame
    <3>2. \A g : Tried(g, 0)
      BY DEF Tried
    <3>3. QED
      BY <3>1, <3>2, Zenon
  <2>8. cand > 1 /\ stack'[1].ins = NonConstOps[cand - 1]
    BY <2>1, <2>3, <2>4 DEF Exhausted
  <2>9. \A c \in 1..(cand - 1) : c < cand - 1 => Dead(NonConstOps[c])
    BY DEF Exhausted
  <2>10. Len(stack') - 1 = n
    BY <2>3, <2>4
  <2>11. QED
    BY <1>0, <2>1, <2>3, <2>6, <2>7, <2>8, <2>9, <2>10, NewExhausted
<1>7. QED
  BY <1>1, <1>2, <1>3, <1>4, <1>5, <1>6 DEF Next

-----------------------------------------------------------------------------
(* The frames lie on the flow *)

\* The candidates are instructions, and fixed once the header is scanned.
LEMMA CandidateFacts ==
  ASSUME TypeOK
  PROVE  /\ Candidates \subseteq P.ins
         /\ NonConstOps' = NonConstOps => Candidates' = Candidates
<1>1. NonConstOps \in Seq(P.inLoop) /\ P.inLoop \subseteq P.ins
  BY DEF TypeOK, WellFormed
<1>2. \A k \in 1..Len(NonConstOps) : NonConstOps[k] \in P.ins
  BY <1>1, ElementOfSeq
<1>3. QED
  BY <1>2 DEF Candidates

\* What a step has to establish, with the flow of the state before.
LEMMA NewReached ==
  ASSUME TypeOK, P' = P, NonConstOps' = NonConstOps,
         \A k \in 1..Len(stack') : stack'[k].ins \in ReachedFrom(Candidates),
         \A j, k \in 1..Len(stack') :
           j < k => stack'[k].ins \in ReachedFrom(StoredValues(stack'[j].ins))
  PROVE  StackReached'
<1>1. Candidates' = Candidates
  BY CandidateFacts
<1>2. /\ \A i : StoredValues(i)' = StoredValues(i)
      /\ \A S : ReachedFrom(S)' = ReachedFrom(S)
  BY SameFlow
<1>3. QED
  BY <1>1, <1>2 DEF StackReached

\* Every step keeps each frame reached from the candidates and the frames below.
LEMMA ReachedStep == TypeOK /\ Waiting /\ StackReached /\ [Next]_vars => StackReached'
<1> SUFFICES ASSUME TypeOK, Waiting, StackReached, [Next]_vars PROVE StackReached'
  OBVIOUS
<1>0. P' = P
  BY SameFunction
<1>1. CASE ScanHeader \/ ScanDone
  <2>1. stack' = <<>>
    BY <1>1 DEF ScanHeader, ScanDone, Waiting
  <2>2. Len(stack') = 0
    BY <2>1
  <2>3. QED
    BY <2>2 DEF StackReached
<1>2. CASE TryCandidate
  <2>1. /\ stack' = <<Frame(NonConstOps[cand])>> /\ NonConstOps' = NonConstOps
        /\ cand \in 1..Len(NonConstOps)
    BY <1>2 DEF TryCandidate, TypeOK
  <2>2. Len(stack') = 1 /\ stack'[1].ins = NonConstOps[cand]
    BY <2>1 DEF Frame
  <2>3. NonConstOps[cand] \in ReachedFrom(Candidates)
    BY <2>1, ReachSelf DEF Candidates
  <2>4. QED
    BY <1>0, <2>1, <2>2, <2>3, NewReached
<1>3. CASE /\ NonConstOps' = NonConstOps
           /\ Len(stack') \in Nat /\ Len(stack') <= Len(stack)
           /\ \A k \in 1..Len(stack') : stack'[k].ins = stack[k].ins
  <2>1. \A k \in 1..Len(stack') : k \in 1..Len(stack)
    BY <1>3 DEF TypeOK
  <2>2. QED
    BY <1>0, <1>3, <2>1, NewReached DEF StackReached
<1>4. CASE ReturnUpdate \/ CallSucceeded \/ ReturnReject \/ UsersExhausted
  <2>1. stack # <<>> /\ stack' = Popped /\ NonConstOps' = NonConstOps
    BY <1>4 DEF ReturnUpdate, CallSucceeded, ReturnReject, UsersExhausted, FollowedLoad, Running
  <2>2. QED
    BY <1>3, <2>1, PopFacts DEF TypeOK
<1>5. CASE SkipUser
  <2>1. stack # <<>> /\ stack' = Advanced /\ NonConstOps' = NonConstOps
    BY <1>5 DEF SkipUser, AtUser, FollowedLoad, Running
  <2>2. QED
    BY <1>3, <2>1, AdvanceFacts, PopFacts DEF TypeOK
<1>6. CASE SearchDone \/ NullDereference \/ StackOverflow \/ Stopped \/ UNCHANGED vars
           \/ CallFailed
  <2>1. stack' = stack /\ NonConstOps' = NonConstOps
    BY <1>6 DEF SearchDone, NullDereference, StackOverflow, Stopped, vars, CallFailed
  <2>2. QED
    BY <1>3, <2>1 DEF TypeOK
<1>7. CASE Recurse
  <2> DEFINE n == Len(stack)
             c == P.arg0[User]
  <2>1. /\ stack # <<>> /\ NonConstOps' = NonConstOps
        /\ stack' = Append(Advanced, Frame(c))
    BY <1>7 DEF Recurse, AtUser, FollowedLoad, Running, Callee
  <2>2. c \in P.ins /\ c \in StoredValues(stack[n].ins)
    BY <1>7, FollowedUser DEF Recurse, Top
  <2>3. /\ Len(stack') = n + 1
        /\ \A k \in 1..n : stack'[k] = Advanced[k]
        /\ stack'[n + 1] = Frame(c)
    BY <2>1, <2>2, PushFacts DEF TypeOK
  <2>4. n \in Nat \ {0} /\ \A k \in 1..n : Advanced[k].ins = stack[k].ins
    BY <2>1, AdvanceFacts, PopFacts DEF TypeOK
  <2>5. /\ \A k \in 1..n : stack[k].ins \in ReachedFrom(Candidates)
        /\ \A j, k \in 1..n : j < k =>
             stack[k].ins \in ReachedFrom(StoredValues(stack[j].ins))
    BY DEF StackReached
  <2>6. stack'[n + 1].ins = c
    BY <2>3 DEF Frame
  <2> HIDE DEF n, c
  <2>7. \A k \in 1..n : stack'[k].ins = stack[k].ins
    BY <2>3, <2>4
  <2>8. n \in 1..n
    BY <2>4
  <2>9. c \in ReachedFrom(Candidates)
    BY <2>2, <2>5, <2>8, CandidateFacts, ReachStep
  <2>10. ASSUME NEW j \in 1..n PROVE c \in ReachedFrom(StoredValues(stack[j].ins))
    <3>1. StoredValues(stack[j].ins) \subseteq P.ins
      BY DEF StoredValues
    <3>2. CASE j = n
      BY <2>2, <3>2, ReachSelf
    <3>3. CASE j # n
      <4>1. j < n
        BY <2>4, <3>3
      <4>2. stack[n].ins \in ReachedFrom(StoredValues(stack[j].ins))
        BY <2>5, <2>8, <4>1
      <4>3. QED
        BY <2>2, <3>1, <4>2, ReachStep
    <3>4. QED
      BY <3>2, <3>3
  <2>11. \A k \in 1..(n + 1) : k \in 1..n \/ k = n + 1
    BY <2>4
  <2>12. \A k \in 1..(n + 1) : stack'[k].ins \in ReachedFrom(Candidates)
    BY <2>5, <2>6, <2>7, <2>9, <2>11
  <2>13. ASSUME NEW j \in 1..(n + 1), NEW k \in 1..(n + 1), j < k
         PROVE  stack'[k].ins \in ReachedFrom(StoredValues(stack'[j].ins))
    <3>1. j \in 1..n /\ stack'[j].ins = stack[j].ins
      BY <2>4, <2>7, <2>13
    <3>2. CASE k = n + 1
      BY <2>6, <2>10, <3>1, <3>2
    <3>3. CASE k \in 1..n
      BY <2>5, <2>7, <2>13, <3>1, <3>3
    <3>4. QED
      BY <2>11, <3>2, <3>3
  <2>14. QED
    BY <1>0, <2>1, <2>3, <2>12, <2>13, NewReached
<1>8. QED
  BY <1>1, <1>2, <1>4, <1>5, <1>6, <1>7 DEF Next

-----------------------------------------------------------------------------
(* The depth of the recursion *)

\* More frames on loads than there are loads: two are on the same one, which is
\* therefore reached from itself.
LEMMA DeepIsCyclic ==
  ASSUME TypeOK, StackReached, NEW n \in 1..Len(stack),
         \A k \in 1..n : P.op[stack[k].ins] = "load",
         n > Cardinality(AllLoads)
  PROVE  \E i \in ReachedFrom(Candidates) : Cyclic(i)
<1> DEFINE f == [k \in 1..n |-> stack[k].ins]
<1>1. Len(stack) \in Nat /\ n \in Nat \ {0} /\ \A k \in 1..n : k \in 1..Len(stack)
  BY DEF TypeOK
<1>2. \A k \in 1..n : stack[k].ins \in P.ins
  <2>1. \A k \in 1..n : stack[k] \in FrameSet
    BY <1>1, ElementOfSeq DEF TypeOK
  <2>2. QED
    BY <2>1 DEF FrameSet
<1>3. f \in [1..n -> AllLoads]
  BY <1>2 DEF AllLoads
<1>4. IsFiniteSet(AllLoads)
  BY FS_Subset DEF TypeOK, WellFormed, AllLoads
<1>5. IsFiniteSet(1..n) /\ Cardinality(1..n) = n
  BY <1>1, FS_Interval
<1>6. PICK x \in 1..n, y \in 1..n : x # y /\ f[x] = f[y]
  <2>1. Cardinality(AllLoads) < Cardinality(1..n)
    BY <1>1, <1>4, <1>5, FS_CardinalityType
  <2> HIDE DEF f
  <2>2. QED
    BY <1>3, <1>4, <1>5, <2>1, FS_PigeonHole
<1>7. stack[x].ins = stack[y].ins
  BY <1>6
<1>8. stack[x].ins \in ReachedFrom(StoredValues(stack[x].ins))
  <2>1. x < y \/ y < x
    BY <1>1, <1>6
  <2>2. QED
    BY <1>1, <1>7, <2>1 DEF StackReached
<1>9. stack[x].ins \in ReachedFrom(Candidates)
  BY <1>1 DEF StackReached
<1>10. QED
  BY <1>8, <1>9 DEF Cyclic

\* A frame below the top is a load, so the stack is no deeper than there are
\* loads, and the frame of the instruction that ends it.
LEMMA DepthHolds == ASSUME TypeOK, Waiting, StackReached PROVE DepthBounded
<1>1. Len(stack) \in Nat /\ Cardinality(AllLoads) \in Nat
  <2>1. IsFiniteSet(AllLoads)
    BY FS_Subset DEF TypeOK, WellFormed, AllLoads
  <2>2. QED
    BY <2>1, FS_CardinalityType DEF TypeOK
<1> SUFFICES ASSUME \A i \in ReachedFrom(Candidates) : ~ Cyclic(i),
                    Len(stack) > Cardinality(AllLoads) + 1
             PROVE  FALSE
  BY <1>1 DEF DepthBounded
<1> DEFINE n == Len(stack) - 1
<1>2. n \in 1..Len(stack) /\ n > Cardinality(AllLoads)
  BY <1>1
<1>3. \A k \in 1..n : P.op[stack[k].ins] = "load"
  BY DEF Waiting, Calling
<1> HIDE DEF n
<1>4. QED
  BY <1>2, <1>3, DeepIsCyclic

-----------------------------------------------------------------------------
(* The marks lie on the flow *)

\* The caller that a return goes back to loads what the call was on.
LEMMA ReturnsStored ==
  ASSUME TypeOK, Waiting, StackChain, stack # <<>>, stack' = Popped, P' = P, stack' # <<>>
  PROVE  Called(Top)' = Top.ins /\ Top.ins \in StoredValues(Top'.ins)
<1> DEFINE n == Len(stack)
<1>1. /\ n \in Nat \ {0} /\ stack' \in Seq(FrameSet) /\ Len(stack') = n - 1
      /\ \A k \in 1..(n - 1) : stack'[k] = stack[k]
  BY PopFacts DEF TypeOK
<1>2. n - 1 \in 1..(n - 1) /\ n \in 2..n
  BY <1>1, EmptySeq
<1>3. Top' = stack[n - 1]
  BY <1>1, <1>2 DEF Top
<1>4. stack[n].ins \in StoredValues(stack[n - 1].ins)
  BY <1>2 DEF StackChain
<1>5. QED
  BY <1>3, <1>4, ReturnTo DEF Top

\* What a step has to establish, with the flow of the state before.
LEMMA NewFound ==
  ASSUME TypeOK, P' = P, NonConstOps' = NonConstOps,
         ret' = "yes" => \E u \in ReachedFrom(Candidates) :
                           IsUpdate(u) /\ (u \in P.located => u \in marked'),
         ret' = "yes" /\ stack' # <<>> =>
           /\ Called(Top)' \in StoredValues(Top'.ins)
           /\ \E u \in ReachedFrom({Called(Top)'}) :
                IsUpdate(u) /\ (u \in P.located => u \in marked'),
         \A i \in marked' : \E u \in ReachedFrom({i}) :
           IsUpdate(u) /\ (u \in P.located => u \in marked')
  PROVE  UpdateFound' /\ MarkedFlow'
<1>1. Candidates' = Candidates
  BY CandidateFacts
<1>2. /\ \A i : StoredValues(i)' = StoredValues(i)
      /\ \A S : ReachedFrom(S)' = ReachedFrom(S)
      /\ \A i : IsUpdate(i)' <=> IsUpdate(i)
  BY SameFlow
<1>3. UpdateFound'
  BY <1>1, <1>2 DEF UpdateFound
<1>4. MarkedFlow'
  BY <1>2 DEF MarkedFlow
<1>5. QED
  BY <1>3, <1>4

\* Every step keeps it that an update flows into whatever is marked (line 409).
LEMMA FoundStep ==
  ASSUME TypeOK, Waiting, StackChain, OneUpdate, StackReached, UpdateFound, MarkedFlow,
         [Next]_vars
  PROVE  UpdateFound' /\ MarkedFlow'
<1>0. P' = P
  BY SameFunction
<1>1. CASE ret' # "yes" /\ marked' = {}
  BY <1>1 DEF UpdateFound, MarkedFlow
<1>2. CASE UNCHANGED <<ret, marked, stack, NonConstOps>>
  <2>1. Called(Top)' = Called(Top) /\ Top' = Top
    BY <1>0, <1>2 DEF Called, Top
  <2>2. QED
    BY <1>0, <1>2, <2>1, NewFound DEF UpdateFound, MarkedFlow
<1>3. CASE ReturnUpdate
  <2>1. /\ stack # <<>> /\ stack' = Popped /\ ret' = "yes" /\ marked = {}
        /\ marked' = __addMD(Top.ins) /\ IsUpdate(Top.ins) /\ NonConstOps' = NonConstOps
    BY <1>3 DEF ReturnUpdate, Running, OneUpdate
  <2>2. /\ \A i \in marked' : i = Top.ins
        /\ Top.ins \in P.located => Top.ins \in marked'
    BY <2>1 DEF __addMD
  <2>3. Top.ins \in ReachedFrom({Top.ins})
    BY ReachSelf
  <2>4. Top.ins \in ReachedFrom(Candidates)
    BY <2>1, PopFacts DEF TypeOK, StackReached, Top
  <2>5. ASSUME stack' # <<>>
        PROVE  Called(Top)' = Top.ins /\ Top.ins \in StoredValues(Top'.ins)
    BY <1>0, <2>1, <2>5, ReturnsStored
  <2>6. QED
    BY <1>0, <2>1, <2>2, <2>3, <2>4, <2>5, NewFound
<1>4. CASE CallSucceeded
  <2> DEFINE d == Called(Top)
  <2>1. /\ stack # <<>> /\ stack' = Popped /\ ret' = "yes" /\ ret = "yes"
        /\ marked' = __addMD(d) /\ NonConstOps' = NonConstOps
    BY <1>4 DEF CallSucceeded, Desired, PointerUsers, Called
  <2>2. PICK u \in ReachedFrom({d}) : IsUpdate(u) /\ (u \in P.located => u \in marked)
    BY <2>1 DEF UpdateFound
  <2>3. d \in StoredValues(Top.ins) /\ d \in P.ins /\ Top.ins \in P.ins
    BY <2>1, PopFacts DEF TypeOK, UpdateFound, FrameSet, StoredValues
  <2>4. ASSUME stack' # <<>>
        PROVE  Called(Top)' = Top.ins /\ Top.ins \in StoredValues(Top'.ins)
    BY <1>0, <2>1, <2>4, ReturnsStored
  <2> HIDE DEF d
  <2>5. (\A i \in marked' : i \in marked \/ i = d) /\ marked \subseteq marked'
    BY <2>1 DEF __addMD
  <2>6. u \in ReachedFrom({Top.ins})
    <3>1. {Top.ins} \subseteq P.ins /\ Top.ins \in ReachedFrom({Top.ins})
      BY <2>3, ReachSelf
    <3>2. {d} \subseteq ReachedFrom({Top.ins})
      BY <2>3, <3>1, ReachStep
    <3>3. QED
      BY <3>1, <3>2, ReachTrans
  <2>7. ASSUME NEW i \in marked'
        PROVE  \E w \in ReachedFrom({i}) : IsUpdate(w) /\ (w \in P.located => w \in marked')
    <3>1. CASE i = d
      BY <2>2, <2>5, <3>1
    <3>2. CASE i \in marked
      BY <2>5, <3>2 DEF MarkedFlow
    <3>3. QED
      BY <2>5, <3>1, <3>2
  <2>8. \E w \in ReachedFrom(Candidates) : IsUpdate(w) /\ (w \in P.located => w \in marked')
    BY <2>1, <2>5 DEF UpdateFound
  <2>9. QED
    BY <1>0, <2>1, <2>2, <2>4, <2>5, <2>6, <2>7, <2>8, NewFound
<1>5. CASE TryCandidate
  BY <1>1, <1>5 DEF TryCandidate, SearchOver, OneUpdate
<1>6. CASE ReturnReject \/ UsersExhausted \/ CallFailed \/ SkipUser \/ Recurse
  BY <1>1, <1>6 DEF ReturnReject, UsersExhausted, CallFailed, SkipUser, Recurse, AtUser,
                    FollowedLoad, Running, OneUpdate
<1>7. CASE ScanHeader \/ ScanDone
  BY <1>1, <1>7 DEF ScanHeader, ScanDone, Waiting, OneUpdate
<1>8. CASE SearchDone \/ NullDereference \/ StackOverflow \/ Stopped \/ UNCHANGED vars
  BY <1>2, <1>8 DEF SearchDone, NullDereference, StackOverflow, Stopped, vars
<1>9. QED
  BY <1>3, <1>4, <1>5, <1>6, <1>7, <1>8 DEF Next

-----------------------------------------------------------------------------
(* The verdict *)

\* A search that has gone through all candidates in vain was among dead ends only.
LEMMA NotFoundIsDead ==
  ASSUME TypeOK, Exhausted, stack = <<>>, ret # "yes", cand > Len(NonConstOps),
         NEW i \in ReachedFrom(Candidates)
  PROVE  ~ IsUpdate(i) /\ ~ UnknownPointer(i) /\ ~ Cyclic(i)
<1>1. PICK c \in Candidates : i \in ReachedFrom({c})
  BY CandidateFacts, ReachMember
<1>2. PICK k \in 1..Len(NonConstOps) : c = NonConstOps[k]
  BY DEF Candidates
<1>3. k \in 1..(cand - 1)
  BY DEF TypeOK
<1>4. Dead(c)
  BY <1>2, <1>3 DEF Exhausted
<1>5. QED
  BY <1>1, <1>4 DEF Dead

\* Every step that ends the search (lines 388, 399 and 458-464) ends it as the flow
\* demands.
LEMMA VerdictStep ==
  ASSUME TypeOK, Waiting, Exhausted, StackReached, UpdateFound, VerdictCorrect, [Next]_vars
  PROVE  VerdictCorrect'
<1> DEFINE reached == ReachedFrom(Candidates)
<1>0. P' = P
  BY SameFunction
<1>1. CASE status' \notin Ended
  BY <1>1 DEF VerdictCorrect, Ended
<1>2. ASSUME NonConstOps' = NonConstOps,
             status' = "found" => \E i \in reached : IsUpdate(i),
             status' = "notfound" => \A i \in reached :
               ~ IsUpdate(i) /\ ~ UnknownPointer(i) /\ ~ Cyclic(i),
             status' = "nullderef" => \E i \in reached : UnknownPointer(i),
             status' = "overflow" =>
               (\E i \in reached : Cyclic(i)) \/ StackLimit <= Cardinality(AllLoads)
      PROVE  VerdictCorrect'
  <2>1. Candidates' = Candidates /\ AllLoads' = AllLoads
    BY <1>0, <1>2, CandidateFacts DEF AllLoads
  <2>2. ReachedFrom(Candidates)' = reached
    BY <1>0, <2>1, SameFlow
  <2>3. /\ \A i : IsUpdate(i)' <=> IsUpdate(i)
        /\ \A i : Cyclic(i)' <=> Cyclic(i)
        /\ \A i : UnknownPointer(i)' <=> UnknownPointer(i)
    BY <1>0, SameFlow DEF Cyclic, UnknownPointer
  <2> HIDE DEF reached
  <2>4. QED
    BY <1>2, <2>1, <2>2, <2>3 DEF VerdictCorrect
<1>3. CASE Stopped \/ UNCHANGED vars
  <2>1. NonConstOps' = NonConstOps /\ status' = status
    BY <1>3 DEF Stopped, vars
  <2>2. QED
    BY <1>2, <2>1 DEF VerdictCorrect
<1>4. CASE SearchDone
  <2>1. /\ NonConstOps' = NonConstOps /\ stack = <<>>
        /\ status' = IF ret = "yes" THEN "found" ELSE "notfound"
        /\ ret # "yes" => cand > Len(NonConstOps)
    BY <1>4 DEF SearchDone, SearchOver
  <2>2. CASE ret = "yes"
    BY <1>2, <2>1, <2>2 DEF UpdateFound
  <2>3. CASE ret # "yes"
    <3>1. \A i \in reached : ~ IsUpdate(i) /\ ~ UnknownPointer(i) /\ ~ Cyclic(i)
      BY <2>1, <2>3, NotFoundIsDead
    <3>2. QED
      BY <1>2, <2>1, <2>3, <3>1
  <2>4. QED
    BY <2>2, <2>3
<1>5. CASE NullDereference
  <2>1. NonConstOps' = NonConstOps /\ status' = "nullderef" /\ stack # <<>>
    BY <1>5 DEF NullDereference, FollowedLoad, Running
  <2>2. Top.ins \in reached
    BY <2>1, PopFacts DEF TypeOK, StackReached, Top
  <2>3. UnknownPointer(Top.ins)
    BY <1>5 DEF NullDereference, FollowedLoad, RejectedLoad, UnknownPointer
  <2>4. QED
    BY <1>2, <2>1, <2>2, <2>3
<1>6. CASE StackOverflow
  <2>1. /\ NonConstOps' = NonConstOps /\ status' = "overflow" /\ stack # <<>>
        /\ Len(stack) >= StackLimit /\ P.op[Top.ins] = "load"
    BY <1>6 DEF StackOverflow, AtUser, FollowedLoad, Running
  <2>2. Len(stack) \in Nat \ {0}
    BY <2>1, PopFacts DEF TypeOK
  <2>3. \A k \in 1..Len(stack) : P.op[stack[k].ins] = "load"
    <3>1. \A k \in 1..(Len(stack) - 1) : P.op[stack[k].ins] = "load"
      BY DEF Waiting, Calling
    <3>2. \A k \in 1..Len(stack) : k \in 1..(Len(stack) - 1) \/ k = Len(stack)
      BY <2>2
    <3>3. QED
      BY <2>1, <3>1, <3>2 DEF Top
  <2>4. Cardinality(AllLoads) \in Nat
    <3>1. IsFiniteSet(AllLoads)
      BY FS_Subset DEF TypeOK, WellFormed, AllLoads
    <3>2. QED
      BY <3>1, FS_CardinalityType
  <2>5. ASSUME ~ (StackLimit <= Cardinality(AllLoads))
        PROVE  \E i \in reached : Cyclic(i)
    <3>1. Len(stack) \in 1..Len(stack) /\ Len(stack) > Cardinality(AllLoads)
      BY <2>1, <2>2, <2>4, <2>5, StackAssumption
    <3>2. QED
      BY <2>3, <3>1, DeepIsCyclic
  <2>6. QED
    BY <1>2, <2>1, <2>5
<1>7. CASE \/ ScanHeader \/ ScanDone \/ TryCandidate \/ ReturnUpdate \/ ReturnReject
           \/ SkipUser \/ Recurse \/ UsersExhausted \/ CallSucceeded \/ CallFailed
  BY <1>1, <1>7 DEF ScanHeader, ScanDone, TryCandidate, ReturnUpdate, ReturnReject, SkipUser,
     Recurse, UsersExhausted, CallSucceeded, CallFailed, AtUser, FollowedLoad, Running, Ended
<1>8. QED
  BY <1>3, <1>4, <1>5, <1>6, <1>7 DEF Next

-----------------------------------------------------------------------------
(* Where candidates and marks come from *)

\* An operand that the scan appends is one of the header's starts.
LEMMA ScanStarts ==
  ASSUME TypeOK, Candidates \subseteq Starts, ScanHeader
  PROVE  Candidates' \subseteq Starts
<1> DEFINE i == P.header[scan]
           a == Candidate(P.arg0[i])
           b == Candidate(P.arg1[i])
<1>1. scan \in 1..Len(P.header) /\ P' = P
  BY DEF ScanHeader, TypeOK
<1>2. CASE ~ IsCandidateCompare(i)
  BY <1>2 DEF ScanHeader, Candidates
<1>3. CASE IsCandidateCompare(i)
  <2>1. NonConstOps' = NonConstOps \o a \o b
    BY <1>3 DEF ScanHeader
  <2>2. {P.arg0[i], P.arg1[i]} \cap P.inLoop \subseteq Starts
    BY <1>1, <1>3 DEF Starts
  <2>3. a \in Seq(Starts) /\ b \in Seq(Starts)
    <3>1. \A x \in Starts : <<x>> \in Seq(Starts)
      OBVIOUS
    <3>2. <<>> \in Seq(Starts)
      OBVIOUS
    <3>3. P.arg0[i] \in P.inLoop => P.arg0[i] \in Starts
      BY <2>2
    <3>4. P.arg1[i] \in P.inLoop => P.arg1[i] \in Starts
      BY <2>2
    <3> QED
      BY <3>1, <3>2, <3>3, <3>4, Zenon DEF Candidate
  <2>4. NonConstOps \in Seq(Starts)
    <3>1. NonConstOps \in Seq(P.inLoop)
      BY DEF TypeOK
    <3>2. \A k \in 1..Len(NonConstOps) : NonConstOps[k] \in Starts
      BY DEF Candidates
    <3> QED
      BY <3>1, <3>2
  <2> HIDE DEF a, b
  <2>5. NonConstOps' \in Seq(Starts)
    BY <2>1, <2>3, <2>4
  <2> QED
    BY <2>5 DEF Candidates
<1> QED
  BY <1>2, <1>3

\* Every step keeps candidates among the starts and marks on the flow from them.
LEMMA OriginsStep ==
  ASSUME TypeOK, Waiting, OneUpdate, StackReached, UpdateFound, Origins, [Next]_vars
  PROVE  Origins'
<1>0. P' = P
  BY SameFunction
<1>1. Starts' = Starts /\ \A S : ReachedFrom(S)' = ReachedFrom(S)
  BY <1>0, SameFlow DEF Starts, IsCandidateCompare, CompareInstDeterminesLoopExitCondition
<1>2. ASSUME NonConstOps' = NonConstOps, marked' \subseteq ReachedFrom(Candidates),
             status' = "found" => ret' = "yes", status' = "notfound" => ret' # "yes"
      PROVE  Origins'
  <2>1. Candidates' = Candidates
    BY <1>2, CandidateFacts
  <2> QED
    BY <1>1, <1>2, <2>1 DEF Origins
<1>3. CASE ScanHeader
  <2>1. status' = "scanning" /\ marked' = {}
    BY <1>3 DEF ScanHeader, Waiting, OneUpdate
  <2>2. Candidates' \subseteq Starts
    BY <1>3, ScanStarts DEF Origins
  <2> QED
    BY <1>1, <2>1, <2>2 DEF Origins
<1>4. CASE ReturnUpdate
  <2>1. /\ NonConstOps' = NonConstOps /\ status' = "searching" /\ stack # <<>>
        /\ marked' = __addMD(Top.ins)
    BY <1>4 DEF ReturnUpdate, Running
  <2>2. Top.ins \in ReachedFrom(Candidates)
    BY <2>1, PopFacts DEF TypeOK, StackReached, Top
  <2>3. marked' \subseteq ReachedFrom(Candidates)
    BY <2>1, <2>2 DEF Origins, __addMD
  <2> QED
    BY <1>2, <2>1, <2>3
<1>5. CASE CallSucceeded
  <2> DEFINE d == Called(Top)
  <2>1. /\ NonConstOps' = NonConstOps /\ status' = "searching" /\ stack # <<>> /\ ret = "yes"
        /\ marked' = __addMD(d)
    BY <1>5 DEF CallSucceeded, Desired, PointerUsers, Called
  <2>2. Top.ins \in ReachedFrom(Candidates)
    BY <2>1, PopFacts DEF TypeOK, StackReached, Top
  <2>3. d \in StoredValues(Top.ins)
    BY <2>1 DEF UpdateFound
  <2> HIDE DEF d
  <2>4. d \in ReachedFrom(Candidates)
    BY <2>2, <2>3, CandidateFacts, ReachStep
  <2>5. marked' \subseteq ReachedFrom(Candidates)
    BY <2>1, <2>4 DEF Origins, __addMD
  <2> QED
    BY <1>2, <2>1, <2>5
<1>6. CASE SearchDone
  <2>1. NonConstOps' = NonConstOps /\ marked' = marked /\ ret' = ret
        /\ status' = IF ret = "yes" THEN "found" ELSE "notfound"
    BY <1>6 DEF SearchDone
  <2> QED
    BY <1>2, <2>1 DEF Origins
<1>7. CASE Stopped \/ UNCHANGED vars
  <2>1. UNCHANGED <<NonConstOps, marked, ret, status>>
    BY <1>7 DEF Stopped, vars
  <2> QED
    BY <1>2, <2>1 DEF Origins
<1>8. CASE \/ ScanDone \/ TryCandidate \/ ReturnReject \/ NullDereference \/ SkipUser \/ Recurse
           \/ StackOverflow \/ UsersExhausted \/ CallFailed
  <2>1. UNCHANGED <<NonConstOps, marked>> /\ status' \in {"searching", "nullderef", "overflow"}
    BY <1>8 DEF ScanDone, TryCandidate, ReturnReject, NullDereference, SkipUser, Recurse,
                StackOverflow, UsersExhausted, CallFailed, AtUser, FollowedLoad, Running
  <2> QED
    BY <1>2, <2>1 DEF Origins
<1> QED
  BY <1>3, <1>4, <1>5, <1>6, <1>7, <1>8 DEF Next

\* No step takes a mark away (line 202 only adds metadata).
LEMMA MarkedGrows == ASSUME [Next]_vars PROVE marked \subseteq marked'
  BY DEF Next, vars, ScanHeader, ScanDone, TryCandidate, SearchDone, ReturnUpdate,
         ReturnReject, NullDereference, SkipUser, Recurse, StackOverflow, UsersExhausted,
         CallSucceeded, CallFailed, Stopped, __addMD

-----------------------------------------------------------------------------
(* The theorems *)

\* The search begins with nothing tried and nothing found.
LEMMA FlowStart ==
  ASSUME scan = 1, NonConstOps = <<>>, cand = 1, stack = <<>>, ret = "none",
         marked = {}, status = "scanning"
  PROVE  FlowInv
<1>1. Len(stack) = 0 /\ Candidates = {}
  BY DEF Candidates
<1>2. QED
  BY <1>1 DEF FlowInv, Exhausted, StackReached, UpdateFound, MarkedFlow, VerdictCorrect, Origins

\* A step of the search keeps both parts of its invariant.
LEMMA FlowStep ==
  ASSUME TypeOK, Waiting, StackChain, OneUpdate, LastMarked, FlowInv, [Next]_vars
  PROVE  /\ TypeOK' /\ Waiting' /\ StackChain' /\ OneUpdate' /\ LastMarked'
         /\ FlowInv'
  BY TypeStep, WaitingStep, ChainStep, MarkStep, ExhaustedStep, ReachedStep, FoundStep,
     VerdictStep, OriginsStep DEF FlowInv

\* The search of isInductionVariableUpdate (lines 328-414) follows the flow through
\* memory throughout: what it has passed is a dead end, what it is in is reached,
\* what it has marked leads to an update.
THEOREM FlowInvariant == Spec => []FlowInv
<1>1. Init => FlowInv
  BY FlowStart DEF Init
<1>2. IInv /\ FlowInv /\ [Next]_vars => FlowInv'
  BY FlowStep DEF IInv
<1>3. QED
  BY InductiveInvariant, <1>1, <1>2, PTL DEF Spec

\* FindIndVarUpdateCandidates answers what the data flow says: for any loop, any
\* use lists and any number of candidates, the search without a visited set misses
\* no update, finds none that does not flow into a compare of the header, and dies
\* only of a load through an unknown pointer (line 388) or of a recursion (line
\* 399) that closes on itself or is longer than the stack.
THEOREM VerdictAnswersFlow == Spec => []VerdictCorrect
<1>1. FlowInv => VerdictCorrect
  BY DEF FlowInv
<1>2. QED
  BY FlowInvariant, <1>1, PTL

\* Whatever __addMD marks at any depth (line 409) is an update or a load that a
\* marked update flows into.
THEOREM MarkedFlowCorrect == Spec => []MarkedFlow
<1>1. FlowInv => MarkedFlow
  BY DEF FlowInv
<1>2. QED
  BY FlowInvariant, <1>1, PTL

\* The recursion of line 399 is no deeper than the function has loads, plus one,
\* where no chain of loads and stores closes on itself.
THEOREM DepthBoundedCorrect == Spec => []DepthBounded
<1>1. IInv /\ FlowInv => DepthBounded
  BY DepthHolds DEF IInv, FlowInv
<1>2. QED
  BY InductiveInvariant, FlowInvariant, <1>1, PTL

=============================================================================
