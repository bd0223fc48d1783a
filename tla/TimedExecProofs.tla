-------------------------- MODULE TimedExecProofs --------------------------
(***************************************************************************)
(* Proofs about TimedExec for every time limit and every number of reuses  *)
(* of the process id.                                                      *)
(***************************************************************************)
EXTENDS TimedExec, TLAPS

USE TimeoutAssumption, ReuseAssumption

\* In the initial states nothing was slept, sent or freed.
LEMMA InitHolds == Init => IInv
  BY DEF Init, IInv, TypeOK, Holders, Signals, Steps, NoSurvivor, Elapsed, Escalated,
         SignalsInTime, Lag

\* Every step keeps the variables within their types; for SEC this needs that the
\* watchdog polls only below TIMEOUT.
LEMMA TypeStep ==
  ASSUME TypeOK, Elapsed, [Next]_vars
  PROVE  TypeOK'
<1> USE DEF TypeOK, Holders, Signals, Steps, history
<1>1. CASE Script
  BY <1>1 DEF Script, Usage, StartWatchdog, Exec
<1>2. CASE Exit \/ OtherEnds
  BY <1>2 DEF Exit, OtherEnds
<1>3. CASE Reap
  BY <1>3 DEF Reap
<1>4. CASE Reuse
  BY <1>4 DEF Reuse
<1>5. CASE Delivery
  BY <1>5 DEF Delivery, Deliver
<1>6. CASE Sleep
  BY <1>6 DEF Sleep
<1>7. CASE TimeUp
  BY <1>7 DEF TimeUp
<1>8. CASE Poll
  BY <1>8 DEF Poll, Elapsed
<1>9. ASSUME NEW sig \in Signals, Kill(sig)
      PROVE  TypeOK'
  <2>1. AfterKill(sig) \in Steps
    BY DEF AfterKill
  <2>2. [sig |-> sig, to |-> holder, at |-> slept] \in [sig : Signals, to : Holders, at : Nat]
    OBVIOUS
  <2> QED
    BY <1>9, <2>1, <2>2 DEF Kill
<1>10. ASSUME NEW sig \in Signals, Grace(sig)
      PROVE  TypeOK'
  BY <1>10 DEF Grace
<1>11. CASE Finished \/ UNCHANGED vars
  BY <1>11 DEF Finished, vars
<1> QED
  BY <1>1, <1>2, <1>3, <1>4, <1>5, <1>6, <1>7, <1>8, <1>9, <1>10, <1>11
     DEF Next, Watchdog

\* A process that ended does not run again, so a failed kill finds none running;
\* a KILL on its way is not caught.
LEMMA SurvivorStep ==
  ASSUME TypeOK, NoSurvivor, [Next]_vars
  PROVE  NoSurvivor'
<1> USE DEF NoSurvivor, Running, history
<1>1. CASE Script
  BY <1>1 DEF Script, Usage, StartWatchdog, Exec
<1>2. CASE Exit \/ Reap \/ Reuse \/ OtherEnds
  BY <1>2 DEF Exit, Reap, Reuse, OtherEnds
<1>3. ASSUME NEW sig \in Signals, Deliver(sig)
      PROVE  NoSurvivor'
  BY <1>3 DEF Deliver, Fatal, TypeOK
<1>4. CASE Sleep \/ TimeUp \/ Poll
  BY <1>4 DEF Sleep, TimeUp, Poll, ParentGone, KillSucceeds
<1>5. ASSUME NEW sig \in Signals, Kill(sig)
      PROVE  NoSurvivor'
  BY <1>5 DEF Kill, KillSucceeds, AfterKill, Signals
<1>6. ASSUME NEW sig \in Signals, Grace(sig)
      PROVE  NoSurvivor'
  BY <1>6 DEF Grace, Signals
<1>7. CASE Finished \/ UNCHANGED vars
  BY <1>7 DEF Finished, vars
<1> QED
  BY <1>1, <1>2, <1>3, <1>4, <1>5, <1>6, <1>7 DEF Next, Watchdog, Delivery

\* The seconds slept are those counted, until the time is up; from then on each
\* stage has the signals of the stages before it behind it.
LEMMA TimeStep ==
  ASSUME TypeOK, Elapsed, Escalated, SignalsInTime, [Next]_vars
  PROVE  Elapsed' /\ Escalated' /\ SignalsInTime'
<1> USE DEF Elapsed, Escalated, history
<1>1. ASSUME UNCHANGED <<wd, SEC, slept, sent>>
      PROVE  Elapsed' /\ Escalated' /\ SignalsInTime'
  BY <1>1 DEF SignalsInTime
<1>2. CASE StartWatchdog
  BY <1>2 DEF StartWatchdog, SignalsInTime
<1>3. CASE Sleep
  BY <1>3 DEF Sleep, While, TypeOK, SignalsInTime
<1>4. CASE Poll
  BY <1>4 DEF Poll, TypeOK, SignalsInTime
<1>5. CASE TimeUp
  BY <1>5 DEF TimeUp, While, TypeOK, SignalsInTime
<1>6. ASSUME NEW sig \in Signals, Kill(sig)
      PROVE  Elapsed' /\ Escalated' /\ SignalsInTime'
  <2> DEFINE s == [sig |-> sig, to |-> holder, at |-> slept]
  <2>1. CASE ~ KillSucceeds
    BY <1>6, <2>1 DEF Kill, SignalsInTime
  <2>2. CASE KillSucceeds
    <3>1. wd' = AfterKill(sig) /\ sent' = sent \cup {s} /\ wd = sig
          /\ slept' = slept /\ SEC' = SEC
      BY <1>6, <2>2 DEF Kill
    <3>2. s.sig = sig /\ s.at = slept /\ s \in sent' /\ slept \in Nat
      BY <3>1 DEF TypeOK
    <3> HIDE DEF s
    <3> DEFINE Behind(x) ==
          /\ x.at >= Due(x.sig)
          /\ x.sig # "TERM" => \E t \in sent : t.sig = "TERM" /\ t.at + 2 <= x.at
          /\ x.sig = "KILL" => \E t \in sent : t.sig = "HUP" /\ t.at + 2 <= x.at
    <3>3. Behind(s)
      BY <3>1, <3>2 DEF Due, Signals
    <3>4. \A x \in sent : Behind(x)
      BY DEF SignalsInTime
    <3>5. \A x \in sent' : Behind(x)
      BY <3>1, <3>3, <3>4
    <3>6. SignalsInTime'
      BY <3>1, <3>5 DEF SignalsInTime
    <3> HIDE DEF Behind
    <3>7. CASE sig = "TERM"
      BY <3>1, <3>2, <3>6, <3>7 DEF AfterKill
    <3>8. CASE sig = "HUP"
      BY <3>1, <3>2, <3>6, <3>8 DEF AfterKill
    <3>9. CASE sig = "KILL"
      BY <3>1, <3>2, <3>6, <3>9 DEF AfterKill
    <3> QED
      BY <3>7, <3>8, <3>9 DEF Signals
  <2> QED
    BY <2>1, <2>2
<1>7. ASSUME NEW sig \in Signals, Grace(sig)
      PROVE  Elapsed' /\ Escalated' /\ SignalsInTime'
  <2>1. \A t \in sent : t.at \in Nat
    BY DEF TypeOK
  <2>2. slept \in Nat /\ slept' = slept + 2 /\ sent' = sent /\ wd' = sig
    BY <1>7 DEF Grace, TypeOK
  <2>3. SignalsInTime'
    BY <2>2 DEF SignalsInTime
  <2>4. CASE wd = "sleepHUP" /\ sig = "HUP"
    BY <2>1, <2>2, <2>3, <2>4
  <2>5. CASE wd = "sleepKILL" /\ sig = "KILL"
    BY <2>1, <2>2, <2>3, <2>5
  <2> QED
    BY <1>7, <2>4, <2>5 DEF Grace
<1>8. CASE Usage \/ Exec \/ Exit \/ Delivery \/ Reap \/ Reuse \/ OtherEnds
           \/ Finished \/ UNCHANGED vars
  <2>1. UNCHANGED <<wd, SEC, slept, sent>>
    BY <1>8 DEF Usage, Exec, Exit, Delivery, Deliver, Reap, Reuse, OtherEnds, Finished, vars
  <2> QED
    BY <1>1, <2>1
<1> QED
  BY <1>2, <1>3, <1>4, <1>5, <1>6, <1>7, <1>8 DEF Next, Script, Watchdog

\* What the watchdog can still sleep through once the id is free and unused.
LEMMA LagStep ==
  ASSUME TypeOK, Lag, [Next]_vars
  PROVE  Lag'
<1> USE DEF Lag, history, TypeOK, Steps, Signals, Holders
<1>1. CASE Script
  BY <1>1 DEF Script, Usage, StartWatchdog, Exec
<1>2. CASE Exit \/ OtherEnds
  BY <1>2 DEF Exit, OtherEnds
<1>3. CASE Reap
  BY <1>3 DEF Reap
<1>4. CASE Reuse
  BY <1>4 DEF Reuse
<1>5. CASE Delivery
  BY <1>5 DEF Delivery, Deliver, Running
<1>6. CASE Sleep \/ TimeUp
  BY <1>6 DEF Sleep, TimeUp
<1>7. CASE Poll
  BY <1>7 DEF Poll, ParentGone, KillSucceeds
<1>8. ASSUME NEW sig \in Signals, Kill(sig)
      PROVE  Lag'
  BY <1>8 DEF Kill, KillSucceeds
<1>9. ASSUME NEW sig \in Signals, Grace(sig)
      PROVE  Lag'
  BY <1>9 DEF Grace
<1>10. CASE Finished \/ UNCHANGED vars
  BY <1>10 DEF Finished, vars
<1> QED
  BY <1>1, <1>2, <1>3, <1>4, <1>5, <1>6, <1>7, <1>8, <1>9, <1>10 DEF Next, Watchdog

\* IInv holds in every state of the watchdog, the program and the system.
THEOREM InductiveInvariant == Spec => []IInv
<1>1. ASSUME IInv, [Next]_vars
      PROVE  IInv'
  BY <1>1, TypeStep, SurvivorStep, TimeStep, LagStep DEF IInv
<1> QED
  BY <1>1, InitHolds, PTL DEF Spec

\* Types, for any time limit.
THEOREM TypeCorrect == Spec => []TypeOK
  BY InductiveInvariant, PTL DEF IInv

\* The watchdog ends only when the program has ended or KILL is on its way.
THEOREM NoSurvivorCorrect == Spec => []NoSurvivor
  BY InductiveInvariant, PTL DEF IInv

\* TERM, HUP and KILL are sent when they are due and in this order.
THEOREM SignalsInTimeCorrect == Spec => []SignalsInTime
  BY InductiveInvariant, PTL DEF IInv

\* The watchdog sleeps two seconds at most once the id is free.
THEOREM WatchdogFollowsCorrect == Spec => []WatchdogFollows
<1>1. IInv => WatchdogFollows
  BY DEF IInv, Lag, WatchdogFollows, TypeOK, Steps, Signals
<1> QED
  BY <1>1, InductiveInvariant, PTL

=============================================================================
