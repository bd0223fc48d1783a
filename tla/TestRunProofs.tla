--------------------------- MODULE TestRunProofs ---------------------------
(***************************************************************************)
(* For any number of builds: RunDiff.sh's verdict and the times on file    *)
(* are of the present executable.                                          *)
(***************************************************************************)
EXTENDS TestRun, TLAPS

\* An empty directory satisfies the invariant.
LEMMA InitInv == Init => IInv
<1> SUFFICES ASSUME Init
             PROVE  IInv
  OBVIOUS
<1> USE DEF Init
<1>1. TypeOK
  <2>1. 0 \in 0..MaxBuild /\ 0 \in 0..0
    BY BuildAssumption
  <2>2. NoExe \in [build : 0..MaxBuild, output : {"right", "wrong"}, end : Ends]
    BY <2>1 DEF NoExe, Ends
  <2>3. QED
    BY <2>1, <2>2 DEF TypeOK, NoExe, NoVerdict
<1>2. Recipe
  BY DEF Recipe, InRecipe
<1>3. RunOf
  BY DEF RunOf
<1>4. VerdictHonest
  BY DEF VerdictHonest, NoVerdict
<1>5. QED
  BY <1>1, <1>2, <1>3, <1>4 DEF IInv

\* Types are kept by every action.
LEMMA TypeStep == IInv /\ [Next]_vars => TypeOK'
<1> SUFFICES ASSUME IInv, [Next]_vars
             PROVE  TypeOK'
  OBVIOUS
<1> USE BuildAssumption DEF IInv, TypeOK, files, Stop, AfterTest
<1>0. 0 \in 0..exe.build
  OBVIOUS
<1>1. UNCHANGED vars => TypeOK'
  BY DEF vars
<1>2. ASSUME NEW g \in {"test", "compare"}, Invoke(g) PROVE TypeOK'
  BY <1>2 DEF Invoke
<1>3. BuildExe => TypeOK'
  <2> SUFFICES ASSUME BuildExe
               PROVE  TypeOK'
    OBVIOUS
  <2>1. PICK b \in Behaviours :
          exe' = [build |-> exe.build + 1, output |-> b.output, end |-> b.end]
    BY DEF BuildExe
  <2>2. b.output \in {"right", "wrong"} /\ b.end \in Ends
    BY DEF Behaviours
  <2>3. exe.build + 1 \in 0..MaxBuild /\ time \in 0..(exe.build + 1)
                                       /\ kept \in 0..(exe.build + 1)
    BY DEF BuildExe
  <2>4. /\ exe' \in [build : 0..MaxBuild, output : {"right", "wrong"}, end : Ends]
        /\ exe'.build = exe.build + 1
    BY <2>1, <2>2, <2>3
  <2>5. time' \in 0..exe'.build /\ kept' \in 0..exe'.build
    BY <2>3, <2>4 DEF BuildExe
  <2>6. UNCHANGED <<bench, out, own, goal, ended, verdict, killed>>
    BY DEF BuildExe
  <2>7. stale' = FALSE /\ pc' = "target" /\ ran' = "no"
    BY DEF BuildExe
  <2>8. /\ out' \in {"absent", "partial", "right", "wrong", "expected", "spoilt"}
        /\ own' \in {"absent", "right", "wrong"} /\ goal' \in {"none", "test", "compare"}
        /\ ended' \in {"none", "done", "error", "interrupted", "killed"}
    BY <2>6
  <2>9. /\ bench' \in Benchmarks
        /\ verdict' \in [says : {"none", "nothing", "ok", "failed"},
                         passes : BOOLEAN, killed : BOOLEAN, blind : BOOLEAN]
        /\ stale' \in BOOLEAN /\ killed' \in BOOLEAN
    BY <2>6, <2>7
  <2>10. QED
    BY <2>4, <2>5, <2>7, <2>8, <2>9, Zenon
<1>4. BuildFails => TypeOK'
  BY DEF BuildFails
<1>5. ExeCurrent => TypeOK'
  BY DEF ExeCurrent
<1>6. TargetCurrent => TypeOK'
  BY DEF TargetCurrent
<1>7. StartRun => TypeOK'
  BY DEF StartRun
<1>8. LimitsFail => TypeOK'
  BY DEF LimitsFail
<1>9. StartProgram => TypeOK'
  BY DEF StartProgram
<1>10. StartRefused => TypeOK'
  BY DEF StartRefused
<1>11. ProgramEnds => TypeOK'
  BY DEF ProgramEnds
<1>12. AppendExit => TypeOK'
  BY DEF AppendExit
<1>13. Rename => TypeOK'
  BY <1>0 DEF Rename
<1>14. Compare => TypeOK'
  BY DEF Compare, Unpacked, Says, Passes
<1>15. Interrupt => TypeOK'
  BY DEF Interrupt
<1>16. Kill => TypeOK'
  BY DEF Kill
<1>17. Outdate => TypeOK'
  BY DEF Outdate
<1>18. Cleanall => TypeOK'
  BY <1>0 DEF Cleanall
<1>19. QED
  BY <1>1, <1>2, <1>3, <1>4, <1>5, <1>6, <1>7, <1>8, <1>9, <1>10, <1>11, <1>12, <1>13,
     <1>14, <1>15, <1>16, <1>17, <1>18 DEF Next, MakeStep

\* Only a kill leaves a target: every other way out of the recipe removes it.
LEMMA RecipeStep == IInv /\ [Next]_vars => Recipe'
<1> SUFFICES ASSUME IInv, [Next]_vars
             PROVE  Recipe'
  OBVIOUS
<1> USE BuildAssumption DEF IInv, TypeOK, Recipe, InRecipe, files, Stop, AfterTest
<1>1. UNCHANGED vars => Recipe'
  BY DEF vars
<1>2. ASSUME NEW g \in {"test", "compare"}, Invoke(g) PROVE Recipe'
  BY <1>2 DEF Invoke
<1>3. BuildExe => Recipe'
  BY DEF BuildExe
<1>4. BuildFails => Recipe'
  BY DEF BuildFails
<1>5. ExeCurrent => Recipe'
  BY DEF ExeCurrent
<1>6. TargetCurrent => Recipe'
  BY DEF TargetCurrent
<1>7. StartRun => Recipe'
  BY DEF StartRun
<1>8. LimitsFail => Recipe'
  BY DEF LimitsFail
<1>9. StartProgram => Recipe'
  BY DEF StartProgram
<1>10. StartRefused => Recipe'
  BY DEF StartRefused
<1>11. ProgramEnds => Recipe'
  BY DEF ProgramEnds
<1>12. AppendExit => Recipe'
  BY DEF AppendExit
<1>13. Rename => Recipe'
  BY DEF Rename
<1>14. Compare => Recipe'
  BY DEF Compare
<1>15. Interrupt => Recipe'
  BY DEF Interrupt
<1>16. Kill => Recipe'
  BY DEF Kill
<1>17. Outdate => Recipe'
  BY DEF Outdate
<1>18. Cleanall => Recipe'
  BY DEF Cleanall
<1>19. QED
  BY <1>1, <1>2, <1>3, <1>4, <1>5, <1>6, <1>7, <1>8, <1>9, <1>10, <1>11, <1>12, <1>13,
     <1>14, <1>15, <1>16, <1>17, <1>18 DEF Next, MakeStep

\* What the recipe writes is of the present build, and what was there before it is
\* overwritten or spoilt.
LEMMA RunOfStep == IInv /\ [Next]_vars => RunOf'
<1> SUFFICES ASSUME IInv, [Next]_vars
             PROVE  RunOf'
  OBVIOUS
<1> USE BuildAssumption DEF IInv, TypeOK, Recipe, InRecipe, RunOf, Passes, files, Stop, AfterTest
<1>1. UNCHANGED vars => RunOf'
  BY DEF vars
<1>2. ASSUME NEW g \in {"test", "compare"}, Invoke(g) PROVE RunOf'
  BY <1>2 DEF Invoke
<1>3. BuildExe => RunOf'
  BY DEF BuildExe
<1>4. BuildFails => RunOf'
  BY DEF BuildFails
<1>5. ExeCurrent => RunOf'
  BY DEF ExeCurrent
<1>6. TargetCurrent => RunOf'
  BY DEF TargetCurrent, Current
<1>7. StartRun => RunOf'
  BY DEF StartRun
<1>8. LimitsFail => RunOf'
  BY DEF LimitsFail
<1>9. StartProgram => RunOf'
  BY DEF StartProgram
<1>10. StartRefused => RunOf'
  BY DEF StartRefused
<1>11. ProgramEnds => RunOf'
  BY DEF ProgramEnds
<1>12. AppendExit => RunOf'
  BY DEF AppendExit, exitval, Ends
<1>13. Rename => RunOf'
  BY DEF Rename
<1>14. Compare => RunOf'
  BY DEF Compare, Unpacked
<1>15. Interrupt => RunOf'
  BY DEF Interrupt
<1>16. Kill => RunOf'
  BY DEF Kill
<1>17. Outdate => RunOf'
  BY DEF Outdate
<1>18. Cleanall => RunOf'
  BY DEF Cleanall
<1>19. QED
  BY <1>1, <1>2, <1>3, <1>4, <1>5, <1>6, <1>7, <1>8, <1>9, <1>10, <1>11, <1>12, <1>13,
     <1>14, <1>15, <1>16, <1>17, <1>18 DEF Next, MakeStep

\* Whatever the benchmark: with OUTFILE among the files compared, RunDiff.sh has a
\* pair to look at, sees a wrong OUTFILE if /tmp/diff$$ can be written, and of a
\* right own file it says nothing.
LEMMA SaysOutput ==
  ASSUME bench \in Benchmarks, Compares, NEW verbose \in BOOLEAN, NEW written \in BOOLEAN
  PROVE  /\ Says(verbose, written) \in {"ok", "failed"}
         /\ written /\ out = "spoilt" => Says(verbose, written) = "failed"
         /\ out = "expected" /\ (bench.writes => own = "right") => Says(verbose, written) = "ok"
<1>1. bench \in {Hanoi, Dijkstra, Susan}
  BY DEF Benchmarks, Compares, Hanoi, Dijkstra, Susan, Fir, Adpcm, Mst, L2lat
<1>2. /\ bench.args \in {2, 4}
      /\ \/ bench.pairs = {<<"expected", "out">>}
         \/ bench.pairs = {<<"expectedOwn", "own">>, <<"expected", "out">>} /\ bench.writes
  BY <1>1 DEF Hanoi, Dijkstra, Susan
<1>3. Unpacked = out
  BY <1>2 DEF Unpacked
<1>4. Differ("expected", "out", written) <=> written /\ out # "expected" /\ out # "absent"
  BY <1>3 DEF Differ, Content
<1>5. own = "right" => ~ Differ("expectedOwn", "own", written)
  BY DEF Differ, Content
<1> DEFINE differ == \E p \in bench.pairs : Differ(p[1], p[2], written)
<1>6. written /\ out = "spoilt" => differ
  <2>1. <<"expected", "out">> \in bench.pairs
    BY <1>2
  <2>2. QED
    BY <2>1, <1>4
<1>7. out = "expected" /\ (bench.writes => own = "right") => ~ differ
  <2>1. CASE bench.pairs = {<<"expected", "out">>}
    BY <2>1, <1>4
  <2>2. CASE bench.pairs = {<<"expectedOwn", "own">>, <<"expected", "out">>} /\ bench.writes
    BY <2>2, <1>4, <1>5
  <2>3. QED
    BY <1>2, <2>1, <2>2
<1>8. Says(verbose, written) = IF differ THEN "failed" ELSE "ok"
  BY <1>2 DEF Says
<1> HIDE DEF differ
<1>9. QED
  BY <1>6, <1>7, <1>8

\* Only the comparison itself changes the verdict; RunOf is what it finds.
LEMMA VerdictStep == IInv /\ [Next]_vars => VerdictHonest'
<1> SUFFICES ASSUME IInv, [Next]_vars
             PROVE  VerdictHonest'
  OBVIOUS
<1> USE DEF IInv
<1>1. CASE UNCHANGED <<bench, verdict>>
  BY <1>1 DEF VerdictHonest, Compares
<1>2. CASE Compare
  <2>1. PICK verbose \in BOOLEAN, written \in BOOLEAN :
          verdict' = [says |-> Says(verbose, written), passes |-> Passes, killed |-> killed,
                      blind |-> ran = "refused" \/ ~ written]
    BY <1>2 DEF Compare
  <2>2. /\ verdict'.says = Says(verbose, written) /\ verdict'.passes = Passes
        /\ verdict'.killed = killed /\ verdict'.blind = (ran = "refused" \/ ~ written)
    BY <2>1
  <2>3. UNCHANGED bench
    BY <1>2 DEF Compare
  <2>4. SUFFICES ASSUME Compares PROVE VerdictHonest'
    BY <2>3 DEF VerdictHonest, Compares
  <2>5. Says(verbose, written) \in {"ok", "failed"}
    BY <2>4, SaysOutput DEF TypeOK
  <2>6. ASSUME ~ killed, ran # "refused", written, ~ Passes
        PROVE  Says(verbose, written) = "failed"
    <3>1. out = "spoilt"
      BY <1>2, <2>6 DEF Compare, RunOf
    <3>2. QED
      BY <2>4, <2>6, <3>1, SaysOutput DEF TypeOK
  <2>7. ASSUME ~ killed, Passes
        PROVE  Says(verbose, written) = "ok"
    <3>1. out = "expected" /\ (bench.writes => own = "right")
      BY <1>2, <2>7 DEF Compare, RunOf, Passes
    <3>2. QED
      BY <2>4, <3>1, SaysOutput DEF TypeOK
  <2>8. QED
    BY <2>2, <2>5, <2>6, <2>7 DEF VerdictHonest
<1>3. QED
  BY <1>1, <1>2 DEF Next, MakeStep, vars, files, Invoke, BuildExe, BuildFails, ExeCurrent,
     TargetCurrent, StartRun, LimitsFail, StartProgram, StartRefused, ProgramEnds,
     AppendExit, Rename, Interrupt, Kill, Outdate, Cleanall

\* Recipe and RunOf carry the verdict from the run to the comparison.
THEOREM InductiveInvariant == Spec => []IInv
<1>1. IInv /\ [Next]_vars => IInv'
  BY TypeStep, RecipeStep, RunOfStep, VerdictStep DEF IInv
<1>2. QED
  BY InitInv, <1>1, PTL DEF Spec

\* Every step of make and of the scripts keeps each variable in its type: no
\* file ever holds anything but the contents the comparison distinguishes.
THEOREM TypeCorrect == Spec => []TypeOK
<1>1. IInv => TypeOK
  BY DEF IInv
<1>2. QED
  BY InductiveInvariant, <1>1, PTL

\* After any number of builds, runs, interrupts and kills, RunDiff.sh's "Failed"
\* (lines 52-56) is true of the present executable as long as no target left by a
\* kill is still there, and so is its "Ok" if OUTFILE and /tmp/diff$$ were written.
THEOREM VerdictCorrect == Spec => []VerdictHonest
<1>1. IInv => VerdictHonest
  BY DEF IInv
<1>2. QED
  BY InductiveInvariant, <1>1, PTL

\* After a complete `make test' the one time on file is the recipe's for the present
\* executable (Makefile.benchmark:83-92).
THEOREM ReportFreshCorrect == Spec => []ReportFresh
<1>1. IInv => ReportFresh
  BY DEF IInv, TypeOK, Recipe, RunOf, ReportFresh, TimeFiles, InRecipe
<1>2. QED
  BY InductiveInvariant, <1>1, PTL

=============================================================================
