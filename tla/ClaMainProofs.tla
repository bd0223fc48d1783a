--------------------------- MODULE ClaMainProofs ---------------------------
(***************************************************************************)
(* Proofs about ClaMain for any number of versions of the input: whatever  *)
(* fails, is interrupted or is rebuilt, make never takes a file that is    *)
(* incomplete or stale for the output of cla.                              *)
(***************************************************************************)
EXTENDS ClaMain, SequenceTheorems, TLAPS

-----------------------------------------------------------------------------
(* Type correctness *)

\* What print_csv_file, keep() and the removal of the output leave on disk.
LEMMA FileTypes ==
  ASSUME mod \in Modules, out \in Files
  PROVE  /\ NoModule \in Modules
         /\ Absent \in Files /\ Partial \in Files /\ Complete(mod) \in Files
         /\ Discarded \in Files /\ Cleanup \in Files
<1>1. 0 \in 0..MaxVersion
  BY VersionAssumption
<1>2. NoModule \in Modules
  BY <1>1 DEF NoModule, Modules
<1>3. /\ Absent \in Files /\ Partial \in Files /\ Complete(mod) \in Files
  BY <1>2 DEF Absent, Partial, Complete, File, Files
<1>4. QED
  BY <1>2, <1>3 DEF Discarded, Cleanup

\* The passes of lines 110-122 are queued in a sequence, which -cse runs as a set.
LEMMA PassTypes ==
  ASSUME Passes \in Seq(PassNames), mod \in Modules
  PROVE  /\ EarlyPasses => Passes' \in Seq(PassNames) /\ mod' \in Modules
         /\ LatePasses => Passes' \in Seq(PassNames)
<1>1. ASSUME NEW a \in PassNames PROVE <<a>> \in Seq(PassNames)
  OBVIOUS
<1>2. <<>> \in Seq(PassNames)
  BY EmptySeq
<1>3. ASSUME NEW s \in Seq(PassNames), NEW t \in Seq(PassNames)
      PROVE  s \o t \in Seq(PassNames)
  BY ConcatProperties
<1>4. ASSUME EarlyPasses PROVE Passes' \in Seq(PassNames) /\ mod' \in Modules
  <2> DEFINE s == IF flags.Mem2Reg THEN <<"mem2reg">> ELSE <<>>
             t == IF flags.CSE THEN <<"cse">> ELSE <<>>
  <2>1. s \in Seq(PassNames) /\ t \in Seq(PassNames)
    BY <1>1, <1>2 DEF PassNames
  <2>2. Passes' = s \o t
    BY <1>4 DEF EarlyPasses
  <2> HIDE DEF s, t
  <2>3. Passes' \in Seq(PassNames)
    BY <1>3, <2>1, <2>2
  <2>4. Queued \subseteq PassNames
    BY <2>3, ElementOfSeq, LenProperties DEF Queued
  <2>5. mod' \in Modules
    BY <1>4, <2>4 DEF EarlyPasses, Modules
  <2>6. QED
    BY <2>3, <2>5
<1>5. ASSUME LatePasses PROVE Passes' \in Seq(PassNames)
  <2>1. <<"mem2reg", "loopsimplify">> \in Seq(PassNames)
    BY DEF PassNames
  <2>2. QED
    BY <1>3, <1>5, <2>1 DEF LatePasses
<1>6. QED
  BY <1>4, <1>5

\* Every step keeps the variables within their types.
LEMMA TypeStep == IInv /\ [Next]_vars => TypeOK'
<1> SUFFICES ASSUME IInv, [Next]_vars
             PROVE  TypeOK'
  OBVIOUS
<1> USE DEF IInv, TypeOK, Exit, Steps
<1>1. UNCHANGED vars => TypeOK'
  BY DEF vars
<1>2. ParseFails => TypeOK'
  BY FileTypes DEF ParseFails
<1>3. ParseCrashes => TypeOK'
  BY FileTypes DEF ParseCrashes
<1>4. Parse => TypeOK'
  <2> SUFFICES ASSUME Parse PROVE TypeOK'
    OBVIOUS
  <2>1. opt.ver \in 0..MaxVersion
    BY VersionAssumption
  <2>2. mod' \in Modules
    BY <2>1 DEF Parse, Modules
  <2>3. QED
    BY <2>2 DEF Parse
<1>5. EarlyPasses => TypeOK'
  BY PassTypes DEF EarlyPasses
<1>6. LatePasses => TypeOK'
  BY PassTypes DEF LatePasses
<1>7. RunCLA => TypeOK'
  <2> SUFFICES ASSUME RunCLA PROVE TypeOK'
    OBVIOUS
  <2>1. mod' \in Modules
    BY DEF RunCLA, Modules, Flags
  <2>2. QED
    BY <2>1 DEF RunCLA
<1>8. CLACrashes => TypeOK'
  BY FileTypes DEF CLACrashes
<1>9. OpenStats => TypeOK'
  BY FileTypes DEF OpenStats
<1>10. print_csv_file => TypeOK'
  BY FileTypes DEF print_csv_file, PrintedStats
<1>11. Verify => TypeOK'
  BY FileTypes DEF Verify
<1>12. VerifyFails => TypeOK'
  BY FileTypes DEF VerifyFails
<1>13. WriteBitcode => TypeOK'
  BY FileTypes DEF WriteBitcode
<1>14. CloseOutput => TypeOK'
  BY FileTypes DEF CloseOutput, Written
<1>15. WriteFails => TypeOK'
  BY FileTypes DEF WriteFails
<1>16. Unregister => TypeOK'
  BY FileTypes DEF Unregister
<1>17. Return => TypeOK'
  BY FileTypes DEF Return
<1>18. Rebuild => TypeOK'
  <2> SUFFICES ASSUME Rebuild PROVE TypeOK'
    OBVIOUS
  <2>1. PICK k \in Kinds : opt' = [ver |-> opt.ver + 1, kind |-> k]
    BY DEF Rebuild
  <2>2. opt.ver + 1 \in 1..MaxVersion
    BY VersionAssumption DEF Rebuild
  <2>3. opt' \in [ver : 1..MaxVersion, kind : Kinds]
    BY <2>1, <2>2
  <2>4. QED
    BY <2>3 DEF Rebuild
<1>19. Clean => TypeOK'
  BY FileTypes DEF Clean
<1>20. Invoke => TypeOK'
  <2> SUFFICES ASSUME Invoke PROVE TypeOK'
    OBVIOUS
  <2>1. out' \in Files /\ mod' \in Modules
    BY FileTypes DEF Invoke
  <2>2. Passes' \in Seq(PassNames)
    BY EmptySeq DEF Invoke
  <2>3. QED
    BY <2>1, <2>2 DEF Invoke
<1>21. Interrupt => TypeOK'
  BY FileTypes DEF Interrupt
<1>22. Kill => TypeOK'
  BY FileTypes DEF Kill
<1>23. QED
  BY <1>1, <1>2, <1>3, <1>4, <1>5, <1>6, <1>7, <1>8, <1>9, <1>10, <1>11, <1>12, <1>13,
     <1>14, <1>15, <1>16, <1>17, <1>18, <1>19, <1>20, <1>21, <1>22 DEF Next, Main

-----------------------------------------------------------------------------
(* What is on disk during and after a run *)

\* A run that opened the output has truncated it; one that could not has found it
\* out of date (line 89 and the rule of Makefile.single).
LEMMA DuringRunStep == IInv /\ [Next]_vars => DuringRun'
<1> SUFFICES ASSUME IInv, [Next]_vars
             PROVE  DuringRun'
  OBVIOUS
<1> USE DEF IInv, Exit, Discarded, Cleanup, Absent, Partial, Complete, File,
    TypeOK, DuringRun, UpToDate, Written, Steps
<1>1. UNCHANGED vars => DuringRun'
  BY DEF vars
<1>2. ParseFails => DuringRun'
  BY DEF ParseFails
<1>3. ParseCrashes => DuringRun'
  BY DEF ParseCrashes
<1>4. Parse => DuringRun'
  BY DEF Parse
<1>5. EarlyPasses => DuringRun'
  BY DEF EarlyPasses
<1>6. LatePasses => DuringRun'
  BY DEF LatePasses
<1>7. RunCLA => DuringRun'
  BY DEF RunCLA
<1>8. CLACrashes => DuringRun'
  BY DEF CLACrashes
<1>9. OpenStats => DuringRun'
  BY DEF OpenStats
<1>10. print_csv_file => DuringRun'
  BY DEF print_csv_file
<1>11. Verify => DuringRun'
  BY DEF Verify
<1>12. VerifyFails => DuringRun'
  BY DEF VerifyFails
<1>13. WriteBitcode => DuringRun'
  BY DEF WriteBitcode
<1>14. CloseOutput => DuringRun'
  BY DEF CloseOutput
<1>15. WriteFails => DuringRun'
  BY DEF WriteFails
<1>16. Unregister => DuringRun'
  BY DEF Unregister
<1>17. Return => DuringRun'
  BY DEF Return
<1>18. Rebuild => DuringRun'
  BY DEF Rebuild
<1>19. Clean => DuringRun'
  BY DEF Clean
<1>20. Invoke => DuringRun'
  BY DEF Invoke
<1>21. Interrupt => DuringRun'
  BY DEF Interrupt
<1>22. Kill => DuringRun'
  BY DEF Kill
<1>23. QED
  BY <1>1, <1>2, <1>3, <1>4, <1>5, <1>6, <1>7, <1>8, <1>9, <1>10, <1>11, <1>12, <1>13,
     <1>14, <1>15, <1>16, <1>17, <1>18, <1>19, <1>20, <1>21, <1>22 DEF Next, Main

\* From the parser to the end of main (lines 97-148) the module is the current input's,
\* tagged if asked for, and counted before it is verified.
LEMMA InMemoryStep == IInv /\ [Next]_vars => InMemory'
<1> SUFFICES ASSUME IInv, [Next]_vars
             PROVE  InMemory'
  OBVIOUS
<1> USE DEF IInv, Exit, Discarded, Cleanup, Absent, Partial, Complete, File,
    TypeOK, DuringRun, InMemory, VerifierRejects, PrintedStats, Steps, Modules, Flags
<1>1. UNCHANGED vars => InMemory'
  BY DEF vars
<1>2. ParseFails => InMemory'
  BY DEF ParseFails
<1>3. ParseCrashes => InMemory'
  BY DEF ParseCrashes
<1>4. Parse => InMemory'
  BY DEF Parse
<1>5. EarlyPasses => InMemory'
  BY DEF EarlyPasses
<1>6. LatePasses => InMemory'
  BY DEF LatePasses
<1>7. RunCLA => InMemory'
  BY DEF RunCLA
<1>8. CLACrashes => InMemory'
  BY DEF CLACrashes
<1>9. OpenStats => InMemory'
  BY DEF OpenStats
<1>10. print_csv_file => InMemory'
  BY DEF print_csv_file
<1>11. Verify => InMemory'
  BY DEF Verify
<1>12. VerifyFails => InMemory'
  BY DEF VerifyFails
<1>13. WriteBitcode => InMemory'
  BY DEF WriteBitcode
<1>14. CloseOutput => InMemory'
  BY DEF CloseOutput
<1>15. WriteFails => InMemory'
  BY DEF WriteFails
<1>16. Unregister => InMemory'
  BY DEF Unregister
<1>17. Return => InMemory'
  BY DEF Return
<1>18. Rebuild => InMemory'
  BY DEF Rebuild
<1>19. Clean => InMemory'
  BY DEF Clean
<1>20. Invoke => InMemory'
  BY DEF Invoke
<1>21. Interrupt => InMemory'
  BY DEF Interrupt
<1>22. Kill => InMemory'
  BY DEF Kill
<1>23. QED
  BY <1>1, <1>2, <1>3, <1>4, <1>5, <1>6, <1>7, <1>8, <1>9, <1>10, <1>11, <1>12, <1>13,
     <1>14, <1>15, <1>16, <1>17, <1>18, <1>19, <1>20, <1>21, <1>22 DEF Next, Main

\* A run that has opened the statistics ends with its own output, with none, or
\* with a kill: an older output never stays beside them.
LEMMA StatsStep == IInv /\ [Next]_vars => StatsInStep'
<1> SUFFICES ASSUME IInv, [Next]_vars
             PROVE  StatsInStep'
  OBVIOUS
<1> USE DEF IInv, Exit, Discarded, Cleanup, Absent, Partial, Complete, File,
    TypeOK, DuringRun, InMemory, StatsInStep, Written, PrintedStats, Steps
<1>1. UNCHANGED vars => StatsInStep'
  BY DEF vars
<1>2. ParseFails => StatsInStep'
  BY DEF ParseFails
<1>3. ParseCrashes => StatsInStep'
  BY DEF ParseCrashes
<1>4. Parse => StatsInStep'
  BY DEF Parse
<1>5. EarlyPasses => StatsInStep'
  BY DEF EarlyPasses
<1>6. LatePasses => StatsInStep'
  BY DEF LatePasses
<1>7. RunCLA => StatsInStep'
  BY DEF RunCLA
<1>8. CLACrashes => StatsInStep'
  BY DEF CLACrashes
<1>9. OpenStats => StatsInStep'
  BY DEF OpenStats
<1>10. print_csv_file => StatsInStep'
  BY DEF print_csv_file
<1>11. Verify => StatsInStep'
  BY DEF Verify
<1>12. VerifyFails => StatsInStep'
  BY DEF VerifyFails
<1>13. WriteBitcode => StatsInStep'
  BY DEF WriteBitcode
<1>14. CloseOutput => StatsInStep'
  BY DEF CloseOutput
<1>15. WriteFails => StatsInStep'
  BY DEF WriteFails
<1>16. Unregister => StatsInStep'
  BY DEF Unregister
<1>17. Return => StatsInStep'
  BY DEF Return
<1>18. Rebuild => StatsInStep'
  BY DEF Rebuild
<1>19. Clean => StatsInStep'
  BY DEF Clean
<1>20. Invoke => StatsInStep'
  BY DEF Invoke
<1>21. Interrupt => StatsInStep'
  BY DEF Interrupt
<1>22. Kill => StatsInStep'
  BY DEF Kill
<1>23. QED
  BY <1>1, <1>2, <1>3, <1>4, <1>5, <1>6, <1>7, <1>8, <1>9, <1>10, <1>11, <1>12, <1>13,
     <1>14, <1>15, <1>16, <1>17, <1>18, <1>19, <1>20, <1>21, <1>22 DEF Next, Main

\* An output of the current version is newer than the input, an older one is not of
\* the current version.
LEMMA AgeStep == IInv /\ [Next]_vars => OutputAge'
<1> SUFFICES ASSUME IInv, [Next]_vars
             PROVE  OutputAge'
  OBVIOUS
<1> USE DEF IInv, Exit, Discarded, Cleanup, Absent, Partial, Complete, File,
    TypeOK, DuringRun, InMemory, OutputAge, Written, Steps
<1>1. UNCHANGED vars => OutputAge'
  BY DEF vars
<1>2. ParseFails => OutputAge'
  BY DEF ParseFails
<1>3. ParseCrashes => OutputAge'
  BY DEF ParseCrashes
<1>4. Parse => OutputAge'
  BY DEF Parse
<1>5. EarlyPasses => OutputAge'
  BY DEF EarlyPasses
<1>6. LatePasses => OutputAge'
  BY DEF LatePasses
<1>7. RunCLA => OutputAge'
  BY DEF RunCLA
<1>8. CLACrashes => OutputAge'
  BY DEF CLACrashes
<1>9. OpenStats => OutputAge'
  BY DEF OpenStats
<1>10. print_csv_file => OutputAge'
  BY DEF print_csv_file
<1>11. Verify => OutputAge'
  BY DEF Verify
<1>12. VerifyFails => OutputAge'
  BY DEF VerifyFails
<1>13. WriteBitcode => OutputAge'
  BY DEF WriteBitcode
<1>14. CloseOutput => OutputAge'
  BY DEF CloseOutput
<1>15. WriteFails => OutputAge'
  BY DEF WriteFails
<1>16. Unregister => OutputAge'
  BY DEF Unregister
<1>17. Return => OutputAge'
  BY DEF Return
<1>18. Rebuild => OutputAge'
  BY DEF Rebuild, Files, Modules
<1>19. Clean => OutputAge'
  BY DEF Clean
<1>20. Invoke => OutputAge'
  BY DEF Invoke
<1>21. Interrupt => OutputAge'
  BY DEF Interrupt
<1>22. Kill => OutputAge'
  BY DEF Kill
<1>23. QED
  BY <1>1, <1>2, <1>3, <1>4, <1>5, <1>6, <1>7, <1>8, <1>9, <1>10, <1>11, <1>12, <1>13,
     <1>14, <1>15, <1>16, <1>17, <1>18, <1>19, <1>20, <1>21, <1>22 DEF Next, Main

\* Only keep() and a kill leave a file that is newer than the input.
LEMMA UpToDateStep == IInv /\ [Next]_vars => UpToDateIsComplete'
<1> SUFFICES ASSUME IInv, [Next]_vars
             PROVE  UpToDateIsComplete'
  OBVIOUS
<1> USE DEF IInv, Exit, Discarded, Cleanup, Absent, Partial, Complete, File,
    TypeOK, DuringRun, InMemory, UpToDateIsComplete, UpToDate, Written, Steps
<1>1. UNCHANGED vars => UpToDateIsComplete'
  BY DEF vars
<1>2. ParseFails => UpToDateIsComplete'
  BY DEF ParseFails
<1>3. ParseCrashes => UpToDateIsComplete'
  BY DEF ParseCrashes
<1>4. Parse => UpToDateIsComplete'
  BY DEF Parse
<1>5. EarlyPasses => UpToDateIsComplete'
  BY DEF EarlyPasses
<1>6. LatePasses => UpToDateIsComplete'
  BY DEF LatePasses
<1>7. RunCLA => UpToDateIsComplete'
  BY DEF RunCLA
<1>8. CLACrashes => UpToDateIsComplete'
  BY DEF CLACrashes
<1>9. OpenStats => UpToDateIsComplete'
  BY DEF OpenStats
<1>10. print_csv_file => UpToDateIsComplete'
  BY DEF print_csv_file
<1>11. Verify => UpToDateIsComplete'
  BY DEF Verify
<1>12. VerifyFails => UpToDateIsComplete'
  BY DEF VerifyFails
<1>13. WriteBitcode => UpToDateIsComplete'
  BY DEF WriteBitcode
<1>14. CloseOutput => UpToDateIsComplete'
  BY DEF CloseOutput
<1>15. WriteFails => UpToDateIsComplete'
  BY DEF WriteFails
<1>16. Unregister => UpToDateIsComplete'
  BY DEF Unregister
<1>17. Return => UpToDateIsComplete'
  BY DEF Return
<1>18. Rebuild => UpToDateIsComplete'
  BY DEF Rebuild
<1>19. Clean => UpToDateIsComplete'
  BY DEF Clean
<1>20. Invoke => UpToDateIsComplete'
  BY DEF Invoke
<1>21. Interrupt => UpToDateIsComplete'
  BY DEF Interrupt
<1>22. Kill => UpToDateIsComplete'
  BY DEF Kill
<1>23. QED
  BY <1>1, <1>2, <1>3, <1>4, <1>5, <1>6, <1>7, <1>8, <1>9, <1>10, <1>11, <1>12, <1>13,
     <1>14, <1>15, <1>16, <1>17, <1>18, <1>19, <1>20, <1>21, <1>22 DEF Next, Main

\* The writer runs after the verifier, and the options of the run that wrote the
\* output stay those of the last run as long as the output is current.
LEMMA VerifiedStep == IInv /\ [Next]_vars => OnlyVerifiedWritten'
<1> SUFFICES ASSUME IInv, [Next]_vars
             PROVE  OnlyVerifiedWritten'
  OBVIOUS
<1> USE DEF IInv, Exit, Discarded, Cleanup, Absent, Partial, Complete, File,
    TypeOK, DuringRun, InMemory, OutputAge, OnlyVerifiedWritten, VerifierRejects, UpToDate,
    Written, Steps, Kinds, Flags
<1>1. UNCHANGED vars => OnlyVerifiedWritten'
  BY DEF vars
<1>2. ParseFails => OnlyVerifiedWritten'
  BY DEF ParseFails
<1>3. ParseCrashes => OnlyVerifiedWritten'
  BY DEF ParseCrashes
<1>4. Parse => OnlyVerifiedWritten'
  BY DEF Parse
<1>5. EarlyPasses => OnlyVerifiedWritten'
  BY DEF EarlyPasses
<1>6. LatePasses => OnlyVerifiedWritten'
  BY DEF LatePasses
<1>7. RunCLA => OnlyVerifiedWritten'
  BY DEF RunCLA
<1>8. CLACrashes => OnlyVerifiedWritten'
  BY DEF CLACrashes
<1>9. OpenStats => OnlyVerifiedWritten'
  BY DEF OpenStats
<1>10. print_csv_file => OnlyVerifiedWritten'
  BY DEF print_csv_file
<1>11. Verify => OnlyVerifiedWritten'
  BY DEF Verify
<1>12. VerifyFails => OnlyVerifiedWritten'
  BY DEF VerifyFails
<1>13. WriteBitcode => OnlyVerifiedWritten'
  BY DEF WriteBitcode
<1>14. CloseOutput => OnlyVerifiedWritten'
  BY DEF CloseOutput
<1>15. WriteFails => OnlyVerifiedWritten'
  BY DEF WriteFails
<1>16. Unregister => OnlyVerifiedWritten'
  BY DEF Unregister
<1>17. Return => OnlyVerifiedWritten'
  BY DEF Return
<1>18. Rebuild => OnlyVerifiedWritten'
  BY DEF Rebuild, Files, Modules
<1>19. Clean => OnlyVerifiedWritten'
  BY DEF Clean
<1>20. Invoke => OnlyVerifiedWritten'
  BY DEF Invoke
<1>21. Interrupt => OnlyVerifiedWritten'
  BY DEF Interrupt
<1>22. Kill => OnlyVerifiedWritten'
  BY DEF Kill
<1>23. QED
  BY <1>1, <1>2, <1>3, <1>4, <1>5, <1>6, <1>7, <1>8, <1>9, <1>10, <1>11, <1>12, <1>13,
     <1>14, <1>15, <1>16, <1>17, <1>18, <1>19, <1>20, <1>21, <1>22 DEF Next, Main

\* Each way out of main leaves the output that its status announces.
LEMMA ExitStep == IInv /\ [Next]_vars => ExitStatusHonest'
<1> SUFFICES ASSUME IInv, [Next]_vars
             PROVE  ExitStatusHonest'
  OBVIOUS
<1> USE DEF IInv, Exit, Discarded, Cleanup, Absent, Partial, Complete, File,
    TypeOK, DuringRun, InMemory, ExitStatusHonest, UpToDate, Written, Steps
<1>1. UNCHANGED vars => ExitStatusHonest'
  BY DEF vars
<1>2. ParseFails => ExitStatusHonest'
  BY DEF ParseFails
<1>3. ParseCrashes => ExitStatusHonest'
  BY DEF ParseCrashes
<1>4. Parse => ExitStatusHonest'
  BY DEF Parse
<1>5. EarlyPasses => ExitStatusHonest'
  BY DEF EarlyPasses
<1>6. LatePasses => ExitStatusHonest'
  BY DEF LatePasses
<1>7. RunCLA => ExitStatusHonest'
  BY DEF RunCLA
<1>8. CLACrashes => ExitStatusHonest'
  BY DEF CLACrashes
<1>9. OpenStats => ExitStatusHonest'
  BY DEF OpenStats
<1>10. print_csv_file => ExitStatusHonest'
  BY DEF print_csv_file
<1>11. Verify => ExitStatusHonest'
  BY DEF Verify
<1>12. VerifyFails => ExitStatusHonest'
  BY DEF VerifyFails
<1>13. WriteBitcode => ExitStatusHonest'
  BY DEF WriteBitcode
<1>14. CloseOutput => ExitStatusHonest'
  BY DEF CloseOutput
<1>15. WriteFails => ExitStatusHonest'
  BY DEF WriteFails
<1>16. Unregister => ExitStatusHonest'
  BY DEF Unregister
<1>17. Return => ExitStatusHonest'
  BY DEF Return
<1>18. Rebuild => ExitStatusHonest'
  BY DEF Rebuild
<1>19. Clean => ExitStatusHonest'
  BY DEF Clean
<1>20. Invoke => ExitStatusHonest'
  BY DEF Invoke
<1>21. Interrupt => ExitStatusHonest'
  BY DEF Interrupt
<1>22. Kill => ExitStatusHonest'
  BY DEF Kill
<1>23. QED
  BY <1>1, <1>2, <1>3, <1>4, <1>5, <1>6, <1>7, <1>8, <1>9, <1>10, <1>11, <1>12, <1>13,
     <1>14, <1>15, <1>16, <1>17, <1>18, <1>19, <1>20, <1>21, <1>22 DEF Next, Main

-----------------------------------------------------------------------------
(* The theorems *)

\* An empty directory and an input satisfy the invariant.
LEMMA InitInv == Init => IInv
<1> SUFFICES ASSUME Init PROVE IInv
  OBVIOUS
<1>1. TypeOK
  <2>1. 0 \in 0..MaxVersion /\ 1 \in 1..MaxVersion
    BY VersionAssumption
  <2>2. NoModule \in Modules /\ Absent \in Files
    BY <2>1 DEF NoModule, Modules, Absent, File, Files
  <2>3. opt \in [ver : 1..MaxVersion, kind : Kinds]
    BY <2>1 DEF Init
  <2>4. Passes \in Seq(PassNames)
    BY EmptySeq DEF Init
  <2>5. flags \in Flags
    BY DEF Init, Flags
  <2>6. QED
    BY <2>2, <2>3, <2>4, <2>5 DEF Init, TypeOK
<1>2. out.state = "absent"
  BY DEF Init, Absent, File
<1>3. QED
  BY <1>1, <1>2 DEF Init, IInv, DuringRun, InMemory, StatsInStep, OutputAge, Steps,
     UpToDateIsComplete, UpToDate, OnlyVerifiedWritten, ExitStatusHonest

\* The invariant of main (lines 77-149) and of the rule that runs it.
THEOREM InductiveInvariant == Spec => []IInv
<1>1. IInv /\ [Next]_vars => IInv'
  BY TypeStep, DuringRunStep, InMemoryStep, StatsStep, AgeStep, UpToDateStep,
     VerifiedStep, ExitStep DEF IInv
<1>2. QED
  BY InitInv, <1>1, PTL DEF Spec

\* Every step of make, main and the signal handlers keeps the variables within
\* their types; in particular only the passes of lines 110-122 are ever queued.
THEOREM TypeCorrect == Spec => []TypeOK
<1>1. IInv => TypeOK
  BY DEF IInv
<1>2. QED
  BY InductiveInvariant, <1>1, PTL

\* For any number of rebuilds, failed and interrupted runs (lines 89-146): the rule
\* for X.tune.bc takes no partial and no stale file as up to date, unless SIGKILL
\* left one.
THEOREM UpToDateCorrect == Spec => []UpToDateIsComplete
<1>1. IInv => UpToDateIsComplete
  BY DEF IInv
<1>2. QED
  BY InductiveInvariant, <1>1, PTL

\* The statistics that print_csv_file (lines 176-184) completed before the output
\* are those of the module that is then found in it, for any sequence of runs, as
\* long as the last run to reach line 178 could open the file, and no SIGKILL left
\* files behind.
THEOREM StatsOfOutputCorrect == Spec => []StatsOfOutput
<1>1. IInv => StatsOfOutput
  BY DEF IInv, StatsInStep, StatsOfOutput
<1>2. QED
  BY InductiveInvariant, <1>1, PTL

\* No history of runs leaves an output that the verifier (lines 137-142) rejects,
\* unless it was switched off with -no.
THEOREM OnlyVerifiedCorrect == Spec => []OnlyVerifiedWritten
<1>1. IInv => OnlyVerifiedWritten
  BY DEF IInv
<1>2. QED
  BY InductiveInvariant, <1>1, PTL

\* For any sequence of runs, the status main returns (lines 104 and 148), a fatal
\* error or a signal tell whether make takes X.tune.bc for up to date, and what is
\* in it then; 0 is never returned when line 89 could not open it.
THEOREM ExitStatusCorrect == Spec => []ExitStatusHonest
<1>1. IInv => ExitStatusHonest
  BY DEF IInv
<1>2. QED
  BY InductiveInvariant, <1>1, PTL

=============================================================================
