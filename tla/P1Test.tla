------------------------------- MODULE P1Test -------------------------------
(***************************************************************************)
(* The graded tests of P1Tests.  `make test' runs main.c's program on the  *)
(* data file of every test and sends its output to X-test, then lets       *)
(* summarize.py add up those files.  X-test has no prerequisites           *)
(* (Makefile.P1, line 29): a file that exists is taken as it is, whatever  *)
(* it was made of and however its run ended.                               *)
(*                                                                         *)
(* fscanf returns 0 on something that is no number but EOF at the end of   *)
(* the file, and main.c compares with 0 only: variables that a short file  *)
(* does not set stay uninitialised and the program goes on.                *)
(*                                                                         *)
(* Definitions named Op_Variant are faulty forms of Op, see LoopWalk.      *)
(***************************************************************************)
EXTENDS Integers, Sequences, FiniteSets

CONSTANTS
  NTests,     \* the tests are 1 .. NTests, in the order make takes them
  DataFiles,  \* the files a test may have
  Values,     \* what the tested function leaves in the array and returns
  Garbage,    \* what an uninitialised variable may hold
  IntMax      \* INT_MAX

ASSUME WidthAssumption == IntMax \in Nat

\* The values of C's int.
CInt == (- IntMax - 1)..IntMax

\* A file is there or not, and is a sequence of words: the singleton of its value
\* for an integer, {} for anything else.
ASSUME DataAssumption ==
  \A f \in DataFiles :
    /\ f.there \in BOOLEAN
    /\ f.words \in Seq(SUBSET CInt)
    /\ \A k \in DOMAIN f.words : \A m, n \in f.words[k] : m = n

ASSUME TestsAssumption == NTests \in Nat

ASSUME IntAssumption == Values \subseteq CInt /\ Garbage \subseteq CInt

Tests == 1..NTests

VARIABLES
  data,       \* test -> its data file
  result,     \* test -> what X-test holds
  pc, cur,    \* the next step of make or of the program, and the test
  v,          \* main's variables
  summary,    \* what summarize.py did
  \* history, which no step of the code reads
  right,      \* test -> every comparison of the run behind X-test came out equal
  broken      \* a run ended badly, or was killed, and left its file

vars == <<data, result, pc, cur, v, summary, right, broken>>

NoFile == [holds |-> "absent", success |-> 0, errors |-> 0, total |-> 0]

Empty == [NoFile EXCEPT !.holds = "nothing"]

NoSummary == [says |-> "none", success |-> 0, errors |-> 0, total |-> 0]

\* `weight' is a global; WEIGHT is not defined for these tests.
Fresh == [pos |-> 1, len |-> 0, input |-> <<>>, ret_value |-> 0, output |-> <<>>,
          weight |-> 1, got_ret |-> 0, success |-> 0, errors |-> 0]

Init ==
  /\ data \in [Tests -> DataFiles]
  /\ result = [t \in Tests |-> NoFile]
  /\ pc = "idle" /\ cur = 1
  /\ v = Fresh
  /\ summary = NoSummary
  /\ right = [t \in Tests |-> FALSE]
  /\ broken = FALSE

-----------------------------------------------------------------------------
(* main.c *)

words == data[cur].words

Eof(k) == k > Len(words)

Mismatch(k) == ~ Eof(k) /\ words[k] = {}

\* The values fscanf can leave behind for word k.
Scanned(k) == IF Eof(k) THEN Garbage ELSE words[k]

\* The next `len' words.  The loop stops at the first that is no integer.
AnyMismatch == \E k \in v.pos..(v.pos + v.len - 1) : Mismatch(k)

Arrays ==
  {a \in [1..v.len -> UNION {Scanned(v.pos + i - 1) : i \in 1..v.len}] :
     \A i \in 1..v.len : a[i] \in Scanned(v.pos + i - 1)}

\* The program is over: make stops unless it returned 0.
Leave(held, next) ==
  /\ result' = [result EXCEPT ![cur] = held]
  /\ pc' = next
  /\ v' = Fresh

Goto(step, locals) == pc' = step /\ v' = locals /\ UNCHANGED <<result, broken>>

\* "Error. ..." on standard output, which is X-test, and `return 1'.
FormatError ==
  /\ Leave([Empty EXCEPT !.holds = "message"], "idle")
  /\ broken' = TRUE

\* A crash loses what printf has buffered.
Crash ==
  /\ Leave(Empty, "idle")
  /\ broken' = TRUE

Open ==
  /\ pc = "open"
  /\ IF data[cur].there THEN Goto("len", v) ELSE Crash    \* fscanf on NULL
  /\ UNCHANGED <<data, cur, summary, right>>

ReadLen ==
  /\ pc = "len"
  /\ IF Mismatch(1) THEN FormatError
     ELSE \/ \E n \in Scanned(1) : Goto("input", [v EXCEPT !.len = n, !.pos = 2])
          \/ Eof(1) /\ Crash                               \* malloc of a random size
  /\ UNCHANGED <<data, cur, summary, right>>

ReadInput ==
  /\ pc = "input"
  /\ IF AnyMismatch THEN FormatError
     ELSE \E a \in Arrays : Goto("ret", [v EXCEPT !.input = a, !.pos = @ + Cardinality(1..v.len)])
  /\ UNCHANGED <<data, cur, summary, right>>

ReadRet ==
  /\ pc = "ret"
  /\ IF Mismatch(v.pos) THEN FormatError
     ELSE \E n \in Scanned(v.pos) : Goto("output", [v EXCEPT !.ret_value = n, !.pos = @ + 1])
  /\ UNCHANGED <<data, cur, summary, right>>

ReadOutput ==
  /\ pc = "output"
  /\ IF AnyMismatch THEN FormatError
     ELSE \E a \in Arrays : Goto("weight", [v EXCEPT !.output = a, !.pos = @ + Cardinality(1..v.len)])
  /\ UNCHANGED <<data, cur, summary, right>>

\* No weight in the file leaves the default (lines 70-73).
ReadWeight ==
  /\ pc = "weight"
  /\ \E w \in IF Eof(v.pos) \/ Mismatch(v.pos) THEN {v.weight} ELSE words[v.pos] :
       Goto("call", [v EXCEPT !.weight = w])
  /\ UNCHANGED <<data, cur, summary, right>>

\* The function under test is what the P1 tool has made of X.p1: anything.
Call ==
  /\ pc = "call"
  /\ \/ \E r \in Values, a \in [1..v.len -> Values] :
          Goto("check", [v EXCEPT !.got_ret = r, !.input = a])
     \/ Crash
  /\ UNCHANGED <<data, cur, summary, right>>

Wrong == {i \in 1..v.len : v.input[i] # v.output[i]}

Check ==
  /\ pc = "check"
  /\ LET bad == Cardinality(Wrong) + IF v.ret_value # v.got_ret THEN 1 ELSE 0
     IN  Goto("print", [v EXCEPT !.errors = bad,
                                 !.success = Cardinality(1..v.len) + 1 - bad])
  /\ UNCHANGED <<data, cur, summary, right>>

\* C rounds towards zero.
Quotient(a, b) == IF a >= 0 THEN a \div b ELSE - ((- a) \div b)

\* Twos-complement arithmetic, which is what a multiplication that overflows does.
Wrapped(n) == ((n + IntMax + 1) % (2 * (IntMax + 1))) - (IntMax + 1)

\* Line 106 multiplies first.
Scaled_DivideFirst(n, total) == Wrapped(n * Quotient(v.weight, total))

Scaled(n, total) == Quotient(Wrapped(n * v.weight), total)

\* Overflow is undefined: the compiler may also cancel `total' in the third number.
PrintMarks ==
  /\ pc = "print"
  /\ LET total == v.success + v.errors
     IN  \E whole \in {Scaled(total, total), v.weight} :
           Leave([holds |-> "marks", success |-> Scaled(v.success, total),
                  errors |-> Scaled(v.errors, total), total |-> whole], "make")
  /\ right' = [right EXCEPT ![cur] = (v.errors = 0)]
  /\ cur' = cur + 1
  /\ UNCHANGED <<data, summary, broken>>

-----------------------------------------------------------------------------
(* make test *)

\* `all' builds every test again, with whatever the P1 tool is now, or stops make.
MakeTest ==
  /\ pc = "idle"
  /\ pc' \in {"make", "idle"}
  /\ cur' = 1
  /\ summary' = NoSummary
  /\ UNCHANGED <<data, result, v, right, broken>>

Made == result[cur].holds # "absent"

SkipTest ==
  /\ pc = "make" /\ cur \in Tests /\ Made
  /\ cur' = cur + 1
  /\ UNCHANGED <<data, result, pc, v, summary, right, broken>>

\* The shell creates X-test, then runs the program.
RunTest ==
  /\ pc = "make" /\ cur \in Tests /\ ~ Made
  /\ result' = [result EXCEPT ![cur] = Empty]
  /\ pc' = "open"
  /\ UNCHANGED <<data, cur, v, summary, right, broken>>

\* The three sums of summarize.py start at 0.
Summarize ==
  /\ pc = "make" /\ cur > NTests
  /\ pc' = "sum" /\ cur' = 1
  /\ UNCHANGED <<data, result, v, summary, right, broken>>

\* The next file.  A line that is not of the three is a KeyError, an empty file
\* adds nothing.
AddFile ==
  /\ pc = "sum" /\ cur \in Tests
  /\ IF result[cur].holds = "message"
       THEN /\ summary' = [NoSummary EXCEPT !.says = "KeyError"]
            /\ pc' = "idle" /\ UNCHANGED cur
       ELSE /\ summary' = [summary EXCEPT !.success = @ + result[cur].success,
                                         !.errors = @ + result[cur].errors,
                                         !.total = @ + result[cur].total]
            /\ cur' = cur + 1 /\ UNCHANGED pc
  /\ UNCHANGED <<data, result, v, right, broken>>

\* The rate is a division by the total.
Report ==
  /\ pc = "sum" /\ cur > NTests
  /\ pc' = "idle"
  /\ summary' = [summary EXCEPT !.says = IF summary.total = 0 THEN "ZeroDivisionError"
                                         ELSE "rate"]
  /\ UNCHANGED <<data, result, cur, v, right, broken>>

\* SIGINT: make removes the target it is making.
Interrupt_Precious ==
  /\ pc # "idle"
  /\ pc' = "idle"
  /\ v' = Fresh
  /\ UNCHANGED <<data, result, cur, summary, right, broken>>

Interrupt ==
  /\ pc # "idle"
  /\ pc' = "idle"
  /\ result' = IF pc \in {"make", "sum"} THEN result ELSE [result EXCEPT ![cur] = NoFile]
  /\ v' = Fresh
  /\ UNCHANGED <<data, cur, summary, right, broken>>

Kill ==
  /\ pc # "idle"
  /\ pc' = "idle"
  /\ v' = Fresh
  /\ broken' = (broken \/ pc \notin {"make", "sum"})
  /\ UNCHANGED <<data, result, cur, summary, right>>

Clean ==
  /\ pc = "idle"
  /\ result' = [t \in Tests |-> NoFile]
  /\ summary' = NoSummary
  /\ broken' = FALSE
  /\ UNCHANGED <<data, pc, cur, v, right>>

Next ==
  \/ MakeTest \/ SkipTest \/ RunTest \/ Summarize \/ AddFile \/ Report
  \/ Open \/ ReadLen \/ ReadInput \/ ReadRet \/ ReadOutput \/ ReadWeight
  \/ Call \/ Check \/ PrintMarks
  \/ Interrupt \/ Kill \/ Clean

Spec == Init /\ [][Next]_vars

-----------------------------------------------------------------------------
(* Properties *)

\* How many elements main.c reads into each array.
LengthOf(f) == Cardinality(1..(CHOOSE n \in f.words[1] : TRUE))

\* A file with a word for everything main.c reads but the weight, all integers.
Complete(f) ==
  /\ f.there
  /\ \A k \in DOMAIN f.words : f.words[k] # {}
  /\ f.words # <<>>
  /\ Len(f.words) >= 2 + 2 * LengthOf(f)

WeightOf(f) ==
  LET k == 3 + 2 * LengthOf(f)
  IN  IF k > Len(f.words) THEN 1 ELSE CHOOSE w \in f.words[k] : TRUE

\* The largest product of line 106 is an int.
Fits(f) == (LengthOf(f) + 1) * WeightOf(f) \in CInt

Marked(t) == result[t].holds = "marks"

\* For a data file with all it should have, and whose number of comparisons times
\* its weight is an int, the marks in X-test (main.c, line 106) are all those of
\* the test exactly if the return value and all elements are right, and the two
\* rounded parts of them miss at most one mark.
FullMarks ==
  \A t \in Tests : Marked(t) /\ Complete(data[t]) /\ Fits(data[t]) =>
    /\ result[t].total = WeightOf(data[t])
    /\ WeightOf(data[t]) # 0 => (result[t].success = result[t].total <=> right[t])
    /\ result[t].total - (result[t].success + result[t].errors)
         \in {0, IF WeightOf(data[t]) > 0 THEN 1 ELSE - 1}

\* The weights of those of the first n tests that have marks on file.
Weighed(n) == IF Marked(n) THEN WeightOf(data[n]) ELSE 0

WeightSum[n \in 0..NTests] == IF n = 0 THEN 0 ELSE WeightSum[n - 1] + Weighed(n)

AllComplete == \A t \in Tests : Marked(t) => Complete(data[t]) /\ Fits(data[t])

AllPositive == \A t \in Tests : Marked(t) => WeightOf(data[t]) > 0

\* What summarize.py's rate is about, runs that crashed, were killed or are old
\* included.  Unless a run since the last `clean' ended badly, every test is
\* counted.  The total is the weight of the tests with marks on file and no other,
\* so one that crashed drops out of it.  And the rate is 100% exactly if each of
\* those was right when its file was written: no rounding of line 106 hides an
\* error.  The last two are for complete data files without overflow, the last
\* for positive weights.
SummaryHonest ==
  summary.says = "rate" =>
    /\ ~ broken => \A t \in Tests : Marked(t)
    /\ AllComplete =>
         /\ summary.total = WeightSum[NTests]
         /\ AllPositive =>
              ((summary.success * 100) \div summary.total = 100
                 <=> \A t \in Tests : Marked(t) => right[t])

-----------------------------------------------------------------------------
(* What makes the two properties inductive. *)

Program == {"open", "len", "input", "ret", "output", "weight", "call", "check", "print"}

TypeOK ==
  /\ data \in [Tests -> DataFiles]
  /\ result \in [Tests -> [holds : {"absent", "nothing", "message", "marks"},
                           success : Int, errors : Int, total : Int]]
  /\ pc \in Program \cup {"idle", "make", "sum"}
  /\ cur \in 1..(NTests + 1)
  /\ pc \in Program => cur \in Tests
  /\ DOMAIN v = DOMAIN Fresh
  /\ v.pos \in Nat \ {0} /\ v.len \in Int /\ v.weight \in Int
  /\ v.success \in Nat /\ v.errors \in Nat
  /\ summary \in [says : {"none", "KeyError", "ZeroDivisionError", "rate"},
                  success : Int, errors : Int, total : Int]
  /\ right \in [Tests -> BOOLEAN]
  /\ broken \in BOOLEAN

\* main's position in a complete file is where its next variable stands.
Reading ==
  /\ pc \notin Program \/ pc \in {"open", "len"} => v = Fresh
  /\ pc \in Program /\ Complete(data[cur]) =>
       LET n == LengthOf(data[cur])
       IN  /\ pc \in Program \ {"open", "len", "print"} => Cardinality(1..v.len) = n
           /\ pc = "input" => v.pos = 2
           /\ pc = "ret" => v.pos = 2 + n
           /\ pc = "output" => v.pos = 3 + n
           /\ pc = "weight" => v.pos = 3 + 2 * n
           /\ pc \in {"input", "ret", "output", "weight"} => v.weight = 1
           /\ pc \in {"call", "check", "print"} => v.weight = WeightOf(data[cur])
           /\ pc = "print" => v.success + v.errors = n + 1
  /\ pc = "print" => v.success + v.errors > 0

\* A rounded part of the marks is no more than the whole, and a file without
\* marks adds nothing to the sums.
PartOfMarks ==
  \A t \in Tests :
    /\ Marked(t) /\ Complete(data[t]) /\ Fits(data[t]) /\ WeightOf(data[t]) > 0 =>
         result[t].success <= result[t].total
    /\ ~ Marked(t) => result[t].success = 0 /\ result[t].total = 0

\* The tests before `cur' have a file, and without a bad end it has marks.
OnFile ==
  /\ pc \in Program \cup {"make"} => \A t \in 1..(cur - 1) : result[t].holds # "absent"
  /\ pc = "sum" => \A t \in Tests : result[t].holds # "absent"
  /\ ~ broken =>
       \A t \in Tests : \/ t = cur /\ pc \in Program
                       \/ result[t].holds \in {"absent", "marks"}

\* What the sums are after the files of the first k tests.
Summed(k) ==
  /\ summary.total = WeightSum[k]
  /\ AllPositive =>
       /\ summary.total >= 0
       /\ summary.success <= summary.total
       /\ summary.success = summary.total <=> \A t \in 1..k : Marked(t) => right[t]

Adding ==
  /\ pc \in Program \cup {"make"} => summary = NoSummary
  /\ pc = "sum" => summary.says = "none" /\ (AllComplete => Summed(cur - 1))
  /\ summary.says = "rate" =>
       /\ pc = "idle" /\ summary.total # 0
       /\ \A t \in Tests : result[t].holds # "absent"
       /\ AllComplete => Summed(NTests)

IInv == TypeOK /\ Reading /\ FullMarks /\ PartOfMarks /\ OnFile /\ Adding

=============================================================================
