------------------------------ MODULE MCP1Test ------------------------------
(* Data files of each shape for P1Test. *)
EXTENDS P1Test

File(s) == [there |-> TRUE, words |-> s]

MC_DataFiles ==
  { File(<<{0}, {1}, {3}>>),                               \* no array, as test_00
    File(<<{2}, {0}, {1}, {1}, {1}, {0}, {3}>>),           \* an array, as test_09
    File(<<{1}, {0}, {0}, {1}>>),                          \* no weight
    File(<<{1}, {0}, {0}, {1}, {-3}>>),                    \* a negative weight
    File(<<{1}, {0}, {0}, {1}, {8}>>),                     \* 2 * 8 is no int
    File(<<{-1}, {1}, {0}>>),                              \* no length, no marks
    File(<<{1}, {0}>>),                                    \* cut short
    File(<<>>),
    File(<<{1}, {}, {0}, {1}>>),                           \* not an integer
    [there |-> FALSE, words |-> <<>>] }

=============================================================================
