\* Two tests with data files of each shape, on ints of five bits.
CONSTANTS
  NTests = 2
  DataFiles <- MC_DataFiles
  Values = {0, 1}
  Garbage = {0, 1}
  IntMax = 15
SPECIFICATION Spec
INVARIANTS FullMarks SummaryHonest
