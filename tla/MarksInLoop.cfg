\* The marked addition of some function is outside the loop.
CONSTANTS
  Constant = Constant
  Global = Global
  OtherPointer = OtherPointer
  StackLimit = 5
  CmpUses = {"exit"}
  LocatedSets <- MC_LocatedSets
  Loops <- MC_Loops
SPECIFICATION FairSpec
INVARIANTS MarksInLoop
