\* The search of some function never returns.
CONSTANTS
  Constant = Constant
  Global = Global
  OtherPointer = OtherPointer
  StackLimit = 5
  CmpUses = {"exit"}
  LocatedSets <- MC_LocatedSets
  Loops <- MC_Loops
SPECIFICATION FairSpec
PROPERTIES SearchReturns
