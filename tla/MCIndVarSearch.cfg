\* Small functions, with the compare used by an exit branch or by nothing.
CONSTANTS
  Constant = Constant
  Global = Global
  OtherPointer = OtherPointer
  StackLimit = 5
  CmpUses = {"exit", "none"}
  LocatedSets <- MC_LocatedSets
  Loops <- MC_Loops
SPECIFICATION FairSpec
INVARIANTS TypeOK VerdictCorrect StackChain OneUpdate MarkedFlow DepthBounded
PROPERTIES SearchEnds
