\* Compares whose result goes elsewhere than an exit branch.
CONSTANTS
  Constant = Constant
  Global = Global
  OtherPointer = OtherPointer
  StackLimit = 5
  CmpUses = {"elsewhere"}
  LocatedSets <- MC_LocatedSets
  Loops <- MC_Loops
SPECIFICATION FairSpec
INVARIANTS CandidatesFromExitCompares
