\* Two loops, side by side or nested.
CONSTANTS
  NoLoop = NoLoop
  Constant = Constant
  Global = Global
  OtherPointer = OtherPointer
  StackLimit = 5
  Programs <- MC_Programs
SPECIFICATION FairPassSpec
INVARIANTS MarksAccounted CrashExplained
PROPERTY HarmlessFinishes
