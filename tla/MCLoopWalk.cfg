\* Every graph over three blocks behind the entry.
CONSTANTS
  MaxBody = 3
  NoLoop = NoLoop
  Programs <- MC_Programs
SPECIFICATION FairSpec
INVARIANTS TypeOK InnerFirst TagsExact WalkComplete
PROPERTIES AnnotatesLoops WalkTerminates
