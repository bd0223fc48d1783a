\* Three versions of the input, every combination of options.
CONSTANT MaxVersion = 3
SPECIFICATION Spec
INVARIANTS TypeOK UpToDateIsComplete StatsOfOutput OnlyVerifiedWritten ExitStatusHonest
