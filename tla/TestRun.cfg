\* Two builds, so that the files of one meet the other.
CONSTANT MaxBuild = 2
SPECIFICATION Spec
INVARIANTS TypeOK VerdictHonest ReportFresh
