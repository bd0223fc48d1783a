\* Three seconds, the id used again twice.
CONSTANTS TIMEOUT = 3  MaxReuse = 2
SPECIFICATION FairSpec
INVARIANTS TypeOK NoSurvivor SignalsInTime WatchdogFollows
PROPERTIES TimesOut
