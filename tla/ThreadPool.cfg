SPECIFICATION FairSpec
CONSTANTS
    Workers = {w1, w2}
    Tasks = {t1, t2, t3}
    None = None
INVARIANTS
    EachTaskOnce
    TerminateRunsQueued
PROPERTIES
    StrandedOnlyInTheGap
    EndingEnds
CHECK_DEADLOCK FALSE
