\* A run ends, which TLC takes for a deadlock.
CONSTANT MaxPages = 2
SPECIFICATION FairSpec
INVARIANTS ConsentBeforeHarm InterruptInTime ExitTruthful PrintsWholeOrNothing MistakesCostNothing
PROPERTIES RunsForward EndsUnlessAsking
\* An ended run or call does nothing more.
CHECK_DEADLOCK FALSE
