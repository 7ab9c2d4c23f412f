\* 2^6 is beyond MaxInt: the last retry of Bases = 1 overflows.
CONSTANTS
  MaxInt = 63
  Second = 5
  Ceiling = 20
  Retries = 7
  Bases = {1, 3, 20}
  Policies <- MCPolicies
  Hints <- MCHints
SPECIFICATION Spec
INVARIANTS SleepsBounded SleepsAsDocumented
\* An ended run or call does nothing more.
CHECK_DEADLOCK FALSE
