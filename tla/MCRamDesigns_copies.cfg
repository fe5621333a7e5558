SPECIFICATION FairSpec
CONSTANTS
  Words = 8
  Burst = 4
  Gap = 2
  MaxGap = 3
  Errors = {TRUE, FALSE}
  MinWait = 1
  MaxWait = 2
INVARIANTS CopyIsComplete 
PROPERTIES BurstRules TestPasses
