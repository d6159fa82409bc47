SPECIFICATION FairSpec
CONSTANTS
  Keys <- MCKeys
  kMaxHeight = 2
  Readers = {r1}
  Writer = w
INVARIANTS TypeOK SortedChains NestedLevels ContainsCorrect SeekCorrect SeekToLastCorrect
PROPERTY OperationsEnd
