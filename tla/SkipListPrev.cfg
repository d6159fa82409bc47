SPECIFICATION Spec
CONSTANTS
  Keys <- MCKeys2
  kMaxHeight = 2
  Readers = {r1}
  Writer = w
INVARIANT FindLessThanAssertion
