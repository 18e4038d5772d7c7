\* Three functions of up to five, two and one blocks.
SPECIFICATION Spec
CONSTANTS
  main = main
  helper = helper
  leaf = leaf
  b1 = b1
  Functions = {main, helper, leaf}
  Kind <- MCKind
  MirBlocks = {b1}
  CleanupBlock = cleanup
  NParams = 2
  MaxBlocks <- MCMaxBlocks
  MaxCalls <- MCMaxCalls
  NamedTailCalls = {TRUE}
  None = None
INVARIANTS OwnStatements GotosResolve BlocksEndOnce ReturnsMatch LocalsDeclaredOnce ArgumentsMatch
CHECK_DEADLOCK FALSE
