SPECIFICATION Spec
CONSTANTS
  Crates = {"app"}
  Programs = {"app"}
  Deps <- MCShrinkingDeps
  Code <- MCShrinkingCode
  Modes = {"no"}
  SafeName <- MCSafeName
  Listing <- MCListing
  FileLocal = {"_S0"}
  Stubs <- MCStubs
  StubsFile = "native_stubs.c"
  MakefileBlocks <- MCBlocks
  MaxRuns = 2
  MaxFaults = 0
INVARIANTS MakeBuildsTheProgram
CHECK_DEADLOCK FALSE
