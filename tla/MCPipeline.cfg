SPECIFICATION FairSpec
CONSTANTS
  Crates = {"liba", "libb", "app"}
  Programs = {"app"}
  Deps <- MCDeps
  Code <- MCCode
  Modes = {"no", "thin", "fat"}
  SafeName <- MCSafeName
  Listing <- MCListing
  FileLocal = {"_S0"}
  Stubs <- MCStubs
  StubsFile = "native_stubs.c"
  MakefileBlocks <- MCBlocks
  MaxRuns = 3
  MaxFaults = 1
INVARIANTS SourcesMatchObjects LinkedIsCurrent MakeMatchesLink
PROPERTIES RunsEnd
CHECK_DEADLOCK FALSE
