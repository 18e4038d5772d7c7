\* A unit with mutually recursive statics, nested constants, a weak import,
\* an entry point, a function that the preamble declares, and an intrinsic
\* with the C name of its fallback.
SPECIFICATION FairSpec
CONSTANTS
  Fns <- MCFns
  Statics <- MCStatics
  Allocs <- MCAllocs
  Items <- MCItems
  Entry <- MCEntry
  Refs <- MCRefs
  Weak = {"weak"}
  Internal = {"f"}
  Arity <- MCArity
  Names <- MCNames
  CName <- MCCName
  Preamble <- MCPreamble
  Known <- MCKnown
  NoFn = NoFn
  MaxBytes = 6
INVARIANTS UsesAreDeclared DeclarationsAgree LinkageAgrees ExactSymbols
PROPERTIES TranslationEnds
CHECK_DEADLOCK FALSE
