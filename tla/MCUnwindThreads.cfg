\* Two threads, each with its own chain.
CONSTANTS
  Threads = {t1, t2}
  MaxDepth = 3
  MaxCalls = 2
  Exn = {e1, e2}
  NoExn = NoExn
  Junk <- MCJunk
SPECIFICATION FairSpec
PROPERTIES ImplementsRust UnwindingEnds
CHECK_DEADLOCK FALSE
