\* One thread, a stack deep enough for a catch_unwind inside a drop inside
\* a cleanup.
CONSTANTS
  Threads = {t1}
  MaxDepth = 6
  MaxCalls = 5
  Exn = {e1, e2}
  NoExn = NoExn
  Junk <- MCJunk
SPECIFICATION Spec
INVARIANTS TypeOK ChainIsGuardedFrames JumpBufferIsCurrent HandlersHoldThePayload
PROPERTIES NoGuardSkipped TryRestoresChain ImplementsRust
CHECK_DEADLOCK FALSE
