SPECIFICATION FairSpec
CONSTANTS
  TickMs <- MCTickMs
  TimeoutMs <- MCTimeoutMs
  PrecisionMs <- MCPrecisionMs
  PredictionMs <- MCPredictionMs
  MaxFrames <- MCMaxFrames
  Logics = {"default", "buffered"}
CONSTRAINT StateBound
INVARIANT TypeOK
INVARIANT IdleSessionKicked
INVARIANT KeepAliveInTime
INVARIANT FailedAuthIsClosing
INVARIANT HeldFramesRetried
PROPERTY ResetEndsSession
\* A connector whose connect failed is closed before start_tick: no timer
\* and no read is left, and the session really stops.
CHECK_DEADLOCK FALSE
