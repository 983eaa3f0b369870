SPECIFICATION FairSpec
CONSTANTS
  TickMs <- MCTickMs
  TimeoutMs <- MCTimeoutMs
  PrecisionMs <- MCPrecisionMs
  PredictionMs <- MCPredictionMs
  MaxFrames <- MCMaxFrames
  Logics = {"buffered"}
CONSTRAINT StateBound
INVARIANT SingleRead
