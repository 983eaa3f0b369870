SPECIFICATION FairSpec
CONSTANTS
  TickMs <- MCTickMs
  TimeoutMs <- MCTimeoutMs
  PrecisionMs <- MCPrecisionMs
  PredictionMs <- MCPredictionMs
  MaxFrames <- MCMaxFrames
  Logics = {"default"}
CONSTRAINT StateBound
PROPERTY GracefulCloseCompletes
