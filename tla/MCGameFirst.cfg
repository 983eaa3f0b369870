\* A game frame sent before the connect callback sends the AAA request,
\* against the routing of the gateway.
SPECIFICATION Spec
CONSTANTS
  GameSends <- MCGameSends
  KeepAlives <- MCKeepAlives
  Verdicts <- MCVerdicts
  Payloads <- MCPayloads
  Target <- MCTarget
  Announced <- MCAnnounced
  Rc4 <- MCRc4
  StaleBytes <- MCStaleBytes
  EC_Success = 0
  EC_ServerNotFound = 1
INVARIANT RoutedToTarget
\* A session stops once its sends are spent and G has read every frame.
CHECK_DEADLOCK FALSE
