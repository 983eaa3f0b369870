\* The gateway drops frames the active client sent after the handshake.
\* (a lost update or reordering of ++_seq across A's two threads).
SPECIFICATION Spec
CONSTANTS
  GameSends <- MCGameSends
  KeepAlives <- MCKeepAlives
  Verdicts <- MCVerdicts
  Payloads <- MCPayloads
  Target <- MCTarget
  Announced <- MCAnnounced
  Rc4 <- MCRc4
  StaleBytes <- MCStaleBytes
  EC_Success = 0
  EC_ServerNotFound = 1

INVARIANT LateFramesDeliveredAfterAAA
\* A session stops once its sends are spent and G has read every frame.
CHECK_DEADLOCK FALSE
