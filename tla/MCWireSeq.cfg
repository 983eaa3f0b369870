\* Sequence numbering and the mask between the active client and the
\* gateway, with the unsynchronised ++_seq of both of A's threads.
SPECIFICATION FairSpec
CONSTANTS
  GameSends <- MCGameSends
  KeepAlives <- MCKeepAlives
  Verdicts <- MCVerdicts
  Payloads <- MCPayloads
  Target <- MCTarget
  Announced <- MCAnnounced
  Rc4 <- MCRc4
  StaleBytes <- MCStaleBytes
  EC_Success = 0
  EC_ServerNotFound = 1
INVARIANT MaskRoundTrip
INVARIANT ConsecutiveFramesDelivered
INVARIANT AnnouncedInfoRegistered
INVARIANT RoutedToTargetAfterAAA
PROPERTY HandshakeAnswered
\* A session stops once its sends are spent and G has read every frame.
CHECK_DEADLOCK FALSE
