SPECIFICATION FairSpec
CONSTANTS
  s1 = s1
  s2 = s2
  s3 = s3
  Sess <- MCSess
  Uids <- MCUids
  LinkTypes <- MCLinkTypes
  Lanes = 2
  UidsMayCollide = TRUE
SYMMETRY Symmetry
\* Only three sessions are ever accepted: the acceptor then has nothing to do.
CHECK_DEADLOCK FALSE
INVARIANT PromotedAuthenticated
