--------------------------- MODULE MCProxyManager ---------------------------
EXTENDS ProxyManager

CONSTANTS s1, s2, s3

MCSess == {s1, s2, s3}
MCUids == 1..3
\* SINGLE_SESSION_BEGIN, CLIENT_PROXY, MULTI_SESSION_BEGIN, GAMESVR_PROXY
MCLinkTypes == {0, 1, 8, 9}
Symmetry == Permutations(MCSess)
=============================================================================
