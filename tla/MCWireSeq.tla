----------------------------- MODULE MCWireSeq -----------------------------
EXTENDS WireSeq

\* Two game frames and one keep-alive race the AAA request and each other.
\* Payload bytes 0xFF 0xFF make the checksum carry; as the fifth byte of a
\* frame parsed as an AAA request, 0xFF is a server link type and 0x01 is
\* CLIENT_PROXY.
MCGameSends == 2
MCKeepAlives == 1
MCVerdicts == {"ok", "fail"}
MCPayloads == {<<255, 255>>, <<1>>}
MCTarget == 7
MCAnnounced == [area |-> 1, server |-> 2, platform |-> <<97, 98>>]
MCRc4 == [subtract |-> 17, modvt |-> 200, key |-> <<9, 250, 3, 77, 1, 255, 128, 64, 5, 6>>]
MCStaleBytes == {<<0, 0>>, <<255, 255>>}
=============================================================================
