----------------------------- MODULE MCStorage -----------------------------
EXTENDS Storage

CONSTANTS junk

\* Two frames of one or two payload bytes (9 or 10 bytes stored each by the
\* active pair, 12 or 13 by the inner pair) in a 16-byte ring: the second
\* frame waits for the first to be picked, and the write index wraps.
MCNMsgs == 2
MCMaxPayload == 2
MCCap == 16
MCSizeBits == 8
MCGarbageLens == {0, 1, 3}
MCInitLens == {0, 3}
MCPairs == {"active", "inner"}
=============================================================================
