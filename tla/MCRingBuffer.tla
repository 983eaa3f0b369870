---------------------------- MODULE MCRingBuffer ----------------------------
EXTENDS RingBufferSPSC

CONSTANTS a, b, junk

\* A five-byte ring: blocks of one or two bytes wrap around its end, and
\* the third of three two-byte blocks does not fit.
MCCap == 5
MCData == {a, b}
MCMaxLen == 2
MCSizeBits == 8
=============================================================================
