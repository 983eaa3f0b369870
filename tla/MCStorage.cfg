\* The active client's and the inner pair's storage: try_copy_to_storage
\* against pick_msg.
SPECIFICATION Spec
CONSTANTS
  junk = junk
  Junk = junk
  NMsgs <- MCNMsgs
  MaxPayload <- MCMaxPayload
  Cap <- MCCap
  SizeBits <- MCSizeBits
  GarbageLens <- MCGarbageLens
  InitLens <- MCInitLens
  Pairs <- MCPairs
INVARIANT PickedInOrder
