\* The ring buffer shared by one producer and one consumer thread.
SPECIFICATION Spec
CONSTANTS
  a = a
  b = b
  junk = junk
  Junk = junk
  Cap <- MCCap
  Data <- MCData
  MaxLen <- MCMaxLen
  SizeBits <- MCSizeBits
PROPERTY RefinesByteQueue
