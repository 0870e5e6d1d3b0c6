CONSTANTS
  nSize = 8
  ElementSize = 2
  CursorMod = 16
  MaxMessages = 10
SPECIFICATION FairSpec
INVARIANTS
  NeverOverfull
  
PROPERTIES
  ImplementsFifo
  AllDelivered
