SPECIFICATION FairSpec
CONSTANTS
  c1 = c1
  c2 = c2
  u1 = u1
  u2 = u2
  Slot <- MCSlot
  Upload <- MCUpload
  NoUpload = NoUpload
  Blocks <- MCBlocks
  Accepted <- MCAccepted
  Pages = 2
  Orderly = TRUE
INVARIANTS
  TypeOK
  FlashIntact
PROPERTIES
  Answered
