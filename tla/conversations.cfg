SPECIFICATION Spec
CONSTANTS
  a1 = a1
  a2 = a2
  s1 = s1
  s2 = s2
  s3 = s3
  Attachments <- MCAttachments
  Slots <- MCSlots
  PageSize = 2
  MaxMessages = 3
SYMMETRY Symmetry
INVARIANTS
  BoundAttachmentsKept
  NewNumberIsFree
  PagesComplete
PROPERTY
  NothingInDeleted
CHECK_DEADLOCK FALSE
