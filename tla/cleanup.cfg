CONSTANTS
  Null = Null
  ann = ann
  bob = bob
  loft = loft
  r1 = r1
  r2 = r2
  Avatar = Avatar
  Users = {ann, bob}
  Profiled = {ann}
  Targets = {loft}
  ownerOf <- LoftIsAnns
  Requests = {r1, r2}
  MaxFiles = 2
  MaxBlobs = 2
  Faults = {}
SPECIFICATION Spec
PROPERTY FailedAttachmentIsCleaned
CHECK_DEADLOCK FALSE
