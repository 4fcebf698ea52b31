CONSTANTS
  Null = Null
  u1 = u1
  u2 = u2
  l1 = l1
  l2 = l2
  host = host
  ann = ann
  bob = bob
  r1 = r1
  r2 = r2
  Users <- MCUsers
  Listings <- MCListings
  Units <- MCUnits
  ownerOf <- TwoListings
  listingOf <- UnitPerListing
  LastDate = 2
  Capacities = {1}
  SeedUnits <- MCUnits
  seedCapacity <- SmallUnits
  Requests = {r1, r2}
  guestOf <- OneGuestTwice
  MaxBookings = 2
  CreateDtos <- TxCreates
  UpdateDtos <- TxUpdates
SPECIFICATION TxSpec
PROPERTIES
  ImplementsBooking
  ImplementsLedger
  ConflictsAreReal
  RequestsEnd
CHECK_DEADLOCK FALSE
