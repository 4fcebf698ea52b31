CONSTANTS
  Null = Null
  u1 = u1
  u2 = u2
  l1 = l1
  l2 = l2
  host = host
  ann = ann
  bob = bob
  r1 = r1
  r2 = r2
  Users <- MCUsers
  Listings <- MCListings
  Units <- MCUnits
  ownerOf <- TwoListings
  listingOf <- UnitPerListing
  LastDate = 2
  Capacities = {1, 2}
  SeedUnits = {u1}
  seedCapacity <- SmallUnits
  Requests = {r1}
  guestOf <- OneGuest
  MaxBookings = 1
  CreateDtos <- FewCreates
  UpdateDtos <- FewUpdates
SPECIFICATION AuditSpec
CONSTRAINT OneCalendarRow
PROPERTY NewDaysAreNotBlocked
CHECK_DEADLOCK FALSE
