CONSTANTS
  Null = Null
  u1 = u1
  u2 = u2
  l1 = l1
  l2 = l2
  host = host
  ann = ann
  bob = bob
  r1 = r1
  r2 = r2
  Users <- HostAndGuest
  Listings <- MCListings
  Units <- MCUnits
  ownerOf <- TwoListings
  listingOf <- UnitPerListing
  LastDate = 2
  Capacities = {1, 2}
  SeedUnits = {u1}
  seedCapacity <- SmallUnits
  Requests = {r1}
  guestOf <- OneGuest
  MaxBookings = 1
  CreateDtos <- ReviewCreates
  UpdateDtos <- ReviewUpdates
  Posts = {p1}
  Ratings = {4, 5}
SPECIFICATION ReviewSpec
CONSTRAINT OneCalendarRow
INVARIANTS
  ReviewsHold
  AccountsAreKept
  OwnedByTheLiving
  ReferencesHold
  DaysMatchBooking
PROPERTIES
  CommitHonoursOwner
  ReviewedWhenCompleted
CHECK_DEADLOCK FALSE
