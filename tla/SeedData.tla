------------------------------ MODULE SeedData ------------------------------
(***************************************************************************)
(* The development data that prisma/seed inserts, as far as the rules of   *)
(* the bookings read it.  Dates are days since the 1st of March 2026;      *)
(* listings, units and guests are named as the seed names them, by index   *)
(* and by username.                                                        *)
(***************************************************************************)
EXTENDS Integers, Sequences

DaysBefore == [month \in 3 .. 12 |->
  <<0, 31, 61, 92, 122, 153, 184, 214, 245, 275>>[month - 2]]

Day(month, day) == DaysBefore[month] + day - 1

LastDay == 290

usernames == {"alex", "maria", "john", "elena", "ivan", "olga", "daniel",
              "sophia", "nikita", "emma"}

\* The number of profiles.
profileCount == 10

\* The codes of the amenities.
amenityCodes ==
  {"WIFI", "PARKING", "KITCHEN", "AIR_CONDITIONING", "HEATING", "WASHER",
   "DRYER", "TV", "POOL", "GYM", "ELEVATOR", "PET_FRIENDLY", "BALCONY",
   "SEA_VIEW", "MOUNTAIN_VIEW", "BREAKFAST", "WORKSPACE", "SELF_CHECK_IN",
   "SMOKE_ALARM", "FIRST_AID_KIT", "HOT_TUB", "BBQ_GRILL", "FIREPLACE",
   "KIDS_FRIENDLY", "BEACH_ACCESS", "SKI_IN_OUT", "EV_CHARGER",
   "WHEELCHAIR_ACCESS", "LUGGAGE_DROP", "LATE_CHECKOUT"}

\* ownerUsername and amenityCodes of each listing, from listing 0.
listingOwners == <<"alex", "maria", "elena", "olga", "daniel", "sophia",
                   "nikita", "emma", "alex", "maria", "daniel">>

listingAmenities == <<
  {"WIFI", "KITCHEN", "AIR_CONDITIONING", "WORKSPACE", "TV"},
  {"WIFI", "PARKING", "KITCHEN", "PET_FRIENDLY", "SMOKE_ALARM"},
  {"WIFI", "BREAKFAST", "SELF_CHECK_IN"},
  {"WIFI", "POOL", "BBQ_GRILL", "PARKING", "AIR_CONDITIONING"},
  {"WIFI", "GYM", "BREAKFAST", "ELEVATOR", "WORKSPACE"},
  {"WIFI", "SELF_CHECK_IN", "WORKSPACE", "LUGGAGE_DROP"},
  {"WIFI", "KITCHEN", "WORKSPACE", "WASHER", "BALCONY"},
  {"WIFI", "FIREPLACE", "MOUNTAIN_VIEW", "PARKING", "PET_FRIENDLY"},
  {"WIFI", "SEA_VIEW", "BALCONY", "AIR_CONDITIONING", "KITCHEN"},
  {"WIFI", "SELF_CHECK_IN", "KITCHEN", "SMOKE_ALARM"},
  {"WIFI", "MOUNTAIN_VIEW", "PARKING", "FIRST_AID_KIT"}>>

\* listingIndex and capacity of each unit, from unit 0.
unitListings == <<0, 0, 1, 1, 2, 2, 3, 3, 4, 4, 5, 5, 6, 6, 7, 7, 8, 8, 9, 9,
                  10, 10>>
unitCapacities == <<3, 2, 6, 2, 2, 2, 4, 3, 2, 2, 1, 1, 2, 2, 3, 2, 2, 2, 2,
                    2, 2, 2>>

\* The days of unitCalendarDays whose state is BLOCKED, and the others.
blockedDays ==
  {<<0, Day(6, 20)>>, <<0, Day(6, 21)>>, <<7, Day(8, 6)>>, <<9, Day(3, 21)>>,
   <<11, Day(6, 13)>>, <<13, Day(7, 21)>>, <<15, Day(10, 2)>>,
   <<19, Day(11, 16)>>, <<21, Day(12, 4)>>}

pricedDays ==
  {<<2, Day(6, 25)>>, <<4, Day(6, 28)>>, <<6, Day(8, 5)>>, <<8, Day(3, 19)>>,
   <<10, Day(6, 8)>>, <<12, Day(7, 19)>>, <<14, Day(9, 9)>>,
   <<16, Day(5, 24)>>, <<17, Day(6, 29)>>, <<18, Day(11, 10)>>,
   <<20, Day(12, 3)>>}

Stay(unit, guest, listing, in, out, count, status) ==
  [guest |-> guest, listing |-> listing, unit |-> unit, checkIn |-> in,
   checkOut |-> out, guestsCount |-> count, status |-> status]

firstBookings == <<
  Stay(0, "maria", 0, Day(6, 15), Day(6, 18), 2, "CONFIRMED"),
  Stay(2, "john", 1, Day(5, 10), Day(5, 13), 4, "COMPLETED"),
  Stay(4, "ivan", 2, Day(7, 2), Day(7, 5), 1, "CANCELLED"),
  Stay(0, "john", 0, Day(5, 1), Day(5, 4), 2, "COMPLETED"),
  Stay(1, "elena", 0, Day(6, 20), Day(6, 22), 2, "PENDING"),
  Stay(2, "olga", 1, Day(7, 1), Day(7, 5), 5, "CONFIRMED"),
  Stay(3, "ivan", 1, Day(7, 15), Day(7, 18), 2, "CANCELLED"),
  Stay(5, "emma", 2, Day(4, 11), Day(4, 14), 1, "COMPLETED"),
  Stay(6, "nikita", 3, Day(8, 3), Day(8, 8), 4, "CONFIRMED"),
  Stay(7, "maria", 3, Day(8, 10), Day(8, 12), 3, "PENDING"),
  Stay(8, "daniel", 4, Day(3, 20), Day(3, 23), 2, "COMPLETED")>>

laterBookings == <<
  Stay(9, "sophia", 4, Day(9, 1), Day(9, 3), 1, "EXPIRED"),
  Stay(10, "alex", 5, Day(6, 5), Day(6, 9), 1, "CONFIRMED"),
  Stay(11, "elena", 5, Day(6, 12), Day(6, 14), 1, "PENDING"),
  Stay(12, "ivan", 6, Day(7, 20), Day(7, 22), 2, "COMPLETED"),
  Stay(13, "john", 6, Day(7, 20), Day(7, 24), 2, "CANCELLED"),
  Stay(14, "emma", 7, Day(9, 10), Day(9, 15), 3, "CONFIRMED"),
  Stay(15, "maria", 7, Day(10, 1), Day(10, 4), 2, "COMPLETED"),
  Stay(16, "olga", 8, Day(5, 25), Day(5, 28), 2, "PENDING"),
  Stay(17, "daniel", 8, Day(6, 30), Day(7, 3), 2, "COMPLETED"),
  Stay(18, "sophia", 9, Day(11, 11), Day(11, 13), 2, "CONFIRMED"),
  Stay(19, "nikita", 9, Day(11, 15), Day(11, 17), 2, "CANCELLED"),
  Stay(20, "maria", 10, Day(12, 5), Day(12, 8), 2, "CONFIRMED"),
  Stay(21, "olga", 10, Day(12, 12), Day(12, 14), 2, "COMPLETED")>>

seedBookings == firstBookings \o laterBookings

=============================================================================
