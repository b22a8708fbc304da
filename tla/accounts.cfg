SPECIFICATION FairSpec
CONSTANTS
  DayLength = 6
  Emails = {master, guest}
  Master = master
  Phones = {phone}
  Slots = {r1, r2}
  Changes <- Bodies
  MaxRequests = 3
  nobody = nobody
INVARIANTS AccountInv PhoneOfItsUser WindowIsArc
PROPERTIES WindowReopens
CHECK_DEADLOCK FALSE
