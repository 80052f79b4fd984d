CONSTANTS
  staff = staff
  laptop = laptop
  phone = phone
  TenantIDs = {default, eng}
  DefaultID = default
  Credentials = {staff}
  Watchers = {laptop, phone}
  Proves <- MCProves
  Deletable = {eng}
  MaxSerial = 3
  MaxSubs = 2
SPECIFICATION FairSpec
CHECK_DEADLOCK FALSE
INVARIANTS TypeOK SubscribersOpen OpenStreamsAreKnown
PROPERTIES SerialsIncrease EventuallyCurrent ClosedStreamsEnd
