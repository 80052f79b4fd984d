CONSTANTS
  staff = staff
  laptop = laptop
  TenantIDs = {default, eng}
  DefaultID = default
  NoTenant = NoTenant
  Asked = {NoTenant, eng}
  Credentials = {staff}
  Watchers = {laptop}
  Proves <- MCProves
  Deletable = {eng}
  MaxSerial = 2
  MaxSubs = 1
SPECIFICATION SessionsSpec
INVARIANT RoutesOfOwnTenant
