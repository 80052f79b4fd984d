SPECIFICATION Spec
CONSTANTS
  Keys = {k1, k2, k3}
  Subjects = {alice, bob}
  Tenants = {default}
  DefaultTenant = default
  NoTenant = NoTenant
  Asked = {NoTenant}
  Threads = {t1, t2}
  Hosts = {1, 2, 3}
  ServerIP = 1
  ByHand <- TwoByHand
  LeaseTTL = 1
  RegTTL = 1
  ListTTL = 1
  MaxTime = 1
  Registry = FALSE
  MaxInFlight = 3
  Isolation = "key"
  Faults = {"add", "sweep", "crash"}
SYMMETRY ThreadSymmetry
INVARIANTS AddressesUnique PoolAccountsForStore DeviceMatchesStore
PROPERTIES StartsClean KeepsBook
