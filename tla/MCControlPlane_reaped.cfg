SPECIFICATION Spec
CONSTANTS
  Keys = {k1}
  Subjects = {alice}
  Tenants = {default}
  DefaultTenant = default
  NoTenant = NoTenant
  Asked = {NoTenant}
  Threads = {t1}
  Hosts = {1, 2}
  ServerIP = 1
  ByHand <- NoneByHand
  LeaseTTL = 1
  RegTTL = 1
  ListTTL = 1
  MaxTime = 1
  Registry = FALSE
  MaxInFlight = 2
  Isolation = "none"
  Faults = {}

INVARIANT DeviceMatchesStore
