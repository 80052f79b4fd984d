SPECIFICATION Spec
CONSTANTS
  Keys = {k1}
  Subjects = {alice, bob}
  Tenants = {default}
  DefaultTenant = default
  NoTenant = NoTenant
  Asked = {NoTenant}
  Threads = {t1, t2}
  Hosts = {1, 2, 3}
  ServerIP = 1
  ByHand <- NoneByHand
  LeaseTTL = 1
  RegTTL = 1
  ListTTL = 1
  MaxTime = 0
  Registry = FALSE
  MaxInFlight = 2
  Isolation = "none"
  Faults = {}

PROPERTY OwnerStays
