SPECIFICATION Spec
CONSTANTS
  Keys = {k1, k2}
  Subjects = {alice}
  Tenants = {default}
  DefaultTenant = default
  NoTenant = NoTenant
  Asked = {NoTenant}
  Threads = {t1}
  Hosts = {1, 2, 3}
  ServerIP = 1
  ByHand <- NoneByHand
  LeaseTTL = 1
  RegTTL = 1
  ListTTL = 1
  MaxTime = 0
  Registry = FALSE
  MaxInFlight = 1
  Isolation = "key"
  Faults = {"readd"}

INVARIANT AddressesUnique
