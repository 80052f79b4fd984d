SPECIFICATION FairSpec
CONSTANTS
  Keys = {k1}
  Subjects = {alice}
  Tenants = {default, eng}
  DefaultTenant = default
  NoTenant = NoTenant
  Asked = {NoTenant, eng}
  Threads = {t1, t2}
  Hosts = {1, 2}
  ServerIP = 1
  ByHand <- NoneByHand
  LeaseTTL = 1
  RegTTL = 1
  ListTTL = 1
  MaxTime = 1
  Registry = FALSE
  MaxInFlight = 4
  Isolation = "none"
  Faults = {"add", "readd", "remove"}
INVARIANTS TypeOK ServerAddressReserved
PROPERTIES RemovedStopRenewing EndedLeaseLeavesStore
