SPECIFICATION FairSpec
CONSTANTS
  Keys = {k1}
  Subjects = {alice, bob}
  Tenants = {default}
  DefaultTenant = default
  NoTenant = NoTenant
  Asked = {NoTenant}
  Threads = {t1}
  Hosts = {1, 2}
  ServerIP = 1
  ByHand <- NoneByHand
  LeaseTTL = 2
  RegTTL = 1
  ListTTL = 1
  MaxTime = 1
  Registry = TRUE
  MaxInFlight = 4
  Isolation = "none"
  Faults = {"remove", "crash", "fetch"}
INVARIANTS LeaseWithinRegistration 
 
