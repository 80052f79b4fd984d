SPECIFICATION Spec
CONSTANTS
  Split <- MCSplit
  ParseDuration <- MCParseDuration
  ParseBool <- MCParseBool
  ReadFile <- MCReadFile
  Environments <- MCEnvironments
  Headers <- MCHeaders
  Orgs <- MCOrgs
  EmailDomains <- MCEmailDomains
  GroupClaims <- MCGroupClaims
  Groups <- MCGroups
  IdPs <- MCIdPs
  Rules <- MCRules
CHECK_DEADLOCK FALSE
INVARIANTS TypeOK TickersPositive ReadsListFirst ListenersAgree
INVARIANTS  AllowlistDecides MembershipByProof
