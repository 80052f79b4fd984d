SPECIFICATION Spec
CONSTANT Width = 4
INVARIANTS TypeOK AllocateReturnsLowestFree ServerAddressNeverHandedOut
