SPECIFICATION Spec
CONSTANTS
  IPv4 <- IPv4Two
  IPv6 <- IPv6One
  Host = "ns.up"
  Apex = "up"
  MaxFaults = 3
  MaxEdits = 2
INVARIANTS TypeOK LookupHolds NeverEmptyWithoutFault
PROPERTIES AddressIsPublished SoleAddressStays
CHECK_DEADLOCK FALSE
