CONSTANTS
  vendor = vendor
  product = product
  other = other
  none = none
  VendorName = vendor
  ProductName = product
  OtherNames <- Others
  Missing = none
  ReadFaults = TRUE
  WriteFaults = TRUE
  Restarts = TRUE
SPECIFICATION SafeConfigSpec
INVARIANT ReturnsRight
PROPERTY NeverSpoiled
