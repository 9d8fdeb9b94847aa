SPECIFICATION Spec
CONSTANTS
  Size = 5
  Many = 2
  Expiry = 4
  MaxBytes = 12
INVARIANTS OffersNext Announced
