CONSTANT
  IntBits <- MCIntBits
SPECIFICATION Spec
INVARIANTS
  TypeOK
  ScanEnds
  BitmapExact
  Capacity
PROPERTY
  FreshObject
