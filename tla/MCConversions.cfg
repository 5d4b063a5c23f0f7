CONSTANTS
  Mantissa = 4
  FloatBits = 2
  TextBits = 3
  Fraction = 5
  IntBits = 4
  ShortBits = 3
  LongBits = 6
  Largest = 2048
SPECIFICATION Spec
INVARIANTS
  RoundTrip
  IntegersAreSeen
  ChecksDeliver
  WholeNumbersCompare
PROPERTIES
  TextChangesNothing
