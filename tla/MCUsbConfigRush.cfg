SPECIFICATION Spec
CONSTANTS
  Values <- MCValues
  Nominal = 24
  MaxChanges = 5
INVARIANT
  ConfiguredIsArmed
