SPECIFICATION Spec
CONSTANTS
  Initial = 9600
  Target = 115200
  Configure = TRUE
  GpsOnly = TRUE
  MaxFaults = 4
  MaxResets = 2
INVARIANTS ConfiguredIsInTune DescriptorsBounded
PROPERTIES ComesIntoTune
