SPECIFICATION Spec
CONSTANTS
  Zooms <- MCZooms
  MaxZooms = {1, 5}
  SlewRates <- MCSlewRates
  InitialZooms = {0, 1, 4}
  MaxCommands = 2
INVARIANTS
  FlagMarksChange
