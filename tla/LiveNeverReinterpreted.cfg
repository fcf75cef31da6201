SPECIFICATION Spec
CONSTANTS
  Volume = {v1, v2}
  Trimmed = {v2}
  NoVolume = NoVolume
  MaxFaults = 1
PROPERTIES
  LiveNeverReinterpreted
CHECK_DEADLOCK FALSE
