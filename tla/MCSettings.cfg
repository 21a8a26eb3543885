CONSTANTS
  Unknown = Unknown
  Missing = Missing
  IDs <- SomeIDs
  Values <- SomeValues
  FrameSizeMin = 3
  FrameSizeMax = 5
  MaxWindowSize = 7
  DefaultWindowSize = 4

SPECIFICATION Spec
INVARIANT TypeOK
PROPERTY SettingsRefinesMap
