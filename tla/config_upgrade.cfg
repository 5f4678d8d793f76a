CONSTANTS
  Schemas <- AllSchemas
  Files <- MCFiles
SPECIFICATION Spec
INVARIANTS StillAccepted
PROPERTIES SettingsKept
