\* No crash and no failure is needed: a slow recorder is enough.
CONSTANTS
  MaxRevision = 2
  MaxEvents = 0
SPECIFICATION SnapSpec
PROPERTIES PayloadIsKept
