\* One disturbance of any kind, and a revision for each that can come of it.
CONSTANTS
  MaxRevision = 3
  MaxEvents = 1
SPECIFICATION SnapSpec
INVARIANTS SnapTypeOK ReadyIsStored NewestIsCurrent OutboxBelongsToPending
PROPERTIES PendingSettles ErasedUnlessCrashed
