SPECIFICATION Spec
CONSTANTS
  Thread = {t1, t2, t3}
  NoThread = NoThread
  Table = {"geometry"}
INVARIANT UsedWhenFull
INVARIANT RacesWithFiller
PROPERTY FilledOnce
PROPERTY WaitsEnd
\* threads may wait for a mutex that a failed initialisation left locked
CHECK_DEADLOCK FALSE
