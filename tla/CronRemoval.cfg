\* Two overlapping requests, one of which may be a removal, and a tick.
SPECIFICATION Spec
CONSTANTS
  Ticks = {t1}
  Requests = {r1, r2}
  Kinds = {"at", "periodic"}
  MaxRetries = 0
  MaxRestarts = 0
  MaxFaults = 0
PROPERTIES RemovedJobsFallSilent
CHECK_DEADLOCK FALSE
