\* Overlapping ticks of a periodic job, with a request, a failed call and a restart.
SPECIFICATION Spec
CONSTANTS
  Ticks = {t1, t2}
  Requests = {r1}
  Kinds = {"periodic"}
  MaxRetries = 1
  MaxRestarts = 1
  MaxFaults = 1
INVARIANTS TypeOK PeriodicStaysArmed
PROPERTIES RetriesEnd
CHECK_DEADLOCK FALSE
