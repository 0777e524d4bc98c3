SPECIFICATION EventFairSpec
CONSTANTS
  audit = audit
  ledger = ledger
  Publisher = {c1}
  Dispatcher = {e1, e2}
  Handlers <- TwoHandlers
  Key = {NoKey, k}
  NoKey = NoKey
  MaxAttempts = 2
  Batch = 2
  MaxEvents = 2
  MaxRetries = 1
INVARIANTS OneDispatcherPerEvent DispatchedMeansDelivered
PROPERTIES EveryEventSettles
CHECK_DEADLOCK FALSE
