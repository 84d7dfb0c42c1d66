SPECIFICATION FairBatchSpec
CONSTANTS
  N = 3
  Concurrency = {0, 2}
INVARIANTS ConcurrencyBounded FailsByItself PairedInOrder
PROPERTIES ContractSpec BatchReturns
CHECK_DEADLOCK FALSE
