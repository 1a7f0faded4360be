SPECIFICATION Spec
CONSTANTS
  NicNames <- TwoNics
  Loaders = {"nic", "cron"}
  TableSize = 8
  ChainLength = 3
  HashOf <- Colliding
  MaxUpdates = 3
  Statuses = {0, 1}
  Calls <- SevenCalls
  Scripts = {"s1"}
INVARIANTS TypeOK UsesOpenDb NothingCutOff RatesFromTwoSamples EveryNicFound
PROPERTIES Ends
CHECK_DEADLOCK FALSE
