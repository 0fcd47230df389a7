SPECIFICATION FairSpec
CONSTANTS
  a1 = a1
  a2 = a2
  b1 = b1
  x = x
  y = y
  Accounts = {a1, a2}
  Brokers = {b1}
  Symbols = {x, y}
  BrokerOf <- MCBrokerOf
  Wishes <- MCWishes
  Streamable = {b1}
  MaxFaults = 1
  None = None
INVARIANT
  TypeOK
PROPERTIES
  StartsComplete
  StopsForGood
  StreamsRecover
