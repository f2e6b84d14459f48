SPECIFICATION FairSpec
CONSTANTS
  Consumer = {amqp1}
  ExchangeOf <- MCExchangeOf
  Client = {k1}
  Publishes <- MCPublishes
  None = None
  MaxLosses = 1
  amqp1 = amqp1
  amqp2 = amqp2
  k1 = k1
  k2 = k2
PROPERTIES ExitsWithoutQueues
CHECK_DEADLOCK FALSE
