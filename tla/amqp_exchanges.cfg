SPECIFICATION Spec
CONSTANTS
  Consumer = {amqp1, amqp2}
  ExchangeOf <- MCExchangeOf
  Client = {k1, k2}
  Publishes <- MCPublishes
  None = None
  MaxLosses = 0
  amqp1 = amqp1
  amqp2 = amqp2
  k1 = k1
  k2 = k2
INVARIANTS EveryExchangeServed
CHECK_DEADLOCK FALSE
