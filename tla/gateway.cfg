SPECIFICATION GFairSpec
CONSTANTS
  Consumer = {amqp1, amqp2}
  ExchangeOf <- MCExchangeOf
  Client <- MCClient
  Publishes <- MCPublishes
  None = None
  NoAnswer = NoAnswer
  MaxLosses = 1
  Http = {h1}
  Asked <- MCAsked
  MaxParts = 2
  Together = TRUE
  amqp1 = amqp1
  amqp2 = amqp2
  h1 = h1
INVARIANTS TypeOK TrueAnswers AtMostOnce Delivery InTurn
PROPERTIES PromiseKept EventuallyAnswered
CHECK_DEADLOCK FALSE
