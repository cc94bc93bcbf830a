SPECIFICATION FairSpec
CONSTANTS
  Collect = Collect
  Command = {Collect, Clock}
  Modulus = 3
  Retries = 1
  MaxTran = 4
  MaxHello = 1
  MaxHelloRequest = 1
  MaxLoss = 1
INVARIANTS TypeOK OwnReply DoneOnce HelloEchoed
PROPERTY TransactionEnds
CHECK_DEADLOCK FALSE
