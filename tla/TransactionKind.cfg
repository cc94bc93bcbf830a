SPECIFICATION FairSpec
CONSTANTS
  Collect = Collect
  Command = {Collect, Clock}
  Modulus = 3
  Retries = 1
  MaxTran = 1
  MaxHello = 1
  MaxHelloRequest = 1
  MaxLoss = 1
INVARIANT ReplyOfKind
CHECK_DEADLOCK FALSE
