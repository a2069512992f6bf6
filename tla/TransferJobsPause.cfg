SPECIFICATION Spec
CONSTANTS
  j1 = j1
  j2 = j2
  c1 = c1
  c2 = c2
  Nobody = Nobody
  Jobs <- OneJob
  Conns <- OneConn
  ConnOf <- SameConn
  RetryLimit = 1
  MaxEvents = 4
  DeadRequests = FALSE
INVARIANT PausedTransferIsStopped
