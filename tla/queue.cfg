SPECIFICATION FairSpec
CONSTANTS
  Task = {t1, t2, t3, t4, t5}
  Waiter = {w}
  MaxConcurrency = 2
  MaxQueueLength = 2
  Unlimited = Unlimited
INVARIANTS TypeOK ConcurrencyBound WorkConserving Fifo NoLostWakeup IdleMeansDone
PROPERTY EveryoneServed
CHECK_DEADLOCK FALSE
