SPECIFICATION MCSpec
CONSTANTS
  a1 = a1 a2 = a2 a3 = a3
  l1 = l1 l2 = l2 l3 = l3
  t1 = t1 t2 = t2 t3 = t3 t4 = t4 t5 = t5
  m1 = m1 m2 = m2 o1 = o1 o2 = o2 o3 = o3
  Agreements = {a1, a2, a3}
  Internal = {a1, a2}
  TokenOf <- MCTokenOf
  MaxActiveJobs = 1
  MaxPrompts = 1
  MaxInputs = 1
  Links = {l1, l2, l3}
  Private = {l3}
  Gcash = {l1}
  TextOf <- MCTextOf
  AccountOf <- MCAccountOf
  WorkerLimit = 1
  GlobalRpm = 1
  MaxTries = 2
  MaxCalls = 2
  Batches = {t1, t2, t3, t4, t5}
  Mailboxes = {m1, m2}
  NoBatch = NoBatch
  BatchOf <- MCBatchOf
  Width <- MCWidth
  Orders = {o1, o2, o3}
  BuyerOf <- MCBuyerOf
  MaxChecks = 2
  WatchBatch = 2
  MaxLost = 1
INVARIANTS
  ServicesTypeOK SlotsBalance RunningHoldsSlot OneJobPerAgreement
  QueueAgrees OneCheckoutPerText MailboxExclusive NothingLeftBehind
PROPERTIES
  AgreementJobsEnd CancelledLinkStays LinkEndsJob OrderSettlesOnce QueueMoves
  ArrivalSticks WatchEnds
CHECK_DEADLOCK FALSE
