CONSTANTS
  f1 = f1
  k1 = k1
  k2 = k2
  m0 = m0
  NoCall = NoCall
  Calls = {c1, c2, c3}
  Files <- MCFiles
  FileOf <- MCFileOf
  Convs <- MCConvs
  Messages <- MCMessages
  MaxMessages = 2
  InitialStore <- MCInitialStore
  Workloads <- MCWorkloads
SPECIFICATION Spec
CHECK_DEADLOCK FALSE
INVARIANTS
  TypeOK
  SnapshotFresh
  AcknowledgedMessagesKept
  MessagesInOrderOfCalls
PROPERTIES
  ImplementsRepository
  EveryOperationEnds
