CONSTANTS
  b1 = b1
  a1 = a1
  a2 = a2
  m1 = m1
  w1 = w1
  w2 = w2
  Null = Null
  Blobs <- OneBlob
  Atts <- TwoAtts
  Msgs <- MCMsgs
  MsgOf <- TwoMsgOf
  PartBytes <- TwoParts
  RawBytes <- OneForm
  Scopes <- MCScopes
  LegacyMsgs <- MCMsgs
  Workers <- MCWorkers
  MaxRefcount = 3
  MaxFaults = 0
  DiskLoss = FALSE
SPECIFICATION Spec
SYMMETRY WorkerSymmetry
INVARIANT
  LinkedFilesExist
