SPECIFICATION HistorySpec
CONSTANTS
  e1 = e1
  e2 = e2
  e3 = e3
  e4 = e4
  NoEpoch = NoEpoch
  Epochs <- MCEpochs
  Stamps <- MCStamps
  Numbers <- MCNumbers
  Retain = 2
SYMMETRY Interchangeable
INVARIANTS HistoryTypeOK StampsAscend RetiredByAge NumbersAscend
PROPERTY NoEpochReturns
