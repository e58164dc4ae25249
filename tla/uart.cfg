CONSTANTS
  Writers = {w1, w2, w3}
  Chars = {a, b}
  FifoDepth = 3
  TxLength = 5
  NoChar = NoChar
SPECIFICATION Spec
INVARIANTS TypeOK NoOverrun DirectOnlyWhenNothingQueued NoStall
PROPERTIES InOrder SleeperIsWoken
