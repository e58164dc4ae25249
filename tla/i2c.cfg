CONSTANTS
  Tasks = {t1, t2}
  Devices = {d1, d2}
  Registers = {r}
  Values = {0, 1}
  NoRequest = NoRequest
  Faults = {"nack", "busError", "arbitrationLost"}
SPECIFICATION Spec
INVARIANTS TypeOK LockFreeMeansBusFree ReadReturnsRegister WriteLanded
PROPERTIES FrameStable LockComesBack
