CONSTANTS
  Tasks = {t1, t2}
  Devices = {d1}
  Registers = {r}
  Values = {0, 1, 2}
  NoRequest = NoRequest
  Faults = {"arbitrationLost"}
SPECIFICATION Spec
PROPERTY ArbitrationLossEnds
