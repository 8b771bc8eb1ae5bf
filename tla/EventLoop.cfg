SPECIFICATION Spec
CONSTANTS
  io1 = io1
  io2 = io2
  Main = Main
  d1 = d1
  d2 = d2
  f1 = f1
  f2 = f2
  f3 = f3
  Names = {io1, io2}
  Devices = {d1, d2}
  Fds = {f1, f2, f3}
  BatchOf <- TheBatches
  OpOf <- TheOps
  CtxOf <- TheContexts
  Parking = {f3}
  MaxRecord = 2
INVARIANTS TypeOK InitServes RecordsAreTrue UnregisterSucceeds
