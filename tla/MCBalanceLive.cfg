SPECIFICATION TrafficSpec
CONSTANTS
  p1 = p1
  p2 = p2
  o1 = o1
  o2 = o2
  r1 = r1
  r2 = r2
  r3 = r3
  r4 = r4
  x1 = x1
  x2 = x2
  k1 = k1
  k2 = k2
  out1 = out1
  out2 = out2
  in1 = in1
  tick2 = tick2
  tx1 = tx1
  Managers = {p1, p2}
  Workers = {out1, tick2, tx1}
  ManagerOf <- MCManagerOf
  KindOf <- MCKindOf
  Outputs = {o1}
  Genesis = {}
  Rows = {r1}
  OutputOf <- MCOutputOf
  TxRows = {x1}
  TxRowOf <- MCTxRowOf
  Keys = {k1, k2}
  KeyOf <- MCKeyOf
  Amount <- MCAmount
  RowLimit = 1
  BatchSize = 1
  MaxFailures = 1
INVARIANTS ReadersAgree
PROPERTIES EventuallySettled
