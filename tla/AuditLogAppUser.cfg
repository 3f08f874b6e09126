SPECIFICATION Spec
CONSTANTS
  Txn = {t1, t2}
  Owner = {}
  Resource = {x}
  None = None
  Seeded = 1
  MaxRow = 2
INVARIANT NoAppendDenied
