SPECIFICATION Spec
CONSTANTS
  Txn = {t1, t2}
  Owner = {t1, t2}
  Resource = {x}
  None = None
  Seeded = 1
  MaxRow = 2
INVARIANT ChainVerifies
