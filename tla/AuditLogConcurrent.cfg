SPECIFICATION FairSpec
CONSTANTS
  Txn = {t1, t2, t3}
  Owner = {t1, t2}
  Resource = {x}
  None = None
  Seeded = 0
  MaxRow = 2
INVARIANTS
  TypeOK
  NoDanglingPrev
  ForkWidthBounded
  LocksAscend
  AlarmMeansFork
  AlterationsLocated
PROPERTY EveryTransactionEnds
