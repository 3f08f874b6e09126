SPECIFICATION FairSpec
CONSTANTS
  Req = {r1, r2}
  Slot = {s1}
  Bytes = {x, y}
  None = None
  MaxVersion = 3
INVARIANTS
  TypeOK
  IInv
  VersionsContiguous
  NewestIsCurrent
  DownloadsFindTheirFile
  TempsOfUploads
PROPERTIES
  EveryRequestAnswered
