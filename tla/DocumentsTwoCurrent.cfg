SPECIFICATION Spec
CONSTANTS
  Req = {r1, r2}
  Slot = {s1}
  Bytes = {x}
  None = None
  MaxVersion = 2
INVARIANTS
  OneCurrentPerSlot
