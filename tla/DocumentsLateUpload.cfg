SPECIFICATION Spec
CONSTANTS
  Req = {r1}
  Slot = {s1}
  Bytes = {x}
  None = None
  MaxVersion = 1
PROPERTIES
  UploadsOnlyWhileEditable
