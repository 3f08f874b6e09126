SPECIFICATION Spec
CONSTANTS
  ann = ann
  bob = bob
  adam = adam
  User <- MCUser
  RolesOf <- MCRolesOf
  App = {a1}
  Req = {r1, r2}
  None = None
  MaxVersion = 7
  MaxContent = 1
SYMMETRY Symmetry
INVARIANTS
  TypeOK
  IInv
  TrailIsLegalRun
  VersionCountsTransitions
  BeltsStayUnused
  DecisionSeparate
  RfiNoteWithTransition
PROPERTIES
  TerminalFrozen
