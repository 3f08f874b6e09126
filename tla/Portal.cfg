SPECIFICATION Spec
CONSTANTS
  ann = ann
  rob = rob
  ada = ada
  Nobody = Nobody
  User <- MCUser
  Viewer <- MCViewer
  RolesOf <- MCRolesOf
  Limits <- MCLimits
  Others <- MCOthers
  HistoryLimit = 3
  MaxMoves = 7
  MaxExtras = 1
INVARIANTS
  TypeOK
  CardsCoverRow
  DecisionReasonStands
  QueuesComplete
PROPERTIES
  DecisionOnWhatWasShown
  StaleClickMeansRfiRound
  KeysLostUnseen
