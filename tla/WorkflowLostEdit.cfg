SPECIFICATION Spec
CONSTANTS
  ann = ann
  bob = bob
  adam = adam
  User <- MCUser
  RolesOf <- MCRolesOf
  App = {a1}
  Req = {r1, r2}
  None = None
  MaxVersion = 2
  MaxContent = 1
INVARIANT EditsActOnWhatTheyRead
