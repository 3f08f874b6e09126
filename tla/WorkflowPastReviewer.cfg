SPECIFICATION Spec
CONSTANTS
  ann = ann
  bob = bob
  adam = adam
  User <- MCUser
  RolesOf <- MCRolesOf
  App = {a1}
  Req = {r1}
  None = None
  MaxVersion = 7
  MaxContent = 1
INVARIANT NoReviewerDecides
