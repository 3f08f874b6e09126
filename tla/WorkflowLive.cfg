SPECIFICATION FairSpec
CONSTANTS
  ann = ann
  bob = bob
  adam = adam
  User <- MCUser
  RolesOf <- MCRolesOf
  App = {a1}
  Req = {r1, r2}
  None = None
  MaxVersion = 4
  MaxContent = 1
PROPERTIES
  EveryRequestAnswered
  ImplementsLifecycle
