SPECIFICATION Spec
CONSTANTS
  adam = adam
  eve = eve
  NoOne = NoOne
  User <- MCUser
  Admins <- MCAdmins
  Toggles <- MCToggles
  Tab = {t1, t2}
  PageSize = 2
  Filters = {NoOne, eve}
  MaxId = 2
SYMMETRY Symmetry
INVARIANTS
  TypeOK
  HeldRolesExplained
  LostGrantsRaced
  ActorsWereAdmins
  LockoutSelfMadeOrRaced
  RefusedTogglesAreStale
  RolelessExplained
  PagingSkipsNothing
PROPERTY LockoutIsForEver
