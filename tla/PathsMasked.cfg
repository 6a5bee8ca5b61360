CONSTANTS
  web = web
  shop = shop
  u = u
  v = v
  NoUser = NoUser
  Sids = {1, 2, 3}
  Users <- MCUsers
  Services <- MCServices
  Routes = {1, 2}
  Ports = {1, 2, 3, 4, 5, 6}
  Estates <- MCEstates
  MaxProbes = 3
SPECIFICATION Spec
INVARIANT ConfirmedReallyWorks
CHECK_DEADLOCK FALSE
