CONSTANTS
  c1 = c1
  c2 = c2
  home = home
  login = login
  intranet = intranet
  vault = vault
  broken = broken
  NoRoute = NoRoute
  Conns = {c1}
  Routes = {home}
  Ntlm = {}
  Realm = {}
  Canned401 = {}
  KeepAlive = TRUE
  TraceEnabled = FALSE
  MethodsMeasured = FALSE
  Requests <- BodyRequests
  MaxChallenges = 0
SPECIFICATION HttpSpec
INVARIANT InStep
