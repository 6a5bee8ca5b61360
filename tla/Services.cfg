CONSTANTS
  t1 = t1
  t2 = t2
  o1 = o1
  o2 = o2
  r1 = r1
  r2 = r2
  secret = secret
  roast = roast
  keyed = keyed
  plain = plain
  svc = svc
  ghost = ghost
  Nobody = Nobody
  SmbThreads <- MCThreads
  SmbShares <- MCShares
  SmbRestricted <- MCShares
  HavePasswords = TRUE
  RejectUnknown = FALSE
  Smb1Enabled = TRUE
  SmbCeiling = 300
  SmbOffers <- MCSmbOffers
  MaxSmbConns = 2
  MaxLogons = 2
  SshObjects <- MCObjects
  SshSessions <- MCSessions
  Planted = TRUE
  PasswordKept = FALSE
  KbdintKept = TRUE
  KeyKept = TRUE
  MaxSshConns = 3
  RdpConns <- MCRdpConns
  MaxRdpConns = 3
  Rules <- MCRules
  Closing = {2}
  Answering = {1, 2}
  Probes <- MCProbes
  Fits <- MCFits
  MaxHalves = 6
  KrbUsers <- MCUsers
  KrbKeyed = {roast, keyed}
  NoPreauth = {roast, plain}
  Services = {svc, ghost}
  KeyedSpns = {svc}
  Offers <- MCOffers
  Zones <- MCZones
  Names <- MCNames
  AxfrAllowed = TRUE
  MessageLimit = 3
  WireLimit = 5
  c1 = c1
  c2 = c2
  home = home
  login = login
  intranet = intranet
  vault = vault
  broken = broken
  NoRoute = NoRoute
  Conns <- MCConns
  Routes <- MCRoutes
  Ntlm <- MCNtlm
  Realm <- MCRealm
  Canned401 <- MCCanned401
  KeepAlive = TRUE
  TraceEnabled = TRUE
  MethodsMeasured = TRUE
  Requests <- MCRequests
  MaxChallenges = 2
  s1 = s1
  s2 = s2
  NoSource = NoSource
  Sources <- MCSources
  Objectives <- MCObjectives
  Events <- MCEvents
  MaxEvents = 5
SPECIFICATION MCSpec
CHECK_DEADLOCK FALSE
INVARIANT SmbOwnConnection SmbLogonsTold SmbRestrictedClosed
INVARIANT SshOwnCommands RdpLogTruth BannerLogged
INVARIANT KrbTicketForTgt KrbLogTruth DnsTransferWhole
INVARIANT HttpTypeOK ProtectedOnCredentials HttpLogTruth
INVARIANT ScoreTypeOK WinnerIsKillChain UnwindowedChainFound
PROPERTY MetStaysMet
SYMMETRY Alike
