CONSTANTS
  web = web
  shop = shop
  u = u
  v = v
  NoUser = NoUser
  Sids = {1, 2, 3}
  Users <- MCUsers
  Services <- MCServices
  Routes = {1, 2}
  Ports = {1, 2, 3, 4, 5, 6}
  Estates <- MCEstates
  MaxProbes = 3
  idA = idA
  idB = idB
  idC = idC
  www = www
  db = db
  HostIds <- MCHostIds
  Stems <- MCStems
  SvcPorts = {22, 80}
  SvcTypes = {"http", "banner", "ssh"}
  Postures = {1, 2}
  Bases <- MCBases
  Captures <- MCCaptures
  Subnets <- MCSubnets
  Placeholder = 10
  FirstHost = 2
  SubnetBits = 3
  AddressBits = 4
  MaxCaptures = 4
  domain = domain
  alice = alice
  bob = bob
  staff = staff
  everyone = everyone
  admins = admins
  Labels <- MCLabels
  AccountSids <- MCSids
  Privileged = {admins}
  Dns = {1, 2, 3, 4}
  Directories <- MCDirectories
  SeedSets <- MCSeeds
  bind = bind
  unbind = unbind
  Fields = {"action", "path", "source"}
  Ephemeral = {"source"}
  Words <- MCWords
  PartsOf <- MCPartsOf
  Goals <- MCGoals
  LogEvents <- MCEvents
  MaxLog = 2
SPECIFICATION MCSpec
INVARIANT TypeOK ReachSound ReachComplete HopsMinimal ConfirmedByKeys
INVARIANT NothingLost WrittenLoads EscalationExact RuleAgreesWithScore
PROPERTY Terminates AddressKept RoundsEnd
CHECK_DEADLOCK FALSE
