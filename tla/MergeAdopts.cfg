CONSTANTS
  idA = idA
  idB = idB
  idC = idC
  www = www
  db = db
  HostIds <- MCHostIds
  Stems <- MCStems
  SvcPorts = {22, 80}
  SvcTypes = {"http", "banner", "ssh"}
  Postures = {1, 2}
  Bases <- MCBases
  Captures <- MCCaptures
  Subnets <- MCSubnets
  Placeholder = 10
  FirstHost = 2
  SubnetBits = 3
  AddressBits = 4
  MaxCaptures = 4
SPECIFICATION MergeSpec
INVARIANT UnionByMeasuredIp
CHECK_DEADLOCK FALSE
