CONSTANTS
  c1 = c1
  c2 = c2
  alice = alice
  Stranger = Stranger
  NoDN = NoDN
  Conns <- OneConn
  Users <- MCUsers
  AllowAnonymousBind = FALSE
  MaxEntries = 1
  MaxChallenges = 1
SPECIFICATION Spec
INVARIANT RefusedBindUnbinds
