CONSTANTS
  c1 = c1
  c2 = c2
  alice = alice
  Stranger = Stranger
  NoDN = NoDN
  Conns <- MCConns
  Users <- MCUsers
  AllowAnonymousBind = FALSE
  MaxEntries = 2
  MaxChallenges = 2
SPECIFICATION Spec
SYMMETRY Symmetry
INVARIANT TypeOK AdmittedOnEvidence LogMatchesSession SearchAudited
PROPERTY ImplementsGate
