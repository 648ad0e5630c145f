\* Enrollment: two enrollments, a renewal and a deletion, a failed step, and a failed
\* compensation or a restart. Policy: two requests and one failed read. Program: two
\* starts, a revocation read late.
SPECIFICATION AdminSpec
CONSTANTS
  e1 = e1
  e2 = e2
  w1 = w1
  d1 = d1
  k1 = k1
  k2 = k2
  NoKey = NoKey
  Enrolls = {e1, e2}
  Renews = {w1}
  Deletes = {d1}
  Keys = {k1, k2}
  OneTime = {k1}
  Expiring = {k2}
  Addresses = {2, 3}
  MaxFaults = 1
  MaxLeaks = 1
  Host <- ThreeHosts
  UserOf <- Users
  CidrsOf <- Country
  NoDocument = NoDocument
  MaxRequests = 2
  MaxFetches = 1
  MaxMishaps = 1
  MaxRows = 2
  Documents <- TwoDocuments
  RouteChoices <- OneRoute
  AliasChoices = {"al"}
  SplitChoices <- OneRule
  Orders = {3}
  RelayHosts = {2}
  Targets = {"t1"}
  FirstTables <- OneTable
  c1 = c1
  Peer = {c1}
  CrlTtl = 2
  CertLife = 3
  CertSpare = 1
  MaxTime = 4
  MaxStarts = 2
SYMMETRY Alike
INVARIANTS AdminTypeOK OneTimeKeyAdmitsOne RevokedKeyAdmitsNobody NodesWhole
INVARIANTS PolicyExact ControllerSound
\* Every request has been answered.
CHECK_DEADLOCK FALSE
