SPECIFICATION Spec
CONSTANTS
  Contracts = {c1}
  Processes = {p1, p2}
  Requests = {r1, r2}
  Contents <- SomeContents
  MaxVersions <- FewVersions
  CacheAge = 2
  Latency = 1
  Null = Null
PROPERTY ContractKeepsItsVersion
