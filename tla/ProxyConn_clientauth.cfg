\* One connection while the operator reloads the routing table that gives
\* s1 to a backend requiring client certificates.
CONSTANTS
  Conns = {c1}
  s1 = s1
  s2 = s2
  a1 = a1
  a2 = a2
  b1 = b1
  b2 = b2
  b3 = b3
  NoBackend = NoBackend
  SNIs = {s1, s2}
  Addrs = {a1, a2}
  Backends = {b1, b2, b3}
  Reachable <- MCReachable
  Configs <- MCConfigs
  BackendAddrs <- MCBackendAddrs
  ClientAuth <- MCClientAuth
  UseTLS <- MCUseTLS
  MaxOpen = 2
  Cancellers = {"ctx"}
  HTTPAddr = FALSE
  PeersGoQuiet = TRUE
SPECIFICATION Spec
INVARIANT ClientAuthEnforced
