\* One slot; the proxy is stopped by Proxy.Stop.  The shutdown goroutine
\* calls the p.cancel that Stop has already cleared (a panic), or, reading
\* it first, closes the listener; then the accept goroutine retries Accept
\* on the closed listener for ever.
CONSTANTS
  Conns = {c1}
  s1 = s1
  s2 = s2
  a1 = a1
  a2 = a2
  b1 = b1
  b2 = b2
  b3 = b3
  NoBackend = NoBackend
  SNIs = {s1, s2}
  Addrs = {a1, a2}
  Backends = {b1, b2, b3}
  Reachable <- MCReachable
  Configs <- MCConfigs
  BackendAddrs <- MCBackendAddrs
  ClientAuth <- MCClientAuth
  UseTLS <- MCUseTLS
  MaxOpen = 2
  Cancellers = {"Stop"}
  HTTPAddr = FALSE
  PeersGoQuiet = TRUE
SPECIFICATION Spec
PROPERTY StopEndsBackground
