\* Three slots against MaxOpen = 2: one handler is served at a time while the
\* other slots are turned away, so each dial runs alone; the round-robin
\* cursor of each backend persists across connections and reloads.  The
\* proxy may be stopped at any point.
CONSTANTS
  Conns = {c1, c2, c3}
  s1 = s1
  s2 = s2
  a1 = a1
  a2 = a2
  b1 = b1
  b2 = b2
  b3 = b3
  NoBackend = NoBackend
  SNIs = {s1, s2}
  Addrs = {a1, a2}
  Backends = {b1, b2, b3}
  Reachable <- MCReachable
  Configs <- MCConfigs
  BackendAddrs <- MCBackendAddrs
  ClientAuth <- MCClientAuth
  UseTLS <- MCUseTLS
  MaxOpen = 2
  Cancellers = {"ctx"}
  HTTPAddr = FALSE
  PeersGoQuiet = TRUE
SPECIFICATION Spec
INVARIANT DialFailsOnlyIfAllUnreachable
PROPERTIES
  ConnectionsEventuallyEnd
