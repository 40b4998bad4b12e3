\* One slot; the context given to Start is cancelled while a connection is
\* being forwarded, and its peers may keep sending: p.ctx reaches only the
\* handshake, so the forwarding handler outlives the cancellation.
CONSTANTS
  Conns = {c1}
  s1 = s1
  s2 = s2
  a1 = a1
  a2 = a2
  b1 = b1
  b2 = b2
  b3 = b3
  NoBackend = NoBackend
  SNIs = {s1, s2}
  Addrs = {a1, a2}
  Backends = {b1, b2, b3}
  Reachable <- MCReachable
  Configs <- MCConfigs
  BackendAddrs <- MCBackendAddrs
  ClientAuth <- MCClientAuth
  UseTLS <- MCUseTLS
  MaxOpen = 2
  Cancellers = {"ctx"}
  HTTPAddr = FALSE
  PeersGoQuiet = FALSE
SPECIFICATION Spec
PROPERTY Drain
