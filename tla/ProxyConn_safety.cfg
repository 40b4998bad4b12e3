\* Three connection slots against MaxOpen = 3: two handlers are admitted at
\* once and the third is turned away; reloads race with every phase.  Start
\* serves ACME challenges on HTTPAddr and may fail or be retried.
CONSTANTS
  Conns = {c1, c2, c3}
  s1 = s1
  s2 = s2
  a1 = a1
  a2 = a2
  b1 = b1
  b2 = b2
  b3 = b3
  NoBackend = NoBackend
  SNIs = {s1, s2}
  Addrs = {a1, a2}
  Backends = {b1, b2, b3}
  Reachable <- MCReachable
  Configs <- MCConfigs
  BackendAddrs <- MCBackendAddrs
  ClientAuth <- MCClientAuth
  UseTLS <- MCUseTLS
  MaxOpen = 3
  Cancellers = {"Stop", "ctx"}
  HTTPAddr = TRUE
  PeersGoQuiet = TRUE
SPECIFICATION Spec
SYMMETRY MCSymmetry
INVARIANTS
  TypeOK
  NumOpenAccurate
  HalfCloseKeepsOtherDirection
PROPERTY
  ImplementsConnPlane
