\* Check finishes after one step: a terminal state is its return.  Inputs:
\* 1-2 backends varying names, IDNA collisions and ALPN lists, and single
\* backends varying every per-backend field.
CONSTANTS
  r1 = r1
  r2 = r2
  r3 = r3
  x1 = x1
  x2 = x2
  g1 = g1
  p1 = p1
  p2 = p2
  k1 = k1
  k2 = k2
  k3 = k3
  BadURL = BadURL
  Nil = Nil
  RawNames = {r1, r2, r3}
  IdnaToASCII <- MCIdna
  Protos = {"h2", "http/1.1", "h3"}
  GroupNames = {g1}
  QuicIsEnabled = TRUE
  HostSuffix <- MCHostSuffix
  Loadable <- MCLoadable
  Inputs <- CheckedInputs
SPECIFICATION Spec
CHECK_DEADLOCK FALSE
INVARIANTS
  TypeOK
  AcceptedRoutingUnique
  AcceptedBackendsWellFormed
  AcceptedNamesUnique
  AcceptedReferencesResolve
