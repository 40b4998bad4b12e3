\* UpdateECH returns: the state it ends in has no successor.
CONSTANTS
  z1 = z1
  z2 = z2
  n1 = n1
  n2 = n2
  n3 = n3
  q1 = q1
  q2 = q2
  q3 = q3
  NoName = NoName
  Zones = {z1, z2}
  Names = {n1, n2, n3}
  RecIds = {q1, q2, q3}
  RecZone <- MCRecZone
  RecName <- MCRecNameDup
  RecOrder <- MCRecOrder
  Targets <- MCTargets
  PerPage = 1
SPECIFICATION Spec
CHECK_DEADLOCK FALSE
INVARIANT NoSilentMiss
