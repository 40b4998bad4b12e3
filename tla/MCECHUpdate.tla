---------------------------- MODULE MCECHUpdate ----------------------------
EXTENDS ECHUpdate, TLC

CONSTANTS z1, z2, n1, n2, n3, q1, q2, q3

\* Zone z1 holds n1 and n2, zone z2 holds n1: two pages of z1 at one record
\* per page, so a deletion can shift a record across the page boundary.
MCRecZone == (q1 :> z1) @@ (q2 :> z1) @@ (q3 :> z2)
MCRecName == (q1 :> n1) @@ (q2 :> n2) @@ (q3 :> n1)

\* A second HTTPS record under n1 in z1 instead of the n2 one.
MCRecNameDup == (q1 :> n1) @@ (q2 :> n1) @@ (q3 :> n1)

MCRecOrder == <<q1, q2, q3>>

\* z1 twice, so the second z1 target takes the zones-map shortcut; n2 and
\* n3 missing in z2 and z1 resp.; the second target has more names than
\* the third.
MCTargets == << [zone |-> z1, names |-> <<n1, n2>>],
                [zone |-> z2, names |-> <<n1, n2>>],
                [zone |-> z1, names |-> <<n3>>] >>

\* One target for the whole of z1, for the violation runs.
MCTargetsOne == << [zone |-> z1, names |-> <<n1, n2>>],
                   [zone |-> z1, names |-> <<n1, n2>>] >>

=============================================================================
