---------------------------- MODULE MCProxyConn ----------------------------
(* Instance of ProxyConn for TLC.  Two routing tables are published in    *)
(* turn.  The first routes s1 to b1 (two addresses, only a2 answers) and  *)
(* s2 to b3, whose only address is down.  The second routes s1 to b2,     *)
(* which requires a client certificate and dials over TLS, and drops s2.  *)
EXTENDS ProxyConn, TLC

CONSTANTS s1, s2, a1, a2, b1, b2, b3

MCConfigs == << (s1 :> b1) @@ (s2 :> b3),
                (s1 :> b2) @@ (s2 :> NoBackend) >>

MCBackendAddrs == (b1 :> <<a1, a2>>) @@ (b2 :> <<a2>>) @@ (b3 :> <<a1>>)

MCClientAuth == (b1 :> FALSE) @@ (b2 :> TRUE) @@ (b3 :> FALSE)

MCUseTLS == (b1 :> FALSE) @@ (b2 :> TRUE) @@ (b3 :> FALSE)

MCReachable == {a2}

\* Slots are interchangeable: no definition tells one from another.
MCSymmetry == Permutations(Conns)

=============================================================================
