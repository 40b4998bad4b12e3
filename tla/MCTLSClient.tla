---------------------------- MODULE MCTLSClient ----------------------------
EXTENDS TLSClient, TLC

\* -v; -key without -cert; a plain TCP client; a TCP client with a
\* certificate, -ocsp and an ECH config; a QUIC client with -ocsp; a TCP
\* client whose -ech is not base64.
MCFlags ==
  LET F(v, n, k, c, q, o, e) ==
        [version |-> v, nargs |-> n, key |-> k, cert |-> c, quic |-> q,
         ocsp |-> o, ech |-> e]
  IN { F(TRUE, 0, FALSE, FALSE, FALSE, FALSE, "none"),
       F(FALSE, 1, TRUE, FALSE, FALSE, FALSE, "none"),
       F(FALSE, 1, FALSE, FALSE, FALSE, FALSE, "none"),
       F(FALSE, 1, TRUE, TRUE, FALSE, TRUE, "valid"),
       F(FALSE, 1, FALSE, FALSE, TRUE, TRUE, "none"),
       F(FALSE, 1, FALSE, FALSE, FALSE, FALSE, "bad") }

\* Good; none stapled; unparsable; expired; revoked; Good without
\* NextUpdate.
MCStaples ==
  LET S(p, ok, n, s) == [present |-> p, parses |-> ok, nextUpdate |-> n, status |-> s]
  IN { S(TRUE, TRUE, "future", "good"), S(FALSE, FALSE, "future", "good"),
       S(TRUE, FALSE, "future", "good"), S(TRUE, TRUE, "past", "good"),
       S(TRUE, TRUE, "future", "revoked"), S(TRUE, TRUE, "absent", "good") }

=============================================================================
