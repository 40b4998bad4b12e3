--------------------------- MODULE MCConfigCheck ---------------------------
(* Instances of ConfigCheck for TLC.  r1 and r2 are two spellings of one   *)
(* server name (IDNA maps both to x1); r3 is another name.  Each family of *)
(* inputs varies the fields one question needs and keeps the others at a  *)
(* valid value.  p1, p2 are identity provider names; k1, k2, k3 are CA   *)
(* names, of which only k2 loads from a file.  x2 ends with x1 (a         *)
(* subdomain); the Unicode spelling r1 ends with no ASCII domain.          *)
EXTENDS ConfigCheck, TLC

CONSTANTS r1, r2, r3, x1, x2, g1, p1, p2, k1, k2, k3

MCHostSuffix == {<<x2, x1>>}
MCLoadable == {k2}

MCIdna == (r1 :> x1) @@ (r2 :> x1) @@ (r3 :> x2)

Mode(w, low) == [word |-> w, lower |-> low]
PPV(l, r, n) == [lead |-> l, rest |-> r, n |-> n]

MkBackend(names, alpn, mode, ca, bp, addrs, bw, ppv) ==
  [names |-> names, alpn |-> alpn, mode |-> mode, clientAuth |-> ca,
   backendProto |-> bp, addresses |-> addrs, bwLimit |-> bw, ppv |-> ppv,
   serverClose |-> Nil, clientClose |-> Nil, rateLimit |-> 0, ppVersion |-> 0,
   rootCAs |-> <<>>, xfccOK |-> TRUE, sso |-> Nil, fwdRootCAs |-> <<>>,
   cidrsOK |-> TRUE, overrides |-> <<>>]

MkConfig(quic, groups, bes) ==
  [enableQUIC |-> quic, bwLimits |-> groups, backends |-> bes,
   oidc |-> <<>>, saml |-> <<>>, passkey |-> <<>>, pki |-> <<>>]

Prov(n, ok, idp, dom, host) == [name |-> n, fieldsOK |-> ok, idp |-> idp, domain |-> dom, host |-> host]
PKI(n, e) == [name |-> n, endpoint |-> e]
PO(paths, m, roots, ppv) == [paths |-> paths, mode |-> m, roots |-> roots, ppv |-> ppv, ppVersion |-> 0]

\* Routing: one or two backends varying server names, ALPN list and mode.
RoutingBackends ==
  { MkBackend(n, a, m, FALSE, FALSE, 1, "", PPV("none", "empty", 0)) :
      n \in {<<r1>>, <<r2>>, <<r3>>, <<r1, r3>>, <<r2, r1>>},
      a \in {Nil, <<>>, <<"h2">>, <<"http/1.1">>},
      m \in {Mode("", FALSE), Mode("HTTP", TRUE)} }

RoutingInputs ==
  { MkConfig(q, <<>>, bes) :
      q \in {Nil, FALSE},
      bes \in [1..1 -> RoutingBackends] \cup [1..2 -> RoutingBackends] }

\* Backend invariants: one backend varying mode, client auth, BackendProto,
\* addresses, server names and its BWLimit against the groups defined.
ShapeInputs ==
  { MkConfig(FALSE, g, <<MkBackend(n, Nil, m, ca, bp, ad, bw, p)>>) :
      g \in {<<>>, <<g1>>, <<g1, g1>>},
      n \in {<<>>, <<r1>>},
      m \in {Mode(w, FALSE) : w \in ModeWords \cup {"", "PLAINTEXT", "BOGUS"}}
              \cup {Mode("TLSPASSTHROUGH", TRUE), Mode("LOCAL", TRUE)},
      ca \in BOOLEAN, bp \in BOOLEAN, ad \in 0..1, bw \in {"", g1},
      p \in {PPV("none", "empty", 0), PPV("v", "int", 1), PPV("v", "int", -1)} }

\* Identity providers: an OIDC provider varying its fields and Domain, a
\* SAML provider that may reuse its name, a passkey provider naming nobody,
\* an earlier provider or itself, and an HTTP backend whose SSO may name
\* either provider.
IdpInputs ==
  { [MkConfig(FALSE, <<>>, <<[MkBackend(<<r1>>, Nil, Mode("HTTP", FALSE), FALSE, FALSE, 0, "",
                                        PPV("none", "empty", 0)) EXCEPT !.sso = sso]>>)
       EXCEPT !.oidc = o, !.saml = sa, !.passkey = pk] :
      o  \in {<<>>, <<Prov(p1, FALSE, "", Nil, x1)>>}
              \cup {<<Prov(p1, TRUE, "", dh[1], dh[2])>> :
                     dh \in {<<Nil, x1>>, <<r1, x2>>, <<r1, r1>>, <<r1, BadURL>>, <<r3, x1>>}},
      sa \in {<<>>, <<Prov(p1, TRUE, "", Nil, x1)>>, <<Prov(p2, TRUE, "", Nil, x1)>>},
      pk \in {<<>>} \cup {<<Prov(n, TRUE, idp, Nil, x1)>> : n \in {p1, p2}, idp \in {"", p1, p2}},
      sso \in {Nil, [provider |-> p1, localOK |-> TRUE], [provider |-> p2, localOK |-> TRUE],
               [provider |-> p1, localOK |-> FALSE]} }

\* PKI and CA lists: two backends serving x1 (r1 and r2) with distinct ALPN
\* protocols in LOCAL or HTTP mode, a PKI whose endpoint host is absent,
\* the shared name x1, its Unicode spelling r1, another name or no URL,
\* and CA names that are the PKI's, loadable, or neither.
PKIInputs ==
  { [MkConfig(FALSE, <<>>,
       << [MkBackend(<<r1>>, <<"h2">>, Mode(m1, FALSE), ca, FALSE, 0, "", PPV("none", "empty", 0))
             EXCEPT !.rootCAs = roots, !.fwdRootCAs = fwd, !.xfccOK = xf],
          [MkBackend(<<r2>>, <<"http/1.1">>, Mode(m2, FALSE), FALSE, FALSE, 0, "",
                     PPV("none", "empty", 0)) EXCEPT !.cidrsOK = ci] >>)
       EXCEPT !.pki = pk] :
      m1 \in {"LOCAL", "HTTP"}, m2 \in {"LOCAL", "HTTP"},
      pk \in {<<>>, <<PKI(k1, Nil), PKI(k1, Nil)>>}
              \cup {<<PKI(k1, e)>> : e \in {Nil, x1, r1, x2, BadURL}},
      ca \in BOOLEAN, roots \in {<<>>, <<k1>>, <<k2>>, <<k3>>}, xf \in BOOLEAN,
      fwd \in {<<>>, <<k1>>, <<k3>>}, ci \in BOOLEAN }

\* Path overrides on an HTTP or a TCP backend: paths empty, rooted or not,
\* mode defaulted, spelled in lower case or wrong, CA names, versions.
OverrideInputs ==
  { [MkConfig(FALSE, <<>>, <<[MkBackend(<<r1>>, Nil, Mode(m, FALSE), FALSE, FALSE, 1, "",
                                        PPV("none", "empty", 0)) EXCEPT !.overrides = ov]>>)
       EXCEPT !.pki = pk] :
      m \in {"HTTP", "TCP"}, pk \in {<<>>, <<PKI(k3, Nil)>>},
      ov \in {<<>>} \cup {<<PO(ps, om, rs, v)>> :
                            ps \in {<<>>, <<TRUE>>, <<TRUE, FALSE>>},
                            om \in {Mode("", FALSE), Mode("HTTPS", TRUE), Mode("TCP", FALSE)},
                            rs \in {<<>>, <<k2>>, <<k3>>},
                            v  \in {PPV("none", "empty", 0), PPV("v", "int", 2), PPV("v", "nan", 0)}} }

\* The accepted-configuration run: every family of inputs.
CheckedInputs == RoutingInputs \cup ShapeInputs \cup IdpInputs \cup PKIInputs \cup OverrideInputs

\* PROXY protocol: "", "v1", "v2", "v0", "v3", "v-1", "v200", "v", "vx", "1".
PPVInputs ==
  { MkConfig(FALSE, <<>>, <<MkBackend(<<r1>>, Nil, Mode("TCP", FALSE), FALSE, FALSE, 1, "", p)>>) :
      p \in {PPV("none", "empty", 0), PPV("v", "int", 1), PPV("v", "int", 2),
             PPV("v", "int", 0), PPV("v", "int", 3), PPV("v", "int", -1),
             PPV("v", "int", 200), PPV("v", "empty", 0), PPV("v", "nan", 0),
             PPV("other", "empty", 0)} }

=============================================================================
