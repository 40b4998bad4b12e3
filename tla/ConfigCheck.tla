---------------------------- MODULE ConfigCheck ----------------------------
(***************************************************************************)
(* Config.Check of the proxy package (src/unnamed/part_000): the part that *)
(* normalises the backends and builds the routing key space.  Check runs   *)
(* once, synchronously, on a freshly decoded Config; ReadConfig discards   *)
(* the Config when Check returns an error.  The state is that Config and   *)
(* the outcome; Check is a single step computed by folds that follow the   *)
(* loops of the code in order, so the first error wins as it does there.  *)
(*                                                                         *)
(* Abstracted: a URL is its host (or BadURL when hostAndPath fails); the   *)
(* field checks of a provider, of a LocalOIDCServer, of the XFCC fields    *)
(* and of the CIDR lists are one Boolean each; loadCerts succeeds exactly  *)
(* on the Loadable names; timeouts are not modelled; CacheDir and MaxOpen  *)
(* are I/O defaults.                                                       *)
(***************************************************************************)
EXTENDS Integers, Sequences, SequencesExt, FiniteSets

CONSTANTS
  RawNames,       \* server names as written in the YAML
  IdnaToASCII,    \* idnaToASCII, as a function on RawNames
  Protos,         \* ALPN protocol identifiers
  GroupNames,     \* BWLimit group names
  QuicIsEnabled,  \* quicIsEnabled: the binary was built with QUIC
  Nil,            \* an absent pointer field
  BadURL,         \* a URL hostAndPath cannot split
  HostSuffix,     \* pairs <<host, domain>> with strings.HasSuffix(host, domain)
  Loadable,       \* RootCAs / ForwardRootCAs entries loadCerts accepts
  Inputs          \* the decoded Configs Check may be given

ModeWords == {"TCP", "TLS", "TLSPASSTHROUGH", "QUIC", "HTTP", "HTTPS", "LOCAL", "CONSOLE"}

\* A Mode as written: `word` is its upper-case spelling, `lower` says the
\* YAML spelled it in lower case.  strings.ToUpper maps both to `word`.
RawModes == [word : ModeWords \cup {"", "PLAINTEXT", "BOGUS"}, lower : BOOLEAN]
ToUpper(m) == m.word

\* A ProxyProtocolVersion string: `lead` is its first character ("none" for
\* the empty string); `rest` is the text after it: "empty", an integer `n`
\* written in decimal ("int"), or no integer at all ("nan").
PPVStrings == [lead : {"none", "v", "other"}, rest : {"empty", "int", "nan"}, n : Int]

DefaultALPN       == <<"h2", "http/1.1">>
DefaultALPNPlusH3 == <<"h3", "h2", "http/1.1">>

\* Mutant: the parsed int8 is returned without the conversion to byte.
ValidateProxyProtoVersionNoWrap(s) ==
  CASE s.lead = "none"                          -> [ok |-> TRUE, v |-> 0]
    [] s.lead # "v" \/ s.rest = "empty"         -> [ok |-> FALSE, v |-> 0]
    [] s.rest = "nan" \/ s.n \notin -128..127    -> [ok |-> FALSE, v |-> 0]
    [] OTHER                                    -> [ok |-> TRUE, v |-> s.n]

\* validateProxyProtoVersion: strconv.ParseInt(s[1:], 10, 8) then byte(v).
ValidateProxyProtoVersion(s) ==
  CASE s.lead = "none"                          -> [ok |-> TRUE, v |-> 0]
    [] s.lead # "v" \/ s.rest = "empty"         -> [ok |-> FALSE, v |-> 0]
    [] s.rest = "nan" \/ s.n \notin -128..127    -> [ok |-> FALSE, v |-> 0]
    [] OTHER                                    -> [ok |-> TRUE, v |-> s.n % 256]

VARIABLES
  cfg,     \* the Config, as Check leaves it
  result,  \* "unchecked", then "ok" or "error"
  errAt    \* the error Check returns: <<section, index, field>>

vars == <<cfg, result, errAt>>

NoErr == <<>>
FailAt(st, sect, i, field) == [st EXCEPT !.err = <<sect, i, field>>]
Fail(st, i, field) == FailAt(st, "backend", i, field)

HasSuffix(host, domain) == host = domain \/ <<host, domain>> \in HostSuffix

-----------------------------------------------------------------------------
\* Mutant: the provider's name is checked but not recorded.
AddProviderNoRecord(st, kind, k) ==
  LET p == st.cfg[kind][k]
      d == IF p.domain = Nil THEN Nil ELSE IdnaToASCII[p.domain]
  IN
  IF st.err # NoErr THEN st
  ELSE CASE p.name \in st.idps -> FailAt(st, kind, k, "Name")
         [] ~p.fieldsOK -> FailAt(st, kind, k, "Fields")
         [] kind = "passkey" /\ p.idp \notin st.idps -> FailAt(st, kind, k, "IdentityProvider")
         [] d # Nil /\ p.host = BadURL -> FailAt(st, kind, k, "Host")
         [] d # Nil /\ ~HasSuffix(p.host, d) -> FailAt(st, kind, k, "Domain")
         [] OTHER -> [st EXCEPT !.cfg[kind][k].domain = d]

(* The oidc, saml and passkey loops share the identityProviders map: a     *)
(* name is rejected if any earlier provider of any kind has it, and is     *)
(* recorded before the provider's own checks, so a passkey provider's      *)
(* IdentityProvider may name an OIDC or SAML provider, an earlier passkey  *)
(* provider, or itself.  fieldsOK stands for the required-field and        *)
(* url.Parse checks of the kind; a Domain is converted to ASCII and must   *)
(* be a suffix of the host of RedirectURL, ACSURL or Endpoint.             *)
AddProvider(st, kind, k) ==
  LET p == st.cfg[kind][k]
      s == [st EXCEPT !.idps = @ \cup {p.name}]
      d == IF p.domain = Nil THEN Nil ELSE IdnaToASCII[p.domain]
  IN
  IF st.err # NoErr THEN st
  ELSE CASE p.name \in st.idps -> FailAt(st, kind, k, "Name")
         [] ~p.fieldsOK -> FailAt(s, kind, k, "Fields")
         [] kind = "passkey" /\ p.idp \notin s.idps -> FailAt(s, kind, k, "IdentityProvider")
         [] d # Nil /\ p.host = BadURL -> FailAt(s, kind, k, "Host")
         [] d # Nil /\ ~HasSuffix(p.host, d) -> FailAt(s, kind, k, "Domain")
         [] OTHER -> [s EXCEPT !.cfg[kind][k].domain = d]

AddProviders(st, kind) ==
  FoldLeftDomain(LAMBDA acc, k : AddProvider(acc, kind, k), st, st.cfg[kind])

-----------------------------------------------------------------------------
(* First loop over the backends: mode normalisation, the TLS-passthrough / *)
(* client-auth conflict, the ALPN default, BackendProto, QUIC close flags. *)
NormalizeBackend(st, i) ==
  LET b    == st.cfg.backends[i]
      up   == ToUpper(b.mode)
      mode == IF up \in {"", "PLAINTEXT"} THEN "TCP" ELSE up
      alpn == IF b.alpn # Nil THEN b.alpn
              ELSE IF st.cfg.enableQUIC
                      /\ mode \in {"HTTP", "HTTPS", "QUIC", "LOCAL", "CONSOLE"}
                   THEN DefaultALPNPlusH3 ELSE DefaultALPN
      nb   == [b EXCEPT !.mode = mode, !.alpn = alpn,
                        !.serverClose = IF mode = "QUIC" /\ @ = Nil THEN FALSE ELSE @,
                        !.clientClose = IF mode = "QUIC" /\ @ = Nil THEN FALSE ELSE @]
  IN
  IF st.err # NoErr THEN st
  ELSE CASE mode \notin ModeWords                  -> Fail(st, i, "Mode")
         [] mode = "TLSPASSTHROUGH" /\ b.clientAuth -> Fail(st, i, "ClientAuth")
         [] b.backendProto /\ mode \notin {"HTTP", "HTTPS"} -> Fail(st, i, "BackendProto")
         [] OTHER -> [st EXCEPT !.cfg.backends[i] = nb]

(* Second loop: convert each server name to ASCII, remember the first      *)
(* backend of each name in serverNames, reject a name already seen when    *)
(* the current backend has no ALPN protocols, and reject a repeated        *)
(* (serverName, proto) key.                                                *)
\* Mutant: the key is checked but never recorded in beKeys.
AddKeyNoRecord(st, i, sn, proto) ==
  IF st.err # NoErr THEN st
  ELSE IF <<sn, proto>> \in st.beKeys THEN Fail(st, i, "ServerNames")
  ELSE st

AddKey(st, i, sn, proto) ==
  IF st.err # NoErr THEN st
  ELSE IF <<sn, proto>> \in st.beKeys THEN Fail(st, i, "ServerNames")
  ELSE [st EXCEPT !.beKeys = @ \cup {<<sn, proto>>}]

AddServerName(st, i, j) ==
  LET sn   == IdnaToASCII[st.cfg.backends[i].names[j]]
      alpn == st.cfg.backends[i].alpn
      named == [st EXCEPT !.cfg.backends[i].names[j] = sn]
      seen  == IF sn \notin DOMAIN named.serverNames
               THEN [named EXCEPT !.serverNames = @ @@ (sn :> i)]
               ELSE IF alpn = <<>> THEN Fail(named, i, "ServerNames")
               ELSE named
  IN
  IF st.err # NoErr THEN st
  ELSE FoldLeft(LAMBDA acc, p : AddKey(acc, i, sn, p), seen, alpn)

AddServerNames(st, i) ==
  FoldLeftDomain(LAMBDA acc, j : AddServerName(acc, i, j), st, st.cfg.backends[i].names)

\* Mutant: the mode of the endpoint's backend is not checked.
AddPKINoModeCheck(st, k) ==
  LET p == st.cfg.pki[k] IN
  IF st.err # NoErr THEN st
  ELSE CASE p.name \in st.pkis -> FailAt(st, "pki", k, "Name")
         [] p.endpoint = BadURL -> FailAt(st, "pki", k, "Endpoint")
         [] p.endpoint # Nil /\ p.endpoint \notin DOMAIN st.serverNames
              -> FailAt(st, "pki", k, "Endpoint")
         [] OTHER -> [st EXCEPT !.pkis = @ \cup {p.name}]

(* The pki loop: CA names are unique, and an Endpoint's host must be a     *)
(* server name whose first backend (serverNames keeps the first one) is    *)
(* in mode LOCAL or CONSOLE.  The host is compared as written.             *)
AddPKI(st, k) ==
  LET p == st.cfg.pki[k] IN
  IF st.err # NoErr THEN st
  ELSE CASE p.name \in st.pkis -> FailAt(st, "pki", k, "Name")
         [] p.endpoint = BadURL -> FailAt(st, "pki", k, "Endpoint")
         [] p.endpoint # Nil /\ p.endpoint \notin DOMAIN st.serverNames
              -> FailAt(st, "pki", k, "Endpoint")
         [] p.endpoint # Nil
              /\ st.cfg.backends[st.serverNames[p.endpoint]].mode \notin {"LOCAL", "CONSOLE"}
              -> FailAt(st, "pki", k, "Endpoint")
         [] OTHER -> [st EXCEPT !.pkis = @ \cup {p.name}]

(* The bwLimits loop: group names are unique.                              *)
AddGroup(st, k) ==
  IF st.err # NoErr THEN st
  ELSE IF st.cfg.bwLimits[k] \in st.groups THEN [st EXCEPT !.err = <<"bwLimit", k, "Name">>]
  ELSE [st EXCEPT !.groups = @ \cup {st.cfg.bwLimits[k]}]

(* A list of CA names (ClientAuth.RootCAs, ForwardRootCAs): a PKI name is  *)
(* skipped, any other must load (loadCerts); the first failure is the error. *)
CheckCAs(st, i, field, cas) ==
  FoldLeft(LAMBDA acc, n : IF acc.err # NoErr \/ n \in acc.pkis \/ n \in Loadable
                           THEN acc ELSE Fail(acc, i, field),
           st, cas)

CheckClientAuth(st, i) ==
  LET b == st.cfg.backends[i]
      s == CheckCAs(st, i, "ClientAuth.RootCAs", b.rootCAs)
  IN
  IF st.err # NoErr \/ ~b.clientAuth THEN st
  ELSE IF s.err = NoErr /\ ~b.xfccOK THEN Fail(s, i, "ClientAuth.AddClientCertHeader")
  ELSE s

\* The SSO provider must be an identity provider; localOK stands for the
\* checks of the LocalOIDCServer clients and rewrite rules.
CheckSSO(st, i) ==
  LET b == st.cfg.backends[i] IN
  IF st.err # NoErr \/ b.sso = Nil THEN st
  ELSE CASE b.sso.provider \notin st.idps -> Fail(st, i, "SSO.Provider")
         [] ~b.sso.localOK -> Fail(st, i, "SSO.LocalOIDCServer")
         [] OTHER -> st

(* One path override: non-empty Paths all starting with "/" (a path is    *)
(* TRUE when it does), Mode defaulting to the backend's and upper-cased,   *)
(* HTTP or HTTPS only, its ForwardRootCAs, its PROXY protocol version.     *)
CheckPathOverride(st, i, j) ==
  LET b    == st.cfg.backends[i]
      po   == b.overrides[j]
      mode == IF po.mode.word = "" THEN b.mode ELSE ToUpper(po.mode)
      ver  == ValidateProxyProtoVersion(po.ppv)
      s    == CheckCAs(st, i, "PathOverrides.ForwardRootCAs", po.roots)
  IN
  IF st.err # NoErr THEN st
  ELSE CASE po.paths = <<>> -> Fail(st, i, "PathOverrides.Paths")
         [] \E k \in DOMAIN po.paths : ~po.paths[k] -> Fail(st, i, "PathOverrides.Paths")
         [] mode \notin {"HTTP", "HTTPS"} -> Fail(st, i, "PathOverrides.Mode")
         [] s.err # NoErr -> s
         [] ~ver.ok -> Fail(st, i, "PathOverrides.ProxyProtocolVersion")
         [] OTHER -> [st EXCEPT !.cfg.backends[i].overrides[j].mode = mode,
                                !.cfg.backends[i].overrides[j].ppVersion = ver.v]

CheckPathOverrides(st, i) ==
  LET b == st.cfg.backends[i] IN
  IF st.err # NoErr THEN st
  ELSE IF b.overrides # <<>> /\ b.mode \notin {"HTTP", "HTTPS"} THEN Fail(st, i, "PathOverrides")
  ELSE FoldLeftDomain(LAMBDA acc, j : CheckPathOverride(acc, i, j), st, b.overrides)

(* The last loop after its first checks: client auth, SSO, ForwardRootCAs, *)
(* the CIDR lists (cidrsOK: every AllowIPs and DenyIPs entry parses), the  *)
(* ForwardRateLimit default, the PROXY protocol version, path overrides.   *)
FinishBackendRest(st, i) ==
  LET b   == st.cfg.backends[i]
      ver == ValidateProxyProtoVersion(b.ppv)
      s1  == CheckSSO(CheckClientAuth(st, i), i)
      s2  == CheckCAs(s1, i, "ForwardRootCAs", b.fwdRootCAs)
      s3  == IF s2.err = NoErr /\ ~b.cidrsOK THEN Fail(s2, i, "IPs") ELSE s2
      s4  == IF s3.err # NoErr THEN s3
             ELSE IF ~ver.ok THEN Fail(s3, i, "ProxyProtocolVersion")
             ELSE [s3 EXCEPT !.cfg.backends[i].rateLimit = IF @ = 0 THEN 5 ELSE @,
                             !.cfg.backends[i].ppVersion = ver.v]
  IN CheckPathOverrides(s4, i)

(* Mutant: LOCAL and CONSOLE backends are not checked for addresses.      *)
FinishBackendNoLocalCheck(st, i) ==
  LET b == st.cfg.backends[i] IN
  IF st.err # NoErr THEN st
  ELSE CASE b.names = <<>> -> Fail(st, i, "ServerNames")
         [] b.addresses = 0 /\ b.mode \notin {"CONSOLE", "HTTP", "HTTPS", "LOCAL"}
              -> Fail(st, i, "Addresses")
         [] b.bwLimit # "" /\ b.bwLimit \notin st.groups -> Fail(st, i, "BWLimit")
         [] OTHER -> FinishBackendRest(st, i)

(* Last loop over the backends: server names, addresses, the BWLimit       *)
(* reference, then the rest above.                                         *)
FinishBackend(st, i) ==
  LET b == st.cfg.backends[i] IN
  IF st.err # NoErr THEN st
  ELSE CASE b.names = <<>> -> Fail(st, i, "ServerNames")
         [] b.addresses = 0 /\ b.mode \notin {"CONSOLE", "HTTP", "HTTPS", "LOCAL"}
              -> Fail(st, i, "Addresses")
         [] b.addresses > 0 /\ b.mode \in {"CONSOLE", "LOCAL"} -> Fail(st, i, "Addresses")
         [] b.bwLimit # "" /\ b.bwLimit \notin st.groups -> Fail(st, i, "BWLimit")
         [] OTHER -> FinishBackendRest(st, i)

(* Config.Check, from the EnableQUIC default to the end of the last loop.  *)
CheckConfig(c) ==
  LET quic == IF c.enableQUIC = Nil THEN QuicIsEnabled ELSE c.enableQUIC
      st0  == [cfg |-> [c EXCEPT !.enableQUIC = quic], err |-> NoErr, idps |-> {},
               serverNames |-> <<>>, beKeys |-> {}, pkis |-> {}, groups |-> {}]
      st1  == IF quic /\ ~QuicIsEnabled THEN [st0 EXCEPT !.err = <<"config", 0, "EnableQUIC">>]
              ELSE st0
      stp  == AddProviders(AddProviders(AddProviders(st1, "oidc"), "saml"), "passkey")
      st2  == FoldLeftDomain(NormalizeBackend, stp, c.backends)
      st3  == FoldLeftDomain(AddServerNames, st2, c.backends)
      stk  == FoldLeftDomain(AddPKI, st3, c.pki)
      st4  == FoldLeftDomain(AddGroup, stk, c.bwLimits)
  IN FoldLeftDomain(FinishBackend, st4, c.backends)

-----------------------------------------------------------------------------
Init ==
  /\ cfg \in Inputs
  /\ result = "unchecked"
  /\ errAt = NoErr

Check ==
  LET st == CheckConfig(cfg) IN
  /\ result = "unchecked"
  /\ cfg' = st.cfg
  /\ result' = IF st.err = NoErr THEN "ok" ELSE "error"
  /\ errAt' = st.err

Spec == Init /\ [][Check]_vars

-----------------------------------------------------------------------------
(* Properties of the Config that Check accepts *)

Backend(i) == cfg.backends[i]
Idx == DOMAIN cfg.backends

TypeOK ==
  /\ result \in {"unchecked", "ok", "error"}
  /\ errAt = NoErr \/ errAt \in {"config", "oidc", "saml", "passkey", "pki", "backend", "bwLimit"}
                                   \X Nat \X STRING
  /\ (result = "error") = (errAt # NoErr)
  /\ result = "ok" =>
       /\ cfg.enableQUIC \in BOOLEAN
       /\ \A i \in Idx : /\ Backend(i).mode \in ModeWords
                         /\ Backend(i).alpn \in Seq(Protos)
                         /\ Backend(i).ppVersion \in 0..255

\* Spec P1: no two accepted backends offer the same (server name, ALPN)
\* pair, compared after IDNA conversion and after the ALPN defaults.
AcceptedRoutingUnique ==
  result = "ok" =>
    \A i, j \in Idx : i # j =>
      \A sn \in Range(Backend(i).names) \cap Range(Backend(j).names) :
        Range(Backend(i).alpn) \cap Range(Backend(j).alpn) = {}

\* Spec 4.1 step 3: the server names of a backend whose ALPN list is empty
\* (it answers every protocol) appear on no other backend, whatever the
\* order of the backends in the file.
EmptyALPNExclusive ==
  result = "ok" =>
    \A i, j \in Idx : i # j /\ Backend(i).alpn = <<>> =>
      Range(Backend(i).names) \cap Range(Backend(j).names) = {}

\* Spec 3, the invariants on Backend: a valid upper-case mode, at least one
\* server name, all of them in ASCII form, addresses exactly where the mode
\* needs them, no client authentication on TLS passthrough, BackendProto
\* only in HTTP and HTTPS, and a BWLimit that names a defined group.
AcceptedBackendsWellFormed ==
  result = "ok" =>
    \A i \in Idx :
      LET b == Backend(i) IN
      /\ b.mode \in ModeWords
      /\ b.names # <<>>
      /\ Range(b.names) \subseteq Range(IdnaToASCII)
      /\ b.mode \in {"LOCAL", "CONSOLE"} => b.addresses = 0
      /\ b.mode \notin {"HTTP", "HTTPS", "LOCAL", "CONSOLE"} => b.addresses > 0
      /\ ~(b.mode = "TLSPASSTHROUGH" /\ b.clientAuth)
      /\ b.backendProto => b.mode \in {"HTTP", "HTTPS"}
      /\ b.bwLimit \in {""} \cup Range(cfg.bwLimits)
      /\ b.overrides # <<>> => b.mode \in {"HTTP", "HTTPS"}
      /\ \A o \in Range(b.overrides) :
           /\ o.paths # <<>> /\ \A k \in DOMAIN o.paths : o.paths[k]
           /\ o.mode \in {"HTTP", "HTTPS"}

Providers == cfg.oidc \o cfg.saml \o cfg.passkey
ProviderNamesOf(c) == {p.name : p \in Range(c.oidc \o c.saml \o c.passkey)}

\* Spec 4.1 step 3: identity provider names are unique across the oidc,
\* saml and passkey lists together, and PKI names are unique: the three
\* provider loops must share one map.
AcceptedNamesUnique ==
  result = "ok" =>
    /\ \A k, l \in DOMAIN Providers : k # l => Providers[k].name # Providers[l].name
    /\ \A k, l \in DOMAIN cfg.pki : k # l => cfg.pki[k].name # cfg.pki[l].name

\* Spec 4.1 steps 4 and 5: in an accepted configuration every reference
\* resolves: each sso.provider names an identity provider (the passkey
\* IdentityProvider is left out: see the hazard at line 748); each PKI
\* endpoint host is a server name of some LOCAL or CONSOLE backend; each
\* provider Domain is ASCII and a suffix of its URL's host; and each CA name a backend or path override uses is a PKI name or
\* loads, although the PKI loop runs after the provider loops and between
\* the backend loops.
AcceptedReferencesResolve ==
  result = "ok" =>
    LET pkiNames == {p.name : p \in Range(cfg.pki)}
        CAOk(n)  == n \in pkiNames \/ n \in Loadable
    IN
    /\ \A i \in Idx : Backend(i).sso # Nil => Backend(i).sso.provider \in ProviderNamesOf(cfg)
    /\ \A p \in Range(cfg.pki) : p.endpoint # Nil =>
         \E i \in Idx : p.endpoint \in Range(Backend(i).names)
                        /\ Backend(i).mode \in {"LOCAL", "CONSOLE"}
    /\ \A p \in Range(Providers) : p.domain # Nil =>
         p.domain \in Range(IdnaToASCII) /\ HasSuffix(p.host, p.domain)
    /\ \A i \in Idx :
         /\ Backend(i).clientAuth => \A n \in Range(Backend(i).rootCAs) : CAOk(n)
         /\ \A n \in Range(Backend(i).fwdRootCAs) : CAOk(n)
         /\ \A o \in Range(Backend(i).overrides) : \A n \in Range(o.roots) : CAOk(n)

=============================================================================
