# TLA+ models of the TLS proxy

TLA+ specifications of the TLS reverse proxy in `src/`, checked with TLC.
`PROJECT.json` lists every component, run, seeded mutant, the source
lines each definition models, the findings and the hazards.

## The system

| Part | Source | What it does |
|---|---|---|
| Validator | `src/unnamed/part_000` `Config.Check`, `validateProxyProtoVersion`, `ReadConfig` | Normalises and validates the YAML configuration (identity providers, backends, server names, PKI, bandwidth groups, path overrides) and fills in defaults. Its output is the routing table the proxy serves. |
| Routing mapping and reload | `src/internal/proxy.go` `Reconfigure`, `backend` | `Reconfigure` builds `mapping` (server name → `*Backend`) and swaps it in under `p.mu`. `backend(sni)` reads it. |
| Certificate selection | `proxy.go` `GetConfigForClient` (in `Start`) | During the TLS handshake, picks the backend's `tlsConfig`, which decides whether a client certificate is required. |
| Admission | `proxy.go` `incNumOpen`, `handleConnection` | Counts open connections and rejects once the count reaches `MaxOpen`. |
| Lifecycle | `proxy.go` `Start`, `Stop` | `Start` opens the optional HTTP listener and starts its ACME challenge server, then opens the TLS listener, derives `p.ctx`, and starts two goroutines: one waits for cancellation and closes the HTTP server and the listener; the other loops on `Accept` and starts a handler per connection. `Stop` cancels `p.ctx`. |
| Handler | `proxy.go` `handleConnection` | Per connection: handshake (1 min deadline), second backend lookup, dial, two forwarders, teardown. |
| Dial | `proxy.go` `Backend.dial` | Round robin over `Addresses` with a cursor shared by all dials of the backend. After a failure it moves on to the next address, up to `len(Addresses)` attempts. |
| Forwarder | `proxy.go` `forward`, `timeout` | Copies one direction. On EOF it half-closes (`CloseWrite` on the output, `CloseRead` on the input where they exist). On error it closes both connections. Deadlines: 15 min read, 1 min write. |
| ECH updater | `src/proxy/internal/cloudflare/cloudflare.go` | For each target: fetch the zone's HTTPS records once (zone lookup, then paged listing), then rewrite each name's `ech=` parameter and PATCH it. |
| tlsclient | `src/tlsclient/main.go` | A CLI client: dials a server over TLS (TCP) or QUIC, optionally with a client certificate, ECH and a required stapled OCSP response, then copies stdin to the connection and the connection to stdout in two goroutines. |
| Example backend | `src/examples/backend/backend.go` | An HTTPS server meant to sit behind the proxy. It accepts a request only with a proxy-issued JWT cookie, checked against the proxy's JWKS through a cache refreshed every 60 minutes. |
| Not modelled | ACME (`autocert`) | An external library that the proxy only wires up. |

How the parts interact:
- The validator produces the configuration that `Reconfigure` turns into a mapping.
- Every connection reads that mapping twice: once in the handshake callback and once after the handshake.
- Connections share `numOpen`, and each backend's `next` cursor is shared by all its dials.
- Reloads race with all of these reads.
- Cancelling `p.ctx` closes the listener and fails handshakes in flight; handlers past the handshake end through their own timeouts.
- `tlsclient` and the example backend are the two ends of a proxied connection. They share no state with the proxy, so each is modelled on its own, against an environment that may end or fail at any point.

## Modules

### `ProxyConn` — the connection plane of `proxy.go`

**State.** A fixed set `Conns` of handler slots. `h[c]` is one record per slot, with:
- `pc`: the handler's position;
- the SNI and certificate the client offers;
- `verified`: whether the handshake demanded and checked a certificate;
- `be`: the resolved backend;
- `left`: the dial loop's `max`;
- `fwd`: the state of each direction;
- `shut`: the set of connection halves already shut.

Shared state:
- `numOpen`;
- `next`: the per-backend cursor;
- `cfgIdx`: which of the `Configs` mappings is published;
- `started` (`Start` not called, returned nil, or returned an error) and `http` (the challenge server: `none`, `serving`, `closed`);
- `running` (`p.ctx` not cancelled), `listening` (the listener is open) and `acceptor` (the accept goroutine is in `Accept`, or back from an error);
- `stopCall`: how far a call of `Stop` has got (`none`, `cancelled` after `p.cancel()`, `returned` after `p.cancel = nil`);
- `crashed`: the process has panicked. After a panic, `Next` allows only stuttering.

`Cancellers` says who may cancel `p.ctx`: `Stop`, the context given to `Start`, or both. `HTTPAddr` says whether `Config.HTTPAddr` is set. `PeersGoQuiet` says whether every peer eventually stops sending (see Fairness).

A slot whose handler returned becomes idle again, which stands for a new connection.

**Actions.** One action per step of the code:

| Action | Models |
|---|---|
| `Admit` | accept plus `incNumOpen` and the `>=` check |
| `Handshake` | `GetConfigForClient` and a successful handshake |
| `HandshakeFail` | a failed handshake, including the deadline |
| `Resolve` | the second `backend(sni)` |
| `DialAttempt` | one iteration of the dial loop |
| `PeerEOF`, `CopyError` | the end of `io.Copy` in one direction |
| `Teardown` | the return, with its deferred close and decrement |
| `Reconfigure` | publishing the next mapping |
| `Start` | `Start` up to its return: `net.Listen` on `HTTPAddr` (which may fail, and always does while a server leaked by an earlier call holds it), the `Serve` goroutine, then `tls.Listen`, which may fail and return with that server left serving |
| `HTTPFail` | `Serve` returning an error other than `ErrServerClosed`: `log.Fatalf` ends the process |
| `Stop`, `StopReturn` | `Stop`'s two statements: `p.cancel()`, then the unlocked store `p.cancel = nil` |
| `CtxCancel` | the context given to `Start` being cancelled |
| `CloseListener` | the goroutine of `Start` that wakes on `p.ctx.Done()` and calls `p.cancel()`. If `Stop` has already stored nil, that is a nil func call and the process panics; otherwise it closes the HTTP server, if any, and then the listener. |
| `AcceptFailed`, `AcceptRetry` | `Accept` returning an error, and the loop's `continue` |

`Admit` needs an open listener and the accept goroutine in `Accept`; `Handshake` needs `running`, because `hsCtx` derives from `p.ctx`.

**Abstractions.**
- Bytes are not modelled: a direction either still copies, has seen EOF, or has failed.
- The helpers `TooMany` (the `>=` check), `Budget` (`max`), `Advance` (the cursor step), `Copying` and `EOFShut` (the halves `forward` shuts on EOF) are each one line or a few lines of the code, and the mutants change them there.
- `Reachable` fixes which addresses accept connections.

**Fairness.**
- Client arrivals, EOFs and reloads are the environment, so they get no fairness.
- The handler's own steps get weak fairness, and so does `HandshakeFail`: `hsCtx` bounds every handshake.
- A copy that reads a connection the other direction has already closed fails at once, so `CopyError` is weakly fair in that case.
- Otherwise a copy fails only through a deadline of the `timeout` wrapper, and every read or write pushes the deadline back. A peer that keeps sending keeps its copy alive for ever. So the rest of `CopyError`'s fairness is an assumption on the peers, switched on by `PeersGoQuiet`. `proxy_dial` assumes it, and `proxy_drain` does not.
- `Start`, `Stop` and `CtxCancel` are the caller's choice and are not fair; `HTTPFail` is a failure and is not fair either. A `Stop` that has started finishes (`StopReturn` is weakly fair). Once the context is cancelled, the shutdown goroutine and the accept goroutine never block (`Accept` on a closed listener returns at once), so `CloseListener`, `AcceptFailed` and `AcceptRetry` are weakly fair.
- Every fairness condition is on `Alive /\ A`: a process that has panicked owes nothing.

**Refinement.** `ProxyConn` defines `CP == INSTANCE ConnPlane WITH ...` and checks `ImplementsConnPlane == CP!Spec`. The mapping:

| `ConnPlane` | from `ProxyConn` |
|---|---|
| `phase` | `AbsPhase`: `handshake` and `resolve` are handshaking; `dial` is dialing; `forward` is forwarding while a direction still copies; after that, or after a failure, the handler is closing. |
| `name`, `route` | `h[c].sni`, `h[c].be` |
| `count`, `snap` | `numOpen`, `cfgIdx` |
| `listener` | `open` while `listening`; `closed` once a successful `Start`'s listener is closed; `none` before that |

### `ConnPlane` — the connection plane as `spec.md` describes it

An abstract specification written from `spec.md` 4.4, 4.5, 4.7 and 5, not from the code, so nothing in it is in the map. The listener is opened once, at startup, and closed once, on cancellation. A connection is accepted while the listener is open and counted until teardown. It is admitted only if the new count does not exceed `max_open`, routed by the snapshot published when it is looked up, and forwarded only after a dial of one of its route's addresses succeeds. Teardown decrements the count on every path.

It leaves out the spec's other half of admission (reject *only* past `max_open`). The code rejects one earlier (`numOpen >= MaxOpen`); a unit test with `MaxOpen = 1` shows that, and the hazard at `proxy.go:198` records it. It also leaves out client authentication, which `proxy_clientauth` checks.

### `ConfigCheck` — `Config.Check`

One `Check` step maps an input configuration to the result of `Config.Check`. The input holds only the fields Check inspects; the rest is abstracted.

Each loop of the code is a fold, in the code's order (`FoldLeftDomain`):
- `AddProviders`/`AddProvider`: the oidc, saml and passkey loops, lines 661-761, which share one name map;
- `NormalizeBackend`: lines 763-793;
- `AddServerNames`, `AddServerName`, `AddKey`: lines 795-814;
- `AddPKI`: lines 816-833;
- `AddGroup`: lines 835-841;
- `FinishBackend` and `FinishBackendRest`: lines 843-948, through `CheckClientAuth`, `CheckSSO`, `CheckCAs` and the CIDR check;
- `CheckPathOverrides`, `CheckPathOverride`: lines 950-988.

Modelling choices:
- A Go error return becomes an `err` field, and every later fold step passes it through unchanged.
- IDNA conversion is a constant function `IdnaToASCII`. Two raw names that map to one ASCII name exercise it.
- A mode string is a word plus a lower-case flag; `strings.ToUpper` keeps the word.
- A PROXY version string is `[lead, rest, n]`, which is enough for `ParseInt(s[1:], 10, 8)`.
- A URL is its host as written, or `BadURL` when `hostAndPath` fails. `strings.HasSuffix` is the constant relation `HostSuffix`.
- Checks that only test fields for presence or syntax are one Boolean each:
  - a provider's required fields and `url.Parse` calls;
  - a `LocalOIDCServer`;
  - the XFCC fields;
  - the CIDR lists.
- `loadCerts` succeeds exactly on the `Loadable` names.
- Not modelled: the I/O defaults of `CacheDir` and `MaxOpen`, and timeouts.

### `ECHUpdate` — `cloudflare.UpdateECH`

The sequential updater runs against an environment provider.

**Environment.**
- `ech`: each record's `ech` parameter, either old or new.
- `live`: the records that still exist. Records can be deleted (`DeleteRecord`).
- Every request may fail (`GetZoneDataFailed`, and the `ok` choice in `UpdateName`).

**Updater state.**
- the target and name indices `ti` and `ni`;
- the page number;
- the `zones` and `data` maps;
- the log.

**Abstractions.**
- The regexp rewrite is modelled by what it does: it sets `ech` to new and leaves the rest unchanged.
- The log keeps only what the properties talk about: which name or zone was reported, and how.

**Fairness.** The updater's own steps are weakly fair, because a request always returns. Failures and deletions are not fair.

### `ExampleBackend` — `src/examples/backend/backend.go`

**State.**
- `main`: where `main` is (`init`, `serving`, `shutdown`, `exited`).
- `listening`: the `ListenAndServeTLS` goroutine serves. `Start` may leave it `FALSE`, because the code drops that goroutine's error.
- `published`: the keys the JWKS URL serves now. The environment action `Rotate` changes it.
- `fetched`, `cached`: the `jwk.AutoRefresh` cache.
- `req`: one record per concurrent `ServeHTTP`, holding its phase and inputs (token, Host header, XFCC header, and the key set `getKey` saw).

**Actions.**
- `Receive`, `Serve`, `FetchDone`, `Verify`, `Respond` are the steps of `ServeHTTP`:
  - `Serve` covers the XFCC and cookie checks, then either reads the cached set or blocks on the first fetch;
  - `Verify` is `jwt.ParseWithClaims` with `getKey`. It is the pure operator `TokenValid`, which requires an ECDSA key of the set named by `kid`, a matching signature, a token that has not expired, and the audience from `audienceFromReq`.
- `Refresh` is the 60-minute refresh.
- `Signal` and `Exit` are `server.Shutdown`.

**Data.** A token is a record of its `kid`, the key that really signed it, its audience and whether it has expired. A Host header is a name with or without a port.

**Fairness.** Clients, signals and rotations are not fair. `main`, the request goroutines and the refresh timer are weakly fair. `FetchDone` and `Respond` wait on the JWKS server and on the client, with no timeout on the first fetch and no `WriteTimeout`, so they are not fair.

**No run.** No run checks `ExampleBackend`. Under the fairness its code justifies, a signal need not lead to exit: `Shutdown(ctx)` waits for a request blocked on the JWKS server or on a client, and `ctx` is cancelled only after `Shutdown` returns. A rotated key is also refused until the next 60-minute refresh. The code promises neither, so neither is a finding. The hazards at `backend.go:91` and `backend.go:111` describe both. The model stays in the project as the description of the component.

### `TLSClient` — `src/tlsclient/main.go`

**State.**
- `flags`: the command line, one of `Flags`. It covers version, argument count, key and cert, QUIC, OCSP, and an ECH config list that is `none`, `valid` or `bad`.
- `pc` and `exit`: where `main` is, and how it ended (`version`, `usage`, `fatal`, `done`).
- `staple`: the OCSP response the server stapled. It is one of `Staples`, which holds the fields `VerifyConnection` reads.
- The environment:
  - `srv`: the server's stream, `open`, `eof` or `reset`;
  - `stdin`;
  - `stdoutOK`.
- The connection's two directions, `cliW` and `cliR`, and the stdin goroutine's `inCopy`.

**Actions.**
- `Start`, `Resolve`, `Configure`: the flag checks, key pair loading, the two resolvers, and the ECH config.
- `DialQUIC` and `DialTCP` apply `OCSPVerdict`, the `VerifyConnection` callback, to the stapled response. Over TCP they also check that ECH was accepted when a config was given.
- Over QUIC, `StreamStdinEnds` closes the stream's write side and `StreamCopyEnds` ends `main`.
- Over TCP, `StdinCopyEnds` is `CloseWrite` and `ConnCopyEnds` ends `main`.

**Fairness.** The server, stdin and stdout are the environment and are not fair. The client's own steps are weakly fair.

Neither module's run checks `TypeOK`. Both define it, but their actions write only literals and members of the constant sets, so no mutant of the code could break it.

## Runs

| Run | cfg | Result | What it shows |
|---|---|---|---|
| proxy_safety | `ProxyConn_safety.cfg` | pass | With 3 handlers, `MaxOpen = 3`, a reload, `Start` with the challenge server (failing, or retried), and `Stop` or `Start`'s context cancelling at any point (a panic included):<ul><li>`numOpen` equals the number of live handlers (`NumOpenAccurate`);</li><li>a half-closed direction never shuts the other one;</li><li>the handler implements `ConnPlane` (`ImplementsConnPlane`).</li></ul> |
| proxy_dial | `ProxyConn_dial.cfg` | pass | With 3 slots and `MaxOpen = 2`, one handler is served at a time:<ul><li>a lone dial fails only if every address is unreachable;</li><li>every connection ends once its peers go quiet (`ConnectionsEventuallyEnd`).</li></ul> |
| proxy_drain | `ProxyConn_drain.cfg` | violation | Spec section 5: cancelling the root context makes every live handler exit within one I/O timeout (`Drain`). TLC's trace: a connection reaches `forward`, `Start`'s context is cancelled, and the listener closes. The client keeps sending, so its copy never fails, and the handler never returns: `p.ctx` reaches only the handshake. With a fair step that closes forwarding handlers once `p.ctx` is done, the run passes. |
| proxy_dial_race | `ProxyConn_dial_race.cfg` | violation | Two dials share `be.next`: one fails although `a2` is reachable. |
| proxy_clientauth | `ProxyConn_clientauth.cfg` | violation | Steps: handshake under a mapping without client auth; reload; `Resolve` picks a `ClientAuth` backend. The unverified client is forwarded to it. |
| proxy_stop | `ProxyConn_stop.cfg` | violation | `Stop` signals the background goroutines to exit, says its comment (`StopEndsBackground`). It breaks this two ways.<ul><li>TLC's trace: `Stop` cancels and stores `p.cancel = nil`, then the woken shutdown goroutine calls the nil `p.cancel` and the process panics.</li><li>When the goroutine reads `p.cancel` first, it closes the listener, and the accept goroutine retries `Accept` for ever. Removing the panic from the model makes the run report this lasso.</li></ul>With both fixed, the property holds. |
| config_accepted | `ConfigCheck_accepted.cfg` | pass | For every accepted input among five families (routing, per-backend shape, identity providers, PKI and CA lists, path overrides):<ul><li>unique (name, ALPN) keys (spec P1);</li><li>well-formed backends and path overrides;</li><li>unique provider and PKI names;</li><li>every reference resolves (SSO providers, PKI endpoints, CA names, provider domains). A passkey provider may name itself; see the hazard at `part_000:748`.</li></ul> |
| config_emptyalpn | `ConfigCheck_emptyalpn.cfg` | violation | An empty-ALPN backend followed by a backend with the same name is accepted. |
| ech_updater | `ECHUpdate_updater.cfg` | pass | Under failures and deletions:<ul><li>UpdateECH returns;</li><li>every requested record with a unique name is either updated or reported;</li><li>an "updated" line with no error line for its name means the update happened (`UpdatedLineTruthful`).</li></ul> |
| ech_notexist | `ECHUpdate_notexist.cfg` | violation | A failed zone lookup makes a later target of the same zone report existing names as missing. |
| ech_duplicate | `ECHUpdate_duplicate.cfg` | violation | With two records under one name, only the last one listed is updated, and nothing is reported. |
| tlsclient_session | `TLSClient_session.cfg` | pass | Six command lines and six stapled responses (good, none, unparsable, expired, revoked, no `nextUpdate`), over TCP and QUIC, with the server, stdin and stdout ending or failing in any order.<ul><li>The client never exits while the server may still send to a working stdout (`ResponseNotTruncated`). The stdin goroutine half-closes and does not close.</li><li>With `-ocsp`, no stream is copied without a Good, unexpired, parsable staple (`OCSPStapleRequired`).</li><li>Once the server's stream ends, the client exits without waiting for stdin (`ClientExitsAfterServerEnds`).</li></ul> |

Every property of a passing run has a seeded mutant in its module (listed in `PROJECT.json`). Each mutant is a plausible coding slip, and TLC finds it under the run's own configuration.

Line 111 of `cloudflare.go` also logs `updated` after a failed PATCH, next to the error line. `UpdatedLineTruthful` shows that the pair is still a faithful report.

`proxy_safety` checks only invariants and the refinement, under symmetry of the slots: about 770,000 states, in about a minute. The symmetry is sound because no definition tells one slot from another, and `ConnPlane`, which has no fairness, treats them alike too. The liveness properties run in `proxy_dial`, where `MaxOpen = 2` keeps one handler at a time and two others are turned away. This is why `DialFailsOnlyIfAllUnreachable` still holds there. `proxy_dial` cancels only through `Start`'s context: with `Stop`, the panic would end the process, and `proxy_stop` is the run about that. Only `proxy_safety` sets `HTTPAddr`: `HTTPFail` ends the process at any time, so under it no liveness property can hold, and the other runs are about the TLS side.

## Bounds

**ProxyConn.**
- 3 slots with `MaxOpen = 3` reach the boundary, including a third connection being rejected while two are served.
- `Stop` and the cancellation of `Start`'s context can happen in any state, in either order, so every phase meets the cancellation. This covers connections admitted between the cancellation and the listener close, and `Stop` after the shutdown goroutine has already run.
- `Start` may fail at either listen and be called again, so a leaked challenge server meets a retry; with `HTTPAddr` set it serves from before the first connection until the shutdown goroutine.
- Two mappings: the reload moves `s1` to a client-auth backend and drops `s2`, which covers both outcomes of `Resolve`.
- Backends:
  - one with two addresses, only the second reachable, so the round robin has to move on;
  - one TLS backend, so `forward` has no `CloseRead`.

**ConfigCheck.**
- Two backends are enough for every pairwise uniqueness rule.
- Three raw names, two of which map to the same ASCII name.
- Two provider names are enough for a cross-kind duplicate and for every reference a passkey provider can make: nobody, an earlier provider, or itself.
- Two backends share one ASCII name under different ALPN protocols, so the PKI check's "first backend" rule is exercised.

**ECHUpdate.**
- At one record per page, the two records of `z1` span two pages, so a deletion can shift a record across the page boundary.
- A zone appears in two targets, to exercise the zones map.

**TLSClient.**
- Each flag record takes a different early return or transport.
- Each staple record fails a different check of `VerifyConnection`, and one passes it.
- The environment may act in any state, so every order of server end, stdin end and stdout failure is explored.

## Not modelled

- In `tlsclient`: the bytes copied, the `-v` output, and which resolved address is dialed (only the first is; see the hazard at `main.go:102`).
- In the example backend: the HTML of an accepted request, and certificate loading beyond success or `log.Fatal`. Its model has no run (see `ExampleBackend`).
- The ACME manager (`autocert`): its challenge handler, certificate issuance and `GetCertificate` are a library the proxy only wires up. The challenge server's lifecycle is modelled in `ProxyConn`.
- What a failed `Start` leaves behind: `Start` has no caller in this repository, and nothing says a failed `Start` may be retried, so the leaked challenge server (hazard at `proxy.go:147`) is reached but not stated as a property.
- Bytes, TLS records and the provider's HTTP bodies: the properties are about who is connected, routed and reported, not about content.
- The I/O defaults of `Config.Check` (`CacheDir`, `MaxOpen` from the file limit).
- Spec 4.4's admission rule itself. The code rejects at `numOpen >= MaxOpen` where the spec rejects only past `max_open`, and rejected handlers count until their teardown. The model keeps both (hazards at `proxy.go:198` and `proxy.go:193`), but no run states the rule: its first counterexample is the single `>=` comparison, which a unit test with `MaxOpen = 1` shows.
- A reload that changes `MaxOpen`. The racy read of `p.cfg.MaxOpen` returns the old or the new value. Both outcomes are interleavings the model already has, but `MaxOpen` is one constant.
- How the provider fills `result_info.count`. The model reads it as the total; see the hazard at `cloudflare.go:197`.

Plan for later work:
1. The composition of validator and proxy: mappings produced by `ConfigCheck` fed to `ProxyConn`.
2. Larger instances of `ProxyConn`, for example two backends sharing one address.
