--------------------------- MODULE ExampleBackend ---------------------------
(***************************************************************************)
(* The example backend service of src/examples/backend/backend.go: an     *)
(* HTTPS server behind the proxy that lets a request through only with a  *)
(* TLSPROXYIDTOKEN cookie holding a JWT signed by a key of the proxy's     *)
(* JWKS, for this host.                                                    *)
(*                                                                         *)
(* main validates its flags, starts ListenAndServeTLS in a goroutine       *)
(* (whose error it drops), waits for SIGINT or SIGTERM and calls           *)
(* server.Shutdown.  Every request runs ServeHTTP in its own goroutine;    *)
(* getKey reads the key set through a jwk.AutoRefresh cache, which        *)
(* fetches the JWKS on first use and refreshes it every 60 minutes.        *)
(*                                                                         *)
(* Data is abstracted: a token is a record of the header's kid, the key   *)
(* that really signed it, its audience and whether it has expired; a      *)
(* Host header is a name with or without a port.  The HTML written for an *)
(* accepted request is not modelled.                                       *)
(***************************************************************************)
EXTENDS FiniteSets

CONSTANTS
  Reqs,      \* request slots (concurrent ServeHTTP goroutines)
  Keys,      \* key IDs the identity provider may publish
  ECKeys,    \* the keys that are ECDSA keys (key.Raw(&ecdsa.PublicKey) works)
  Names,     \* host names
  Tokens,    \* the JWTs clients may present
  Hosts,     \* the Host headers of requests: a name, with or without ":port"
  XFCCs,     \* x-forwarded-client-cert headers: "absent", "valid" or "invalid"
  NoCookie,  \* the request has no TLSPROXYIDTOKEN cookie
  NoKid      \* the token's "kid" header is absent or not a string

ASSUME ECKeys \subseteq Keys
ASSUME Tokens \subseteq [kid : Keys \cup {NoKid}, signer : Keys, aud : Names,
                         expired : BOOLEAN]
ASSUME NoCookie \notin Tokens

ASSUME Hosts \subseteq [name : Names, port : BOOLEAN]
ASSUME XFCCs \subseteq {"absent", "valid", "invalid"}

VARIABLES
  main,       \* where main is
  listening,  \* the ListenAndServeTLS goroutine is serving
  published,  \* the key set the JWKS URL serves now
  fetched,    \* the AutoRefresh cache holds a key set
  cached,     \* ... and that set
  req         \* per request slot: ServeHTTP's position and inputs

vars == <<main, listening, published, fetched, cached, req>>

ReqPhases == {"idle", "serve", "fetch", "verify", "ok", "forbidden"}

IdleReq == [pc |-> "idle", tok |-> NoCookie,
            host |-> CHOOSE h \in Hosts : TRUE,
            xfcc |-> CHOOSE x \in XFCCs : TRUE, set |-> {}]

TypeOK ==
  /\ main \in {"init", "serving", "shutdown", "exited"}
  /\ listening \in BOOLEAN /\ fetched \in BOOLEAN
  /\ published \subseteq Keys /\ cached \subseteq Keys
  /\ req \in [Reqs -> [pc : ReqPhases, tok : Tokens \cup {NoCookie}, host : Hosts,
                       xfcc : XFCCs, set : SUBSET Keys]]

Init ==
  /\ main = "init"
  /\ listening = FALSE
  /\ published \in SUBSET Keys
  /\ fetched = FALSE
  /\ cached = {}
  /\ req = [r \in Reqs |-> IdleReq]

-----------------------------------------------------------------------------
(* audienceFromReq: "https://" + host + "/", the port dropped when         *)
(* net.SplitHostPort can split one off.                                     *)
audienceFromReq(h) == h.name

(* jwt.ParseWithClaims with getKey and WithAudience, given the key set     *)
(* getKey fetched: the kid must be a string naming a key of the set that  *)
(* is an ECDSA key, the signature must verify with it, the token must not *)
(* have expired and its audience must be this host's.                      *)
TokenValid(tok, h, set) ==
  /\ tok.kid \in set \cap ECKeys
  /\ tok.signer = tok.kid
  /\ ~tok.expired
  /\ tok.aud = audienceFromReq(h)

\* main: the flags are checked, certmanager.New may fail (log.Fatal), and
\* the server goroutine is started; a failure of ListenAndServeTLS (the
\* address is in use) is dropped, and main goes on waiting for a signal.
Start ==
  /\ main = "init"
  /\ \/ main' = "exited" /\ UNCHANGED listening
     \/ main' = "serving" /\ listening' \in BOOLEAN
  /\ UNCHANGED <<published, fetched, cached, req>>

\* The server accepts a request and starts ServeHTTP for it.
Receive(r) ==
  /\ listening
  /\ req[r].pc = "idle"
  /\ \E tok \in Tokens \cup {NoCookie}, h \in Hosts, x \in XFCCs :
       req' = [req EXCEPT ![r] = [IdleReq EXCEPT !.pc = "serve", !.tok = tok,
                                                 !.host = h, !.xfcc = x]]
  /\ UNCHANGED <<main, listening, published, fetched, cached>>

(* ServeHTTP up to getKey: a header x-forwarded-client-cert that does not   *)
(* parse, or a missing cookie, is answered 403.  Then s.ar.Fetch returns   *)
(* the cached key set, or blocks on a first fetch of the JWKS URL.         *)
Serve(r) ==
  /\ req[r].pc = "serve"
  /\ \/ /\ req[r].xfcc = "invalid" \/ req[r].tok = NoCookie
        /\ req' = [req EXCEPT ![r].pc = "forbidden"]
     \/ /\ req[r].xfcc # "invalid" /\ req[r].tok # NoCookie
        /\ \/ fetched /\ req' = [req EXCEPT ![r].pc = "verify", ![r].set = cached]
           \/ ~fetched /\ req' = [req EXCEPT ![r].pc = "fetch"]
  /\ UNCHANGED <<main, listening, published, fetched, cached>>

\* The first fetch of the JWKS URL returns: on success the set is cached
\* and handed to getKey; an error is returned by getKey, and the request
\* is answered 403 ("invalid token").
FetchDone(r) ==
  /\ req[r].pc = "fetch"
  /\ \/ /\ fetched' = TRUE
        /\ cached' = published
        /\ req' = [req EXCEPT ![r].pc = "verify", ![r].set = published]
     \/ /\ req' = [req EXCEPT ![r].pc = "forbidden"]
        /\ UNCHANGED <<fetched, cached>>
  /\ UNCHANGED <<main, listening, published>>

\* The rest of jwt.ParseWithClaims, with the key getKey looked up.
Verify(r) ==
  /\ req[r].pc = "verify"
  /\ req' = [req EXCEPT ![r].pc = IF TokenValid(req[r].tok, req[r].host, req[r].set)
                                  THEN "ok" ELSE "forbidden"]
  /\ UNCHANGED <<main, listening, published, fetched, cached>>

\* The response ("token is valid" and the claims, or a 403) is written and
\* ServeHTTP returns.
Respond(r) ==
  /\ req[r].pc \in {"ok", "forbidden"}
  /\ req' = [req EXCEPT ![r] = IdleReq]
  /\ UNCHANGED <<main, listening, published, fetched, cached>>

\* The AutoRefresh goroutine re-fetches the JWKS every 60 minutes while
\* the root context lives; a failed refresh keeps the old set (a stutter).
Refresh ==
  /\ fetched
  /\ main # "exited"
  /\ cached # published
  /\ cached' = published
  /\ UNCHANGED <<main, listening, published, fetched, req>>

\* The identity provider rotates its keys.
Rotate ==
  /\ \E ks \in SUBSET Keys : ks # published /\ published' = ks
  /\ UNCHANGED <<main, listening, fetched, cached, req>>

\* SIGINT or SIGTERM: main calls server.Shutdown(ctx), which first closes
\* the listener ...
Signal ==
  /\ main = "serving"
  /\ main' = "shutdown"
  /\ listening' = FALSE
  /\ UNCHANGED <<published, fetched, cached, req>>

\* ... and returns once no request is in progress (ctx is cancelled only by
\* main's deferred cancel, after Shutdown returns); then main returns.
Exit ==
  /\ main = "shutdown"
  /\ \A r \in Reqs : req[r].pc = "idle"
  /\ main' = "exited"
  /\ UNCHANGED <<listening, published, fetched, cached, req>>

-----------------------------------------------------------------------------
Next ==
  \/ Start \/ Refresh \/ Rotate \/ Signal \/ Exit
  \/ \E r \in Reqs :
       Receive(r) \/ Serve(r) \/ FetchDone(r) \/ Verify(r) \/ Respond(r)

(* Clients, the operator's signal and the identity provider's rotations    *)
(* owe the backend nothing.  main and the AutoRefresh timer run when they  *)
(* can, and so does ServeHTTP while it computes.  The first JWKS fetch has *)
(* no timeout and the server no WriteTimeout, so FetchDone and Respond    *)
(* wait on the JWKS server and on the client and are not fair.            *)
Fairness ==
  /\ WF_vars(Start) /\ WF_vars(Refresh) /\ WF_vars(Exit)
  /\ \A r \in Reqs : WF_vars(Serve(r)) /\ WF_vars(Verify(r))

Spec == Init /\ [][Next]_vars /\ Fairness

=============================================================================
