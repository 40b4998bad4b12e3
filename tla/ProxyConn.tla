----------------------------- MODULE ProxyConn -----------------------------
(***************************************************************************)
(* The connection plane of src/internal/proxy.go.                          *)
(*                                                                         *)
(* Every connection slot runs one handleConnection goroutine: admission    *)
(* through incNumOpen, the TLS handshake whose GetConfigForClient callback *)
(* reads the published mapping, a second lookup of the mapping after the   *)
(* handshake, Backend.dial with its round-robin cursor and failover, the   *)
(* two forward goroutines, and the deferred teardown.  Proxy.Reconfigure   *)
(* publishes the next routing table while handlers run.  Proxy.Start      *)
(* opens the optional HTTP listener for ACME challenges and the TLS        *)
(* listener.  p.ctx is cancelled by Proxy.Stop or by the context given to  *)
(* Start; Start's shutdown goroutine then closes both listeners, and the   *)
(* accept loop keeps calling Accept.                                       *)
(*                                                                         *)
(* Data is abstracted away: a peer either half-closes its stream (EOF) or  *)
(* the copy fails (reset, closed connection, or one of the deadlines set   *)
(* by the timeout wrapper).  A slot returns to "idle" after teardown, so a *)
(* slot stands for an unbounded sequence of connections.  A panic ends the *)
(* process: after it nothing moves.                                        *)
(***************************************************************************)
EXTENDS Integers, Sequences, FiniteSets, Functions

CONSTANTS
  Conns,         \* connection slots
  SNIs,          \* server names the clients send in the ClientHello
  Addrs,         \* upstream addresses
  Reachable,     \* the addresses whose dial succeeds
  Backends,      \* Backend objects; each routing table has its own
  Configs,       \* the routing tables published in turn (Proxy.mapping)
  BackendAddrs,  \* Backend.Addresses
  ClientAuth,    \* Backend.ClientAuth
  UseTLS,        \* Backend.UseTLS
  MaxOpen,       \* Config.MaxOpen
  NoBackend,     \* absent map entry
  Cancellers,    \* who may cancel p.ctx: "Stop" (Proxy.Stop), "ctx" (Start's ctx)
  HTTPAddr,      \* Config.HTTPAddr is set: Start serves ACME challenges
  PeersGoQuiet   \* every peer eventually stops sending (see Fairness)

ASSUME Reachable \subseteq Addrs
ASSUME Configs \in Seq([SNIs -> Backends \cup {NoBackend}]) /\ Len(Configs) >= 1
ASSUME NoBackend \notin Backends
\* Each ReadConfig yields fresh Backend objects: no backend is in two tables.
ASSUME \A i, j \in 1..Len(Configs) :
         i # j => Range(Configs[i]) \cap Range(Configs[j]) \subseteq {NoBackend}
\* Backend.dial indexes Addresses before taking it modulo its length.
ASSUME \A b \in Backends : BackendAddrs[b] \in Seq(Addrs) /\ Len(BackendAddrs[b]) >= 1
ASSUME ClientAuth \in [Backends -> BOOLEAN] /\ UseTLS \in [Backends -> BOOLEAN]
ASSUME MaxOpen \in Nat \ {0}
ASSUME Cancellers \subseteq {"Stop", "ctx"}
ASSUME HTTPAddr \in BOOLEAN /\ PeersGoQuiet \in BOOLEAN

VARIABLES
  cfgIdx,    \* index in Configs of p.mapping
  numOpen,   \* p.numOpen
  next,      \* be.next, per backend
  h,         \* per slot: the handler's position and locals (see IdleSlot)
  started,   \* Proxy.Start: not called, returned nil, returned an error
  http,      \* the HTTP challenge server: none, serving, closed
  running,   \* p.ctx has not been cancelled
  listening, \* p.listener is open
  acceptor,  \* the accept goroutine: in Accept, or back from an error
  stopCall,  \* Proxy.Stop: not called, p.cancel() called, p.cancel = nil stored
  crashed    \* the process has panicked

life == <<started, http, running, listening, acceptor, stopCall, crashed>>
vars == <<cfgIdx, numOpen, next, h, life>>

Phases == {"idle", "rejected", "handshake", "resolve", "dial",
           "failed", "dialfailed", "forward"}

\* c2s is forward(intConn, extConn), run by the handler itself;
\* s2c is forward(extConn, intConn), run by the extra goroutine.
Dirs == {"c2s", "s2c"}
Halves == {"extR", "extW", "intR", "intW"}
ReadHalf(d)  == IF d = "c2s" THEN "extR" ELSE "intR"
WriteHalf(d) == IF d = "c2s" THEN "intW" ELSE "extW"

Mapping == Configs[cfgIdx]

(* A slot's handler: its phase, the SNI and whether the client has a      *)
(* certificate the backend accepts, whether the handshake verified one,   *)
(* the backend of the second lookup, the local max of Backend.dial (0 =   *)
(* not yet set), per direction the copy's outcome, and the halves of      *)
(* extConn and intConn that have been shut.                               *)
IdleSlot == [pc |-> "idle", sni |-> CHOOSE s \in SNIs : TRUE, hasCert |-> FALSE,
             verified |-> FALSE, be |-> NoBackend, left |-> 0,
             fwd |-> [d \in Dirs |-> "copy"], shut |-> {}]

TypeOK ==
  /\ cfgIdx \in 1..Len(Configs)
  /\ numOpen \in 0..Cardinality(Conns)
  /\ next \in [Backends -> Nat] /\ \A b \in Backends : next[b] < Len(BackendAddrs[b])
  /\ h \in [Conns -> [pc : Phases, sni : SNIs, hasCert : BOOLEAN, verified : BOOLEAN,
                      be : Backends \cup {NoBackend}, left : Nat,
                      fwd : [Dirs -> {"copy", "eof", "err"}], shut : SUBSET Halves]]
  /\ started \in {"no", "yes", "failed"} /\ http \in {"none", "serving", "closed"}
  /\ running \in BOOLEAN /\ listening \in BOOLEAN /\ crashed \in BOOLEAN
  /\ acceptor \in {"accept", "error"}
  /\ stopCall \in {"none", "cancelled", "returned"}

Init ==
  /\ cfgIdx = 1
  /\ numOpen = 0
  /\ next = [b \in Backends |-> 0]
  /\ h = [c \in Conns |-> IdleSlot]
  /\ started = "no" /\ http = "none"
  /\ running = TRUE /\ listening = FALSE /\ acceptor = "accept"
  /\ stopCall = "none" /\ crashed = FALSE

-----------------------------------------------------------------------------
\* handleConnection's admission check on the count incNumOpen(1) returned.
TooMany(n) == n >= MaxOpen

(* Accept returns a connection and the accept loop hands it to a new       *)
(* handleConnection goroutine, which increments numOpen under p.mu and     *)
(* returns at once when the new value is too many.                         *)
Admit(c) ==
  /\ h[c].pc = "idle"
  /\ listening /\ acceptor = "accept"
  /\ numOpen' = numOpen + 1
  /\ \E s \in SNIs, cert \in BOOLEAN :
       h' = [h EXCEPT ![c].sni = s, ![c].hasCert = cert,
                      ![c].pc = IF TooMany(numOpen + 1) THEN "rejected" ELSE "handshake"]
  /\ UNCHANGED <<cfgIdx, next, life>>

(* HandshakeContext, under hsCtx derived from p.ctx (so it can succeed     *)
(* only while the proxy runs): GetConfigForClient looks the SNI up in the  *)
(* current mapping and returns be.tlsConfig, which requires and verifies a *)
(* client certificate when the backend has ClientAuth (nil otherwise: no   *)
(* client certificate is requested).                                       *)
Handshake(c) ==
  LET b == Mapping[h[c].sni] IN
  /\ h[c].pc = "handshake"
  /\ running
  /\ b # NoBackend
  /\ ClientAuth[b] => h[c].hasCert
  /\ h' = [h EXCEPT ![c].pc = "resolve", ![c].verified = ClientAuth[b]]
  /\ UNCHANGED <<cfgIdx, numOpen, next, life>>

(* The handshake fails: unknown SNI (the callback errs), missing client    *)
(* certificate, a client error, or the one-minute hsCtx deadline.          *)
HandshakeFail(c) ==
  /\ h[c].pc = "handshake"
  /\ h' = [h EXCEPT ![c].pc = "failed"]
  /\ UNCHANGED <<cfgIdx, numOpen, next, life>>

(* p.backend(cs.ServerName): a second read of the mapping, after the       *)
(* handshake.                                                              *)
Resolve(c) ==
  LET b == Mapping[h[c].sni] IN
  /\ h[c].pc = "resolve"
  /\ h' = [h EXCEPT ![c].pc = IF b # NoBackend THEN "dial" ELSE "failed",
                    ![c].be = b]
  /\ UNCHANGED <<cfgIdx, numOpen, next, life>>

\* Mutant: the retry budget initialised to one less than the length.
BudgetShort(c) == IF h[c].left = 0 THEN Len(BackendAddrs[h[c].be]) - 1 ELSE h[c].left

\* Backend.dial's local max: len(Addresses) on the first iteration.
Budget(c) == IF h[c].left = 0 THEN Len(BackendAddrs[h[c].be]) ELSE h[c].left

\* Mutant: the cursor is advanced without wrapping around.
AdvanceNoWrap(b) == next[b] + 1

\* be.next = (be.next + 1) % sz, under be.mu.
Advance(b) == (next[b] + 1) % Len(BackendAddrs[b])

\* Mutant: the handler forwards without checking the error of the dial.
DialAttemptIgnoreError(c) ==
  LET b == h[c].be IN
  /\ h[c].pc = "dial"
  /\ next' = [next EXCEPT ![b] = Advance(b)]
  /\ h' = [h EXCEPT ![c].pc = "forward", ![c].left = Budget(c)]
  /\ UNCHANGED <<cfgIdx, numOpen, life>>

(* One iteration of the loop of Backend.dial: under be.mu take             *)
(* Addresses[next] and advance next; then dial it.  On failure decrement   *)
(* max and retry while it is positive, else the handler returns.  On       *)
(* success the handler starts the two forward directions.                  *)
DialAttempt(c) ==
  LET b    == h[c].be
      addr == BackendAddrs[b][next[b] + 1]
  IN
  /\ h[c].pc = "dial"
  /\ next' = [next EXCEPT ![b] = Advance(b)]
  /\ \/ /\ addr \in Reachable
        /\ h' = [h EXCEPT ![c].pc = "forward", ![c].left = Budget(c)]
     \/ /\ addr \notin Reachable
        /\ h' = [h EXCEPT ![c].left = Budget(c) - 1,
                          ![c].pc = IF Budget(c) - 1 > 0 THEN "dial" ELSE "dialfailed"]
  /\ UNCHANGED <<cfgIdx, numOpen, life>>

\* io.Copy of direction d is running.
Copying(c, d) == h[c].pc = "forward" /\ h[c].fwd[d] = "copy"

\* Mutant: on EOF, Close both connections instead of shutting one half.
EOFShutAll(c, d) == Halves

(* forward(out, in) after io.Copy returned nil: CloseWrite(out), and       *)
(* CloseRead(in) when `in` has it: only a plain *net.TCPConn does (extConn *)
(* is a *tls.Conn).                                                        *)
EOFShut(c, d) ==
  {WriteHalf(d)} \cup (IF d = "s2c" /\ ~UseTLS[h[c].be] THEN {"intR"} ELSE {})

\* The peer half-closes its stream: io.Copy of that direction returns nil.
PeerEOF(c, d) ==
  /\ Copying(c, d)
  /\ ReadHalf(d) \notin h[c].shut
  /\ h' = [h EXCEPT ![c].fwd[d] = "eof", ![c].shut = @ \cup EOFShut(c, d)]
  /\ UNCHANGED <<cfgIdx, numOpen, next, life>>

(* Mutant: io.Copy without the timeout wrapper; with no peer error it     *)
(* fails only once the other direction has closed the connection.         *)
CopyErrorNoDeadline(c, d) ==
  /\ Copying(c, d) /\ ReadHalf(d) \in h[c].shut
  /\ h' = [h EXCEPT ![c].fwd[d] = "err", ![c].shut = Halves]
  /\ UNCHANGED <<cfgIdx, numOpen, next, life>>

(* io.Copy fails: a reset, a read on a connection the other direction has  *)
(* closed, or a deadline of the timeout wrapper (15 minutes idle on read,  *)
(* one minute on write).  forward then closes both connections.            *)
CopyError(c, d) ==
  /\ Copying(c, d)
  /\ h' = [h EXCEPT ![c].fwd[d] = "err", ![c].shut = Halves]
  /\ UNCHANGED <<cfgIdx, numOpen, next, life>>

(* handleConnection returns: from the admission check, after a failed      *)
(* handshake, lookup or dial, or once both directions are done.            *)
Returning(c) ==
  \/ h[c].pc \in {"rejected", "failed", "dialfailed"}
  \/ h[c].pc = "forward" /\ \A d \in Dirs : h[c].fwd[d] # "copy"

\* Mutant: the early return of a rejected connection skips the decrement.
TeardownSkipRejected(c) ==
  /\ Returning(c)
  /\ numOpen' = IF h[c].pc = "rejected" THEN numOpen ELSE numOpen - 1
  /\ h' = [h EXCEPT ![c] = IdleSlot]
  /\ UNCHANGED <<cfgIdx, next, life>>

\* The deferred calls close the connections and run incNumOpen(-1).
Teardown(c) ==
  /\ Returning(c)
  /\ numOpen' = numOpen - 1
  /\ h' = [h EXCEPT ![c] = IdleSlot]
  /\ UNCHANGED <<cfgIdx, next, life>>

(* Proxy.Reconfigure with a changed configuration: build a new mapping     *)
(* and publish it under p.mu.  A reload with an identical YAML form, or    *)
(* one whose certificates fail to load, changes nothing.                   *)
Reconfigure ==
  /\ cfgIdx < Len(Configs)
  /\ cfgIdx' = cfgIdx + 1
  /\ UNCHANGED <<numOpen, next, h, life>>

\* net.Listen on HTTPAddr succeeded and httpServer.Serve runs on it.
HTTPListen == IF HTTPAddr THEN "serving" ELSE "none"

(* Proxy.Start, before any goroutine it starts has run.  With HTTPAddr    *)
(* set, net.Listen may fail (always, while a server an earlier call leaked *)
(* holds the address) and Start returns the error.  Otherwise Serve is    *)
(* started, and then tls.Listen either fails, returning with that server  *)
(* left serving, or opens p.listener, and p.ctx and p.cancel are set.     *)
Start ==
  /\ started \in {"no", "failed"}
  /\ \/ HTTPAddr /\ started' = "failed" /\ UNCHANGED <<http, listening>>
     \/ /\ http # "serving"
        /\ http' = HTTPListen
        /\ \/ started' = "failed" /\ UNCHANGED listening
           \/ started' = "yes" /\ listening' = TRUE
  /\ UNCHANGED <<cfgIdx, numOpen, next, h, running, acceptor, stopCall, crashed>>

(* The HTTP goroutine: Serve returns an error other than ErrServerClosed  *)
(* (its listener failed) and log.Fatalf ends the process.                 *)
HTTPFail ==
  /\ http = "serving"
  /\ crashed' = TRUE
  /\ UNCHANGED <<cfgIdx, numOpen, next, h, started, http, running, listening,
                 acceptor, stopCall>>

(* Proxy.Stop: p.cancel is non-nil (Start has returned and no Stop has    *)
(* run), so it is called and p.ctx is cancelled (again, if Start's ctx    *)
(* was cancelled first).  Before that, Stop finds nil and does nothing ... *)
Stop ==
  /\ "Stop" \in Cancellers
  /\ started = "yes" /\ stopCall = "none"
  /\ running' = FALSE
  /\ stopCall' = "cancelled"
  /\ UNCHANGED <<cfgIdx, numOpen, next, h, started, http, listening, acceptor, crashed>>

(* ... then p.cancel = nil is stored, with no lock and no other ordering  *)
(* against the shutdown goroutine's read of p.cancel.  A later Stop finds *)
(* nil and does nothing.                                                   *)
StopReturn ==
  /\ stopCall = "cancelled"
  /\ stopCall' = "returned"
  /\ UNCHANGED <<cfgIdx, numOpen, next, h, started, http, running, listening,
                 acceptor, crashed>>

(* The context given to Start is cancelled, before or after Start: p.ctx  *)
(* derives from it.                                                        *)
CtxCancel ==
  /\ "ctx" \in Cancellers
  /\ running
  /\ running' = FALSE
  /\ UNCHANGED <<cfgIdx, numOpen, next, h, started, http, listening, acceptor,
                 stopCall, crashed>>

(* The goroutine of Start that waits for <-p.ctx.Done() calls p.cancel(): *)
(* once Stop has stored nil that is a call of a nil func, a panic.        *)
(* Otherwise it closes the HTTP server, if any, and then the listener.    *)
CloseListener ==
  /\ ~running
  /\ listening
  /\ \/ stopCall = "returned" /\ crashed' = TRUE /\ UNCHANGED <<http, listening>>
     \/ /\ stopCall # "returned"
        /\ http' = IF HTTPAddr THEN "closed" ELSE "none"
        /\ listening' = FALSE
        /\ UNCHANGED crashed
  /\ UNCHANGED <<cfgIdx, numOpen, next, h, started, running, acceptor, stopCall>>

\* The accept loop: Accept on the closed listener returns an error, logged.
AcceptFailed ==
  /\ started = "yes" /\ ~listening
  /\ acceptor = "accept"
  /\ acceptor' = "error"
  /\ UNCHANGED <<cfgIdx, numOpen, next, h, started, http, running, listening,
                 stopCall, crashed>>

\* ... and the loop continues with the next Accept.
AcceptRetry ==
  /\ acceptor = "error"
  /\ acceptor' = "accept"
  /\ UNCHANGED <<cfgIdx, numOpen, next, h, started, http, running, listening,
                 stopCall, crashed>>

-----------------------------------------------------------------------------
Alive == ~crashed

Next ==
  \/ /\ Alive
     /\ \/ Reconfigure \/ Start \/ HTTPFail \/ Stop \/ StopReturn \/ CtxCancel
        \/ CloseListener \/ AcceptFailed \/ AcceptRetry
        \/ \E c \in Conns :
             \/ Admit(c) \/ Handshake(c) \/ HandshakeFail(c) \/ Resolve(c)
             \/ DialAttempt(c) \/ Teardown(c)
             \/ \E d \in Dirs : PeerEOF(c, d) \/ CopyError(c, d)
  \/ crashed /\ UNCHANGED vars   \* the process has ended

(* Clients (Admit, Handshake, PeerEOF) and the operator (Reconfigure,     *)
(* Start, Stop, CtxCancel) owe the proxy nothing, but a Stop that has     *)
(* started returns.  The handler's own steps are fair, and so is the      *)
(* failure hsCtx forces on every handshake.  A copy reading a connection  *)
(* the other direction has closed fails at once.  Otherwise it fails by a *)
(* deadline of the timeout wrapper only once its peer has gone silent: an *)
(* active stream keeps pushing the deadline back, so that CopyError is    *)
(* fair only under the assumption PeersGoQuiet.  The shutdown and accept  *)
(* goroutines never block once the listener is closed.  Nothing runs in a *)
(* process that has panicked.                                              *)
Fairness ==
  /\ WF_vars(Alive /\ StopReturn) /\ WF_vars(Alive /\ CloseListener)
  /\ WF_vars(Alive /\ AcceptFailed) /\ WF_vars(Alive /\ AcceptRetry)
  /\ \A c \in Conns :
       /\ WF_vars(Alive /\ HandshakeFail(c)) /\ WF_vars(Alive /\ Resolve(c))
       /\ WF_vars(Alive /\ DialAttempt(c)) /\ WF_vars(Alive /\ Teardown(c))
       /\ \A d \in Dirs : WF_vars(Alive /\ ReadHalf(d) \in h[c].shut /\ CopyError(c, d))
       /\ PeersGoQuiet => \A d \in Dirs : WF_vars(Alive /\ CopyError(c, d))

Spec == Init /\ [][Next]_vars /\ Fairness

-----------------------------------------------------------------------------
(* Properties *)

\* p.numOpen counts exactly the handleConnection goroutines that have run
\* incNumOpen(1) and not yet their deferred incNumOpen(-1), on every return
\* path, rejected connections included.
NumOpenAccurate == numOpen = Cardinality({c \in Conns : h[c].pc # "idle"})

\* forward() propagates a half-close instead of tearing the connection down:
\* while a direction is still copying and the other one has not failed, the
\* halves it reads from and writes to are open.
HalfCloseKeepsOtherDirection ==
  \A c \in Conns, d \in Dirs :
    (Copying(c, d) /\ h[c].fwd[CHOOSE o \in Dirs : o # d] # "err")
      => {ReadHalf(d), WriteHalf(d)} \cap h[c].shut = {}

\* Backend.dial gives up only after a full rotation: a connection whose dial
\* failed was routed to a backend none of whose addresses is reachable.
DialFailsOnlyIfAllUnreachable ==
  \A c \in Conns :
    h[c].pc = "dialfailed" => Range(BackendAddrs[h[c].be]) \cap Reachable = {}

\* A connection forwarded to a backend with ClientAuth presented a client
\* certificate that its handshake verified (GetConfigForClient and the
\* p.backend lookup after the handshake must agree on the backend).
ClientAuthEnforced ==
  \A c \in Conns :
    h[c].pc \in {"dial", "forward"} /\ ClientAuth[h[c].be] => h[c].verified

\* Every connection the proxy accepts is eventually torn down and its slot
\* freed once its peers go quiet: the handshake deadline, the dial timeout
\* and the copy deadlines leave no handler waiting forever.
ConnectionsEventuallyEnd ==
  \A c \in Conns : h[c].pc # "idle" ~> h[c].pc = "idle"

\* Spec section 5: cancellation of the root context makes every live
\* handler close both ends and exit within one I/O timeout, and the
\* listener closes; so eventually no handleConnection goroutine is left,
\* even while its peers keep sending.
Drain == ~running ~> (~listening /\ \A c \in Conns : h[c].pc = "idle")

\* Stop's doc comment: Stop signals the background goroutines to exit.  Once
\* Stop has been called, the process is still alive when the shutdown
\* goroutine has closed the listener, and the accept goroutine eventually
\* stops calling Accept (no further "ERR Accept" iterations).
StopEndsBackground ==
  (stopCall # "none") ~> (Alive /\ ~listening /\ [](acceptor # "error"))

-----------------------------------------------------------------------------
(* Refinement of ConnPlane.  A handler in its handshake or at the second   *)
(* lookup is handshaking; in Backend.dial it is dialing; it forwards while *)
(* a direction still copies; once both directions are done, or after a     *)
(* failure, it is closing until its deferred calls run.                    *)
AbsPhase(c) ==
  CASE h[c].pc \in {"idle", "rejected"}      -> h[c].pc
    [] h[c].pc \in {"handshake", "resolve"}  -> "handshake"
    [] h[c].pc = "dial"                      -> "dialing"
    [] h[c].pc = "forward" /\ \E d \in Dirs : Copying(c, d) -> "forwarding"
    [] OTHER                                 -> "closing"

CP == INSTANCE ConnPlane
        WITH phase <- [c \in Conns |-> AbsPhase(c)], name <- [c \in Conns |-> h[c].sni],
             route <- [c \in Conns |-> h[c].be], count <- numOpen, snap <- cfgIdx,
             listener <- IF listening THEN "open"
                         ELSE IF started = "yes" THEN "closed" ELSE "none"

\* handleConnection, Backend.dial, forward, Reconfigure and Start's shutdown
\* goroutine together implement the connection plane of the spec: numOpen
\* moves with accepts and teardowns, the route is read from the published
\* mapping, forwarding follows a successful dial only, and nothing is
\* accepted before Start opens the listener or once it is closed.
ImplementsConnPlane == CP!Spec

=============================================================================
