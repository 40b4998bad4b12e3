----------------------------- MODULE ConnPlane -----------------------------
(***************************************************************************)
(* What the connection plane promises, after spec.md 4.4 (listener and     *)
(* admission), 4.5 (connection handler), 4.7 (publish-replace reloads) and *)
(* 5 (num_open, cancellation).  A connection is accepted while the         *)
(* listener is open and counted in num_open until its teardown; it is      *)
(* admitted to the handshake only if the new count does not exceed         *)
(* max_open; it is routed by the snapshot published at the time of the     *)
(* lookup; it is forwarded only after a dial of one of the route's         *)
(* addresses succeeded; it ends by closing, and teardown decrements the    *)
(* count on every path.  No step says how: no handshake messages, no      *)
(* cursor, no half-closes.                                                 *)
(*                                                                         *)
(* The spec also says a connection is rejected only when the count would   *)
(* exceed max_open; the code rejects one earlier (numOpen >= MaxOpen), so  *)
(* that half is not part of this specification and a rejection is allowed *)
(* at any count.                                                           *)
(***************************************************************************)
EXTENDS Integers, Sequences, Functions

CONSTANTS Conns, SNIs, Backends, NoBackend, Configs, BackendAddrs, Reachable, MaxOpen

VARIABLES
  phase,     \* per connection: idle, rejected, handshake, dialing, forwarding, closing
  name,      \* the server name the client asked for
  route,     \* the backend the connection was routed to
  count,     \* num_open
  snap,      \* index in Configs of the published snapshot
  listener   \* the TLS listener: not yet opened, open, closed

avars == <<phase, name, route, count, snap, listener>>

IdleName == CHOOSE s \in SNIs : TRUE

Init ==
  /\ phase = [c \in Conns |-> "idle"]
  /\ name = [c \in Conns |-> IdleName]
  /\ route = [c \in Conns |-> NoBackend]
  /\ count = 0
  /\ snap = 1
  /\ listener = "none"

\* On accept num_open is incremented; past max_open the connection is closed.
Accept(c) ==
  /\ listener = "open"
  /\ phase[c] = "idle"
  /\ count' = count + 1
  /\ \E s \in SNIs : name' = [name EXCEPT ![c] = s]
  /\ \/ phase' = [phase EXCEPT ![c] = "rejected"]
     \/ count + 1 <= MaxOpen /\ phase' = [phase EXCEPT ![c] = "handshake"]
  /\ UNCHANGED <<route, snap, listener>>

\* The handshake fails or no backend resolves: on to teardown.
Fail(c) ==
  /\ phase[c] = "handshake"
  /\ phase' = [phase EXCEPT ![c] = "closing"]
  /\ UNCHANGED <<name, route, count, snap, listener>>

\* The backend is resolved in the published snapshot.
Select(c) ==
  /\ phase[c] = "handshake"
  /\ Configs[snap][name[c]] # NoBackend
  /\ route' = [route EXCEPT ![c] = Configs[snap][name[c]]]
  /\ phase' = [phase EXCEPT ![c] = "dialing"]
  /\ UNCHANGED <<name, count, snap, listener>>

\* Forwarding starts only on a successful dial of one of the route's addresses.
Connect(c) ==
  /\ phase[c] = "dialing"
  /\ Range(BackendAddrs[route[c]]) \cap Reachable # {}
  /\ phase' = [phase EXCEPT ![c] = "forwarding"]
  /\ UNCHANGED <<name, route, count, snap, listener>>

\* The dial fails.
DialFail(c) ==
  /\ phase[c] = "dialing"
  /\ phase' = [phase EXCEPT ![c] = "closing"]
  /\ UNCHANGED <<name, route, count, snap, listener>>

\* Both directions are done.
Finish(c) ==
  /\ phase[c] = "forwarding"
  /\ phase' = [phase EXCEPT ![c] = "closing"]
  /\ UNCHANGED <<name, route, count, snap, listener>>

\* Teardown: both sides closed and num_open decremented, whatever the path.
Close(c) ==
  /\ phase[c] \in {"rejected", "closing"}
  /\ phase' = [phase EXCEPT ![c] = "idle"]
  /\ name' = [name EXCEPT ![c] = IdleName]
  /\ route' = [route EXCEPT ![c] = NoBackend]
  /\ count' = count - 1
  /\ UNCHANGED <<snap, listener>>

\* A reload publishes the next snapshot; no handler is interrupted.
Publish ==
  /\ snap < Len(Configs)
  /\ snap' = snap + 1
  /\ UNCHANGED <<phase, name, route, count, listener>>

\* Startup opens the listener, once.
Listen ==
  /\ listener = "none"
  /\ listener' = "open"
  /\ UNCHANGED <<phase, name, route, count, snap>>

\* Root cancellation closes the listener.
StopAccepting ==
  /\ listener = "open"
  /\ listener' = "closed"
  /\ UNCHANGED <<phase, name, route, count, snap>>

Next ==
  \/ Publish \/ Listen \/ StopAccepting
  \/ \E c \in Conns :
       Accept(c) \/ Fail(c) \/ Select(c) \/ Connect(c) \/ DialFail(c)
       \/ Finish(c) \/ Close(c)

Spec == Init /\ [][Next]_avars

=============================================================================
