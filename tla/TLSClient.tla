------------------------------ MODULE TLSClient ------------------------------
(***************************************************************************)
(* The tlsclient command of src/tlsclient/main.go: it connects to a TLS    *)
(* (or QUIC) server and pipes the stream to its stdin and stdout.          *)
(*                                                                         *)
(* main checks its flags, loads the client certificate, resolves the host *)
(* (with the system resolver, then with a Go resolver talking to           *)
(* 8.8.8.8), dials the first address it gets, with a VerifyConnection      *)
(* callback that checks the stapled OCSP response when -ocsp is set, and   *)
(* then copies: a goroutine copies stdin to the connection and half-closes *)
(* it, and main copies the connection to stdout and returns.               *)
(*                                                                         *)
(* Data is abstracted: the flags are a record, the resolvers and dials    *)
(* answer with an outcome, a stapled OCSP response is a record of what    *)
(* VerifyConnection looks at, and the streams are reduced to how each one *)
(* ended.                                                                  *)
(***************************************************************************)

EXTENDS Naturals

CONSTANTS
  Flags,     \* the command lines the program may be run with
  Staples    \* the stapled OCSP responses a server may send

ASSUME Flags \subseteq [version : BOOLEAN, nargs : 0..2, key : BOOLEAN, cert : BOOLEAN,
                        quic : BOOLEAN, ocsp : BOOLEAN, ech : {"none", "valid", "bad"}]
ASSUME Staples \subseteq [present : BOOLEAN, parses : BOOLEAN,
                          nextUpdate : {"past", "future", "absent"},
                          status : {"good", "revoked"}]

VARIABLES
  flags,     \* the parsed flags
  pc,        \* where main is
  exit,      \* how the process ended
  staple,    \* the OCSP response the server stapled in the handshake
  srv,       \* the server's side of the stream: "open", "eof" or "reset"
  stdin,     \* stdin: "open" or "eof"
  stdoutOK,  \* writes to stdout succeed
  inCopy,    \* the stdin goroutine: "copy" or "done"
  cliW,      \* the client's write side of the stream is open
  cliR       \* the client's read side of the stream is open

vars == <<flags, pc, exit, staple, srv, stdin, stdoutOK, inCopy, cliW, cliR>>

TypeOK ==
  /\ flags \in Flags
  /\ pc \in {"start", "resolve", "configure", "dial", "copy", "exited"}
  /\ exit \in {"none", "version", "usage", "fatal", "done"}
  /\ staple \in Staples
  /\ srv \in {"open", "eof", "reset"}
  /\ stdin \in {"open", "eof"}
  /\ stdoutOK \in BOOLEAN /\ cliW \in BOOLEAN /\ cliR \in BOOLEAN
  /\ inCopy \in {"copy", "done"}

Init ==
  /\ flags \in Flags
  /\ pc = "start"
  /\ exit = "none"
  /\ staple = CHOOSE st \in Staples : TRUE
  /\ srv = "open" /\ stdin = "open" /\ stdoutOK = TRUE
  /\ inCopy = "copy" /\ cliW = TRUE /\ cliR = TRUE

Fatal == pc' = "exited" /\ exit' = "fatal"

-----------------------------------------------------------------------------
\* Mutant: VerifyConnection ignores the error of ParseResponseForCert.
OCSPVerdictIgnoreParseError(st) ==
  \/ ~flags.ocsp
  \/ /\ st.present
     /\ st.parses => (st.nextUpdate = "future" /\ st.status = "good")

(* VerifyConnection: without -ocsp every connection passes; with it, the   *)
(* response must be stapled, parse for the leaf and its issuer, not be     *)
(* past NextUpdate, and say Good.  A response without NextUpdate has the   *)
(* zero time there, which time.Now() is after.                             *)
OCSPVerdict(st) ==
  \/ ~flags.ocsp
  \/ /\ st.present
     /\ st.parses
     /\ st.nextUpdate = "future"
     /\ st.status = "good"

(* -v prints the version; a wrong number of arguments, or -key without     *)
(* -cert or the reverse, prints the usage and exits 1; a key pair that     *)
(* does not load is fatal.                                                 *)
Start ==
  /\ pc = "start"
  /\ \/ flags.version /\ pc' = "exited" /\ exit' = "version"
     \/ /\ ~flags.version
        /\ flags.nargs # 1 \/ flags.key # flags.cert
        /\ pc' = "exited" /\ exit' = "usage"
     \/ /\ ~flags.version
        /\ flags.nargs = 1 /\ flags.key = flags.cert
        /\ \/ pc' = "resolve" /\ UNCHANGED exit
           \/ flags.key /\ Fatal
  /\ UNCHANGED <<flags, staple, srv, stdin, stdoutOK, inCopy, cliW, cliR>>

(* net.SplitHostPort (port 443 when the argument has none), then           *)
(* net.LookupHost; if it fails, the same lookup through 8.8.8.8; if that  *)
(* fails too, log.Fatalf.  A lookup that succeeds returns at least one    *)
(* address, and main dials the first.                                      *)
Resolve ==
  /\ pc = "resolve"
  /\ \E system \in BOOLEAN, fallback \in BOOLEAN :
       IF system \/ fallback THEN pc' = "configure" /\ UNCHANGED exit ELSE Fatal
  /\ UNCHANGED <<flags, staple, srv, stdin, stdoutOK, inCopy, cliW, cliR>>

(* The -ech value is base64-decoded into the tls.Config; a value that is   *)
(* not base64 is fatal.                                                     *)
Configure ==
  /\ pc = "configure"
  /\ IF flags.ech = "bad" THEN Fatal ELSE pc' = "dial" /\ UNCHANGED exit
  /\ UNCHANGED <<flags, staple, srv, stdin, stdoutOK, inCopy, cliW, cliR>>

(* -quic: quic.DialAddr, whose handshake runs VerifyConnection, then       *)
(* OpenStream; an error of either is fatal.                                *)
DialQUIC ==
  /\ pc = "dial" /\ flags.quic
  /\ \E st \in Staples, ok \in BOOLEAN :
       /\ staple' = st
       /\ IF ok /\ OCSPVerdict(st) THEN pc' = "copy" /\ UNCHANGED exit ELSE Fatal
  /\ UNCHANGED <<flags, srv, stdin, stdoutOK, inCopy, cliW, cliR>>

(* tls.Dial: a connection error, a server that rejects the ECH config      *)
(* (ECHRejectionError, which only a client with -ech can get) or a         *)
(* VerifyConnection error is fatal.                                        *)
DialTCP ==
  /\ pc = "dial" /\ ~flags.quic
  /\ \E st \in Staples, ok \in BOOLEAN, echRejected \in BOOLEAN :
       /\ staple' = st
       /\ echRejected => flags.ech = "valid"
       /\ IF ok /\ ~echRejected /\ OCSPVerdict(st) THEN pc' = "copy" /\ UNCHANGED exit
                                                    ELSE Fatal
  /\ UNCHANGED <<flags, srv, stdin, stdoutOK, inCopy, cliW, cliR>>

-----------------------------------------------------------------------------
(* The stream, once connected.  The server may half-close or reset it,     *)
(* stdin may end and stdout may break; none of them has to.                *)
ServerEOF ==
  /\ pc = "copy" /\ srv = "open"
  /\ srv' = "eof"
  /\ UNCHANGED <<flags, pc, exit, staple, stdin, stdoutOK, inCopy, cliW, cliR>>

ServerReset ==
  /\ pc = "copy" /\ srv # "reset"
  /\ srv' = "reset"
  /\ UNCHANGED <<flags, pc, exit, staple, stdin, stdoutOK, inCopy, cliW, cliR>>

StdinEOF ==
  /\ pc = "copy" /\ stdin = "open"
  /\ stdin' = "eof"
  /\ UNCHANGED <<flags, pc, exit, staple, srv, stdoutOK, inCopy, cliW, cliR>>

StdoutBreaks ==
  /\ pc = "copy" /\ stdoutOK
  /\ stdoutOK' = FALSE
  /\ UNCHANGED <<flags, pc, exit, staple, srv, stdin, inCopy, cliW, cliR>>

\* io.Copy from stdin returns: stdin ended, or a write to the server failed.
StdinDone == stdin = "eof" \/ srv = "reset"
\* io.Copy to stdout returns: the server's stream ended, or a read or a write
\* failed (a read fails on a reset or on a reading side closed here).
OutputDone == srv # "open" \/ ~stdoutOK \/ ~cliR

(* QUIC: the goroutine copies stdin to the stream, logs an error that is   *)
(* not net.ErrClosed, and calls stream.Close(), which closes the sending  *)
(* direction only.                                                         *)
StreamStdinEnds ==
  /\ pc = "copy" /\ flags.quic /\ inCopy = "copy"
  /\ StdinDone
  /\ inCopy' = "done" /\ cliW' = FALSE
  /\ UNCHANGED <<flags, pc, exit, staple, srv, stdin, stdoutOK, cliR>>

(* QUIC: main's io.Copy(os.Stdout, stream) returns; on an error it calls   *)
(* stream.CancelRead(0) and logs; then main returns and the process ends.  *)
StreamCopyEnds ==
  /\ pc = "copy" /\ flags.quic
  /\ OutputDone
  /\ pc' = "exited" /\ exit' = "done"
  /\ cliR' = (srv = "eof" /\ stdoutOK /\ cliR)
  /\ UNCHANGED <<flags, staple, srv, stdin, stdoutOK, inCopy, cliW>>

\* Mutant: the goroutine closes the connection instead of half-closing it.
StdinCopyEndsCloses ==
  /\ pc = "copy" /\ ~flags.quic /\ inCopy = "copy"
  /\ StdinDone
  /\ inCopy' = "done" /\ cliW' = FALSE /\ cliR' = FALSE
  /\ UNCHANGED <<flags, pc, exit, staple, srv, stdin, stdoutOK>>

(* TCP: the goroutine's io.Copy(conn, os.Stdin) returns; it logs an error  *)
(* that is not net.ErrClosed and calls conn.CloseWrite(), which sends      *)
(* close_notify and fails later writes but leaves reading open.            *)
StdinCopyEnds ==
  /\ pc = "copy" /\ ~flags.quic /\ inCopy = "copy"
  /\ StdinDone
  /\ inCopy' = "done" /\ cliW' = FALSE
  /\ UNCHANGED <<flags, pc, exit, staple, srv, stdin, stdoutOK, cliR>>

\* Mutant: main also waits for the stdin goroutine before it returns.
ConnCopyEndsAfterStdin ==
  /\ pc = "copy" /\ ~flags.quic /\ inCopy = "done"
  /\ OutputDone
  /\ pc' = "exited" /\ exit' = "done"
  /\ cliR' = FALSE /\ cliW' = FALSE
  /\ UNCHANGED <<flags, staple, srv, stdin, stdoutOK, inCopy>>

(* TCP: main's io.Copy(os.Stdout, conn) returns; main logs an error that   *)
(* is not net.ErrClosed, closes the connection and returns, and the        *)
(* process ends, the stdin goroutine with it.                              *)
ConnCopyEnds ==
  /\ pc = "copy" /\ ~flags.quic
  /\ OutputDone
  /\ pc' = "exited" /\ exit' = "done"
  /\ cliR' = FALSE /\ cliW' = FALSE
  /\ UNCHANGED <<flags, staple, srv, stdin, stdoutOK, inCopy>>

-----------------------------------------------------------------------------
Next ==
  \/ Start \/ Resolve \/ Configure \/ DialQUIC \/ DialTCP
  \/ ServerEOF \/ ServerReset \/ StdinEOF \/ StdoutBreaks
  \/ StreamStdinEnds \/ StreamCopyEnds \/ StdinCopyEnds \/ ConnCopyEnds

(* The server, stdin and stdout owe the client nothing.  main and the      *)
(* stdin goroutine run whenever they can.                                  *)
Fairness ==
  /\ WF_vars(Start) /\ WF_vars(Resolve) /\ WF_vars(Configure)
  /\ WF_vars(DialQUIC) /\ WF_vars(DialTCP)
  /\ WF_vars(StreamStdinEnds) /\ WF_vars(StreamCopyEnds)
  /\ WF_vars(StdinCopyEnds) /\ WF_vars(ConnCopyEnds)

Spec == Init /\ [][Next]_vars /\ Fairness

-----------------------------------------------------------------------------
(* Properties *)

\* The reply is not cut short: the client leaves the copy phase only once
\* the server has ended its stream or reset it, or stdout has broken; the
\* end of stdin half-closes the stream and leaves the reading side open.
ResponseNotTruncated ==
  exit = "done" => (srv # "open" \/ ~stdoutOK)

\* -ocsp ("Require stapled OCSP response"): no stream is copied unless the
\* server stapled a response that parses, is Good and is not past
\* NextUpdate, over TCP and over QUIC alike.
OCSPStapleRequired ==
  (pc = "copy" /\ flags.ocsp) =>
    /\ staple.present /\ staple.parses
    /\ staple.status = "good" /\ staple.nextUpdate # "past"

\* Once connected, the client exits when the server ends or resets its
\* stream, whether or not stdin ever ends.
ClientExitsAfterServerEnds == (pc = "copy" /\ srv # "open") ~> (pc = "exited")

=============================================================================
