---------------------------- MODULE ProxyConnect ----------------------------
(***************************************************************************)
(* One dial through an http(s) CONNECT proxy (pkg/httpx/proxy_client.go).  *)
(* The dialer connects to the proxy, starts a watcher goroutine that closes*)
(* the connection when the context ends, runs the CONNECT exchange, marks  *)
(* the handshake done under mu, stops the watcher and decides what to      *)
(* return.  The watcher's test of handshakeDone and its Close are one      *)
(* critical section.  The proxy may answer, refuse, hang up or stay silent.*)
(***************************************************************************)

VARIABLES
  dialer,          \* where the dialer is; "returned" at the end
  watcher,         \* the watcher: "none", "waiting", "woken" or "gone"
  hasDeadline,     \* the caller's context has a deadline
  expired,         \* the time of that deadline has passed
  dialDone,        \* ctx.Err() # nil
  conn,            \* the connection to the proxy: "none", "open" or "closed"
  deadline,        \* the connection's own deadline is armed
  reply,           \* the proxy's answer
  handshakeOk,     \* connectHandshake returned no error
  handshakeDone,   \* the flag of the same name, under mu
  stopped,         \* watcherStopped is closed
  outcome          \* what connectDialer returned

dialVars == <<dialer, watcher, hasDeadline, expired, dialDone, conn, deadline, reply,
          handshakeOk, handshakeDone, stopped, outcome>>
envVars == <<hasDeadline, expired, dialDone, reply>>
syncVars == <<handshakeDone, stopped>>

Stage == {"check", "dial", "arm", "write", "read", "clear", "mark", "stop",
          "resolve", "report", "returned"}
Failure == {"bad address", "no proxy", "canceled", "handshake failed"}

DialTypeOK ==
  /\ dialer \in Stage
  /\ watcher \in {"none", "waiting", "woken", "gone"}
  /\ hasDeadline \in BOOLEAN
  /\ expired \in BOOLEAN
  /\ dialDone \in BOOLEAN
  /\ conn \in {"none", "open", "closed"}
  /\ deadline \in BOOLEAN
  /\ reply \in {"none", "established", "refused", "broken"}
  /\ handshakeOk \in BOOLEAN
  /\ handshakeDone \in BOOLEAN
  /\ stopped \in BOOLEAN
  /\ outcome \in Failure \cup {"none", "tunnel"}

DialInit ==
  /\ dialer = "check"
  /\ watcher = "none"
  /\ hasDeadline \in BOOLEAN
  /\ expired = FALSE
  /\ dialDone = FALSE
  /\ conn = "none"
  /\ deadline = FALSE
  /\ reply = "none"
  /\ handshakeOk = FALSE
  /\ handshakeDone = FALSE
  /\ stopped = FALSE
  /\ outcome = "none"

-----------------------------------------------------------------------------
(* The caller cancels, time passes, the proxy answers or hangs up. *)
Cancel ==
  /\ ~dialDone
  /\ dialDone' = TRUE
  /\ UNCHANGED <<dialer, watcher, hasDeadline, expired, conn, deadline, reply,
                 handshakeOk, syncVars, outcome>>

DeadlinePasses ==
  /\ hasDeadline
  /\ ~expired
  /\ expired' = TRUE
  /\ UNCHANGED <<dialer, watcher, hasDeadline, dialDone, conn, deadline, reply,
                 handshakeOk, syncVars, outcome>>

ContextExpires == expired /\ Cancel

ProxyAnswers ==
  /\ dialer = "read"
  /\ reply = "none"
  /\ reply' \in {"established", "refused", "broken"}
  /\ UNCHANGED <<dialer, watcher, hasDeadline, expired, dialDone, conn, deadline,
                 handshakeOk, syncVars, outcome>>

-----------------------------------------------------------------------------
DialGoto(from, to) == dialer = from /\ dialer' = to

ReturnError(from, err) ==
  /\ DialGoto(from, "returned")
  /\ outcome' = err
  /\ UNCHANGED <<envVars, watcher, conn, deadline, handshakeOk, syncVars>>

(* CR, LF or no host:port; a proxy that cannot be reached, or a context    *)
(* that ended before it was.                                               *)
RejectAddress == ReturnError("check", "bad address")
DialFails == ReturnError("dial", "no proxy")

AcceptAddress ==
  /\ DialGoto("check", "dial")
  /\ UNCHANGED <<envVars, watcher, conn, deadline, handshakeOk, syncVars, outcome>>

(* Mutant: the error of dialProxy is ignored. *)
DialProxyIgnored ==
  /\ DialGoto("dial", "arm")
  /\ ~dialDone
  /\ conn' \in {"open", "nil"}
  /\ watcher' = "waiting"
  /\ UNCHANGED <<envVars, deadline, handshakeOk, syncVars, outcome>>

(* dialProxy, and the watcher is started. *)
DialProxy ==
  /\ DialGoto("dial", "arm")
  /\ ~dialDone
  /\ conn' = "open"
  /\ watcher' = "waiting"
  /\ UNCHANGED <<envVars, deadline, handshakeOk, syncVars, outcome>>

(* The operations of connectHandshake on the connection, in order; each    *)
(* fails once the connection is closed or its deadline has passed.         *)
Usable == conn = "open" /\ ~(deadline /\ expired)

HandshakeStep(from, to) ==
  /\ DialGoto(from, to)
  /\ UNCHANGED <<envVars, watcher, conn, handshakeOk, syncVars, outcome>>

ArmDeadline ==
  /\ HandshakeStep("arm", "write")
  /\ hasDeadline => conn = "open"
  /\ deadline' = hasDeadline

WriteRequest == HandshakeStep("write", "read") /\ Usable /\ UNCHANGED deadline

ReadReply ==
  /\ HandshakeStep("read", "clear")
  /\ conn = "open"
  /\ reply = "established"
  /\ UNCHANGED deadline

HandshakeFails ==
  /\ \/ HandshakeStep("arm", "mark") /\ hasDeadline /\ conn # "open"
     \/ HandshakeStep("write", "mark")
     \/ HandshakeStep("read", "mark") /\ (~Usable \/ reply \in {"refused", "broken"})
     \/ HandshakeStep("clear", "mark") /\ conn # "open"
  /\ UNCHANGED deadline

ClearDeadline ==
  /\ DialGoto("clear", "mark")
  /\ conn = "open"
  /\ deadline' = FALSE
  /\ handshakeOk' = TRUE
  /\ UNCHANGED <<envVars, watcher, conn, syncVars, outcome>>

MarkDone ==
  /\ DialGoto("mark", "stop")
  /\ handshakeDone' = TRUE
  /\ UNCHANGED <<envVars, watcher, conn, deadline, handshakeOk, stopped, outcome>>

(* Mutant: watcherStopped is never closed. *)
StopWatcherForgotten ==
  /\ DialGoto("stop", "resolve")
  /\ UNCHANGED <<envVars, watcher, conn, deadline, handshakeOk, handshakeDone,
                 stopped, outcome>>

StopWatcher ==
  /\ DialGoto("stop", "resolve")
  /\ stopped' = TRUE
  /\ UNCHANGED <<envVars, watcher, conn, deadline, handshakeOk, handshakeDone, outcome>>

(* resolveConnectResult: close and report, or hand the tunnel over. *)
Resolve ==
  /\ dialer = "resolve"
  /\ IF handshakeOk /\ ~dialDone
     THEN dialer' = "returned" /\ outcome' = "tunnel" /\ UNCHANGED conn
     ELSE dialer' = "report" /\ conn' = "closed" /\ UNCHANGED outcome
  /\ UNCHANGED <<envVars, watcher, deadline, handshakeOk, syncVars>>

Report == ReturnError("report", IF dialDone THEN "canceled" ELSE "handshake failed")

Dial ==
  \/ RejectAddress
  \/ AcceptAddress
  \/ DialFails
  \/ DialProxy
  \/ ArmDeadline
  \/ WriteRequest
  \/ ReadReply
  \/ HandshakeFails
  \/ ClearDeadline
  \/ MarkDone
  \/ StopWatcher
  \/ Resolve
  \/ Report

-----------------------------------------------------------------------------
(* The watcher's select: with both channels ready it may take either. *)
WatcherWakes ==
  /\ watcher = "waiting"
  /\ dialDone
  /\ watcher' = "woken"
  /\ UNCHANGED <<envVars, dialer, conn, deadline, handshakeOk, syncVars, outcome>>

WatcherReleased ==
  /\ watcher = "waiting"
  /\ stopped
  /\ watcher' = "gone"
  /\ UNCHANGED <<envVars, dialer, conn, deadline, handshakeOk, syncVars, outcome>>

(* Mutant: the watcher closes without looking at handshakeDone. *)
WatcherInterruptsAlways ==
  /\ watcher = "woken"
  /\ watcher' = "gone"
  /\ conn' = "closed"
  /\ UNCHANGED <<envVars, dialer, deadline, handshakeOk, syncVars, outcome>>

WatcherInterrupts ==
  /\ watcher = "woken"
  /\ watcher' = "gone"
  /\ conn' = IF handshakeDone THEN conn ELSE "closed"
  /\ UNCHANGED <<envVars, dialer, deadline, handshakeOk, syncVars, outcome>>

Watch == WatcherWakes \/ WatcherReleased \/ WatcherInterrupts

DialOver == dialer = "returned" /\ watcher \in {"none", "gone"} /\ UNCHANGED dialVars

DialNext ==
  \/ Cancel \/ DeadlinePasses \/ ContextExpires \/ ProxyAnswers
  \/ Dial \/ Watch \/ DialOver

(* Goroutines are scheduled and time passes.  Nobody promises that the     *)
(* caller cancels or that the proxy ever answers.                          *)
DialSpec ==
  /\ DialInit /\ [][DialNext]_dialVars
  /\ WF_dialVars(Dial)
  /\ WF_dialVars(Watch)
  /\ WF_dialVars(DeadlinePasses)
  /\ WF_dialVars(ContextExpires)

-----------------------------------------------------------------------------
(* What the dial returns is sound whichever way the cancellation falls: a  *)
(* tunnel is open, stays open whatever the watcher still does, and carries *)
(* no deadline of the handshake; an error leaves no open connection.       *)
TunnelOrNothing ==
  /\ outcome = "tunnel" => conn = "open" /\ ~deadline
  /\ outcome \in Failure => conn # "open"

(* A dial whose context ends, ends, even against a silent proxy; and then  *)
(* the watcher ends too.                                                   *)
DialEnds ==
  /\ (dialDone \/ hasDeadline) ~> (dialer = "returned")
  /\ (dialer = "returned") ~> (watcher \in {"none", "gone"})
=============================================================================
