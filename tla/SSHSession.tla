----------------------------- MODULE SSHSession -----------------------------
(***************************************************************************)
(* The SSH session of the native helper (cmd/tether/ssh_session.go).       *)
(*                                                                         *)
(* One sshSession object owns the status shown to the extension, the       *)
(* private upstream that the loopback proxy dials and, through one         *)
(* goroutine per Connect, at most one SSH child process.  Every Connect    *)
(* that is not a repetition of the current one starts a new session: it    *)
(* takes a fresh nonce, cancels its predecessor and waits for it to be     *)
(* reaped.  The nonces are random and never reused, so a session is        *)
(* identified here by its place in the order of the Connects, and          *)
(* status.sid = 0 stands for the empty SessionID.                          *)
(*                                                                         *)
(* Every critical section of s.mu is one action.  Time is abstracted: a    *)
(* timer may fire at any moment after it was set.  Ports are abstracted: a *)
(* Connect refused for its port, or for a port it cannot reserve, changes  *)
(* nothing.                                                                *)
(***************************************************************************)
EXTENDS Integers

CONSTANTS Hosts,             \* the SSH hosts a user may ask for
          NetBirdHosts,      \* the hosts reached through the NetBird proxy
          NoHost,            \* the empty host name
          MaxSessions,       \* bound on the Connects that start a session
          ProbeFailureLimit  \* probeFailureLimit

ASSUME HostAssumption == NoHost \notin Hosts /\ NetBirdHosts \subseteq Hosts
ASSUME SessionAssumption == MaxSessions \in Nat \ {0}
ASSUME ProbeAssumption == ProbeFailureLimit \in Nat \ {0}

Sessions == 1..MaxSessions

VARIABLES
  status,       \* s.status: what the extension is told
  signedIn,     \* s.signedIn
  upstream,     \* the session behind s.upstream and s.httpProxy, 0 for none
  controlPath,  \* the session behind s.controlPath, 0 for none
  latest,       \* the session that s.ctx, s.cancel, s.done, s.wake belong to
  closed,       \* s.closed
  closeDone,    \* Close has returned
  hostDone,     \* the native host's own context is cancelled
  activeHost,   \* the contents of the active_host file
  pc,           \* where the goroutine of each session is
  cancelled,    \* ctx.Err() # nil, per session
  wake,         \* a token waits in the session's wake channel
  ever,         \* everConnected
  result,       \* what the last runSSH returned
  child,        \* the SSH child process
  timer,        \* which timeout waitReady is on
  failures,     \* failed probes in a row
  stdout,       \* a sign-in line that the stdout reader took, not yet noted
  orphan        \* the same, of a reader whose attempt is over

shared == <<status, signedIn, upstream, controlPath, activeHost>>
calls  == <<latest, closed, closeDone, hostDone>>
local  == <<pc, cancelled, wake, ever, result, child, timer, failures,
            stdout, orphan>>
vars   == <<shared, calls, local>>

-----------------------------------------------------------------------------

States   == {"disconnected", "connecting", "connected"}
Links    == {"none", "live", "dead"}   \* whose attempt printed the link
Lines    == {"none", "link", "wait"}
Results  == {"nil", "error", "signin"}
ChildPcs == {"ssh", "signin", "forward", "publish", "serving", "ending"}
Pcs      == {"idle", "wait", "loop", "enter", "setup", "ended", "backoff",
             "done"} \cup ChildPcs

Status == [state : States, host : Hosts \cup {NoHost}, sid : 0..MaxSessions,
           error : BOOLEAN, link : Links, auth : BOOLEAN,
           signInRequired : BOOLEAN]

Init ==
  /\ status = [state |-> "disconnected", host |-> NoHost, sid |-> 0,
               error |-> FALSE, link |-> "none", auth |-> FALSE,
               signInRequired |-> FALSE]
  /\ signedIn = FALSE
  /\ upstream = 0
  /\ controlPath = 0
  /\ latest = 0
  /\ closed = FALSE
  /\ closeDone = FALSE
  /\ hostDone = FALSE
  /\ activeHost = NoHost
  /\ pc = [s \in Sessions |-> "idle"]
  /\ cancelled = [s \in Sessions |-> FALSE]
  /\ wake = [s \in Sessions |-> FALSE]
  /\ ever = [s \in Sessions |-> FALSE]
  /\ result = [s \in Sessions |-> "nil"]
  /\ child = [s \in Sessions |-> "none"]
  /\ timer = [s \in Sessions |-> "setup"]
  /\ failures = [s \in Sessions |-> 0]
  /\ stdout = [s \in Sessions |-> "none"]
  /\ orphan = [s \in Sessions |-> "none"]

\* clearActiveHost, after its getActiveHost() == host test.
ForgetHost(h) == activeHost' = IF activeHost = h THEN NoHost ELSE activeHost

\* s.cancel(), when there is a session to cancel.
CancelLatest == [s \in Sessions |-> cancelled[s] \/ s = latest]

-----------------------------------------------------------------------------
(* Requests of the extension and of the native host's lifetime.            *)

Repeats(h) == status.host = h /\ status.state \in {"connected", "connecting"}

\* Connect of the host already wanted: no new session.  While the session is
\* between two attempts, or in a retry, the request cuts the wait short.
ConnectAgain(h) ==
  /\ ~closed
  /\ Repeats(h)
  /\ status.state = "connecting" /\ status.error
  /\ wake' = [wake EXCEPT ![latest] = TRUE]
  /\ UNCHANGED <<shared, calls, pc, cancelled, ever, result, child, timer,
                 failures, stdout, orphan>>

\* Connect of another host, or of any host while disconnected.
ConnectNew(h) ==
  /\ ~closed
  /\ ~Repeats(h)
  /\ latest < MaxSessions
  /\ latest' = latest + 1
  /\ cancelled' = [CancelLatest EXCEPT ![latest + 1] = hostDone]
  /\ upstream' = 0
  /\ status' = [state |-> "connecting", host |-> h, sid |-> latest + 1,
                error |-> FALSE, link |-> "none", auth |-> FALSE,
                signInRequired |-> FALSE]
  /\ pc' = [pc EXCEPT ![latest + 1] = "wait"]
  /\ UNCHANGED <<signedIn, controlPath, activeHost, closed, closeDone,
                 hostDone, wake, ever, result, child, timer, failures,
                 stdout, orphan>>

Disconnect ==
  /\ cancelled' = CancelLatest
  /\ ForgetHost(status.host)
  /\ status' = [status EXCEPT !.state = "disconnected", !.sid = 0,
                              !.error = FALSE, !.link = "none",
                              !.auth = FALSE, !.signInRequired = FALSE]
  /\ upstream' = 0
  /\ controlPath' = 0
  /\ UNCHANGED <<signedIn, calls, pc, wake, ever, result, child, timer,
                 failures, stdout, orphan>>

\* Mutant: the session is marked, but its context is not cancelled.
CloseWithoutCancel ==
  /\ ~closed
  /\ closed' = TRUE
  /\ status' = [status EXCEPT !.state = "disconnected", !.link = "none",
                              !.auth = FALSE]
  /\ upstream' = 0 /\ controlPath' = 0
  /\ ForgetHost(status.host)
  /\ UNCHANGED <<signedIn, latest, closeDone, hostDone, local>>

\* The locked part of Close.
Close ==
  /\ ~closed
  /\ closed' = TRUE
  /\ cancelled' = CancelLatest
  /\ status' = [status EXCEPT !.state = "disconnected", !.link = "none",
                              !.auth = FALSE]
  /\ upstream' = 0
  /\ controlPath' = 0
  /\ IF status.host # NoHost THEN ForgetHost(status.host)
                             ELSE UNCHANGED activeHost
  /\ UNCHANGED <<signedIn, latest, closeDone, hostDone, pc, wake, ever,
                 result, child, timer, failures, stdout, orphan>>

\* The rest of Close: it waits for the done channel of the latest session.
CloseReturn ==
  /\ closed /\ ~closeDone
  /\ latest # 0 => pc[latest] = "done"
  /\ closeDone' = TRUE
  /\ UNCHANGED <<shared, latest, closed, hostDone, local>>

\* SIGTERM or SIGINT: the parent context of every session is cancelled, and
\* nothing takes the lock.
HostSignal ==
  /\ ~hostDone
  /\ hostDone' = TRUE
  /\ cancelled' = [s \in Sessions |-> cancelled[s] \/ s <= latest]
  /\ UNCHANGED <<shared, latest, closed, closeDone, pc, wake, ever, result,
                 child, timer, failures, stdout, orphan>>

-----------------------------------------------------------------------------
(* The goroutine of a session: wait for the predecessor, then loop.        *)

\* The goroutine returns: its deferred calls cancel the context and close done,
\* and its own variables are gone.
Finish(s) ==
  /\ pc' = [pc EXCEPT ![s] = "done"]
  /\ cancelled' = [cancelled EXCEPT ![s] = TRUE]
  /\ ever' = [ever EXCEPT ![s] = FALSE]
  /\ result' = [result EXCEPT ![s] = "nil"]

\* Mutant: a session that was cancelled while it waited does not wait on.
WaitPreviousUnlessCancelled(s) ==
  /\ pc[s] = "wait"
  /\ s > 1 => pc[s - 1] = "done" \/ cancelled[s]
  /\ pc' = [pc EXCEPT ![s] = "loop"]
  /\ UNCHANGED <<shared, calls, cancelled, wake, ever, result, child, timer,
                 failures, stdout, orphan>>

WaitPrevious(s) ==
  /\ pc[s] = "wait"
  /\ s > 1 => pc[s - 1] = "done"
  /\ pc' = [pc EXCEPT ![s] = "loop"]
  /\ UNCHANGED <<shared, calls, cancelled, wake, ever, result, child, timer,
                 failures, stdout, orphan>>

\* The loop condition.
Loop(s) ==
  /\ pc[s] = "loop"
  /\ IF cancelled[s]
       THEN Finish(s)
       ELSE /\ pc' = [pc EXCEPT ![s] = "enter"]
            /\ UNCHANGED <<cancelled, ever, result>>
  /\ UNCHANGED <<shared, calls, wake, child, timer, failures, stdout, orphan>>

Enter(s) ==
  /\ pc[s] = "enter"
  /\ signedIn' = FALSE
  /\ pc' = [pc EXCEPT ![s] = "setup"]
  /\ UNCHANGED <<status, upstream, controlPath, activeHost, calls, cancelled,
                 wake, ever, result, child, timer, failures, stdout, orphan>>

\* Mutant: the nonce is compared, the context is not.
OwnsByNonce(s) == status.sid = s

\* The result of a finished attempt is only used by the session that still
\* owns the status.
Owns(s) == ~cancelled[s] /\ status.sid = s

ResultIgnored(s) ==
  /\ pc[s] = "ended"
  /\ ~Owns(s)
  /\ Finish(s)
  /\ UNCHANGED <<shared, calls, wake, child, timer, failures, stdout, orphan>>

EverUp(s)   == ever[s] \/ upstream # 0
AuthStopped == ~signedIn /\ (status.auth \/ status.link # "none")
GivesUp(s)  == ~EverUp(s) \/ result[s] = "signin" \/ AuthStopped

ResultStops(s) ==
  /\ pc[s] = "ended"
  /\ Owns(s)
  /\ GivesUp(s)
  /\ upstream' = 0
  /\ controlPath' = 0
  /\ status' = [status EXCEPT !.state = "disconnected", !.link = "none",
                              !.error = @ \/ result[s] # "nil",
                              !.signInRequired = (result[s] = "signin")]
  /\ ForgetHost(status.host)
  /\ Finish(s)
  /\ UNCHANGED <<signedIn, calls, wake, child, timer, failures, stdout,
                 orphan>>

ResultRetries(s) ==
  /\ pc[s] = "ended"
  /\ Owns(s)
  /\ ~GivesUp(s)
  /\ upstream' = 0
  /\ controlPath' = 0
  /\ status' = [status EXCEPT !.state = "connecting", !.link = "none",
                              !.error = @ \/ result[s] # "nil",
                              !.auth = FALSE]
  /\ ever' = [ever EXCEPT ![s] = TRUE]
  /\ result' = [result EXCEPT ![s] = "nil"]
  /\ pc' = [pc EXCEPT ![s] = "backoff"]
  /\ UNCHANGED <<signedIn, activeHost, calls, cancelled, wake, child, timer,
                 failures, stdout, orphan>>

\* The select between ctx.Done, wake and time.After(delay).
BackoffCancelled(s) ==
  /\ pc[s] = "backoff" /\ cancelled[s]
  /\ Finish(s)
  /\ UNCHANGED <<shared, calls, wake, child, timer, failures, stdout, orphan>>

BackoffOver(s) ==
  /\ pc[s] = "backoff"
  /\ pc' = [pc EXCEPT ![s] = "loop"]
  /\ \/ wake[s] /\ wake' = [wake EXCEPT ![s] = FALSE]
     \/ UNCHANGED wake
  /\ UNCHANGED <<shared, calls, cancelled, ever, result, child, timer,
                 failures, stdout, orphan>>

-----------------------------------------------------------------------------
(* One attempt: sshSession.run.                                            *)

\* Mutant: the result is taken while the child is still there.
ReturnUnreaped(s, r) ==
  /\ pc' = [pc EXCEPT ![s] = "ended"]
  /\ result' = [result EXCEPT ![s] = r]
  /\ UNCHANGED <<calls, cancelled, wake, ever, child, timer, stdout, orphan>>

\* Return r from run: the deferred calls of "ending" follow.
Return(s, r) ==
  /\ pc' = [pc EXCEPT ![s] = "ending"]
  /\ result' = [result EXCEPT ![s] = r]
  /\ UNCHANGED <<calls, cancelled, wake, ever, child, timer, stdout, orphan>>

\* Token, local daemon, control directory or cmd.Start failed; CommandContext
\* refuses to start a command whose context is cancelled.
SetupFails(s) ==
  /\ pc[s] = "setup"
  /\ pc' = [pc EXCEPT ![s] = "ended"]
  /\ result' = [result EXCEPT ![s] = "error"]
  /\ UNCHANGED <<shared, calls, cancelled, wake, ever, child, timer,
                 failures, stdout, orphan>>

StartChild(s) ==
  /\ pc[s] = "setup"
  /\ ~cancelled[s]
  /\ child' = [child EXCEPT ![s] = "alive"]
  /\ pc' = [pc EXCEPT ![s] = "ssh"]
  /\ UNCHANGED <<shared, calls, cancelled, wake, ever, result, timer,
                 failures, stdout, orphan>>

\* waitReady takes the sign-in signal and extends its timeout, once.
TakeSignIn(s) ==
  /\ pc[s] = "ssh"
  /\ timer[s] = "signalled"
  /\ timer' = [timer EXCEPT ![s] = "signin"]
  /\ UNCHANGED <<shared, calls, pc, cancelled, wake, ever, result, child,
                 failures, stdout, orphan>>

\* The readiness marker: the lines before it have been noted by then.
Ready(s) ==
  /\ pc[s] = "ssh"
  /\ ~cancelled[s] /\ stdout[s] = "none"
  /\ pc' = [pc EXCEPT ![s] = "signin"]
  /\ UNCHANGED <<shared, calls, cancelled, wake, ever, result, child, timer,
                 failures, stdout, orphan>>

NotReady(s) ==
  /\ pc[s] = "ssh"
  /\ \/ cancelled[s] /\ Return(s, "nil")
     \/ ~cancelled[s] /\ child[s] = "exited" /\ stdout[s] = "none"
          /\ Return(s, "error")
     \/ ~cancelled[s]
          /\ Return(s, IF timer[s] = "signin" THEN "signin" ELSE "error")
  /\ UNCHANGED <<shared, failures>>

completeSignIn(s) ==
  /\ pc[s] = "signin"
  /\ IF status.sid = s
       THEN /\ signedIn' = TRUE
            /\ status' = [status EXCEPT !.link = "none", !.auth = FALSE]
       ELSE UNCHANGED <<signedIn, status>>
  /\ pc' = [pc EXCEPT ![s] = "forward"]
  /\ UNCHANGED <<upstream, controlPath, activeHost, calls, cancelled, wake,
                 ever, result, child, timer, failures, stdout, orphan>>

\* The private proxy is opened and the reverse forward verified.
Forward(s) ==
  /\ pc[s] = "forward"
  /\ child[s] = "alive"
  /\ pc' = [pc EXCEPT ![s] = "publish"]
  /\ UNCHANGED <<shared, calls, cancelled, wake, ever, result, child, timer,
                 failures, stdout, orphan>>

ForwardFails(s) ==
  /\ pc[s] = "forward"
  /\ Return(s, "error")
  /\ UNCHANGED <<shared, failures>>

\* Mutant: the session is not checked again under the lock.
PublishUnchecked(s) ==
  /\ pc[s] = "publish"
  /\ status' = [status EXCEPT !.state = "connected", !.error = FALSE,
                              !.link = "none"]
  /\ upstream' = s /\ controlPath' = s /\ activeHost' = status.host
  /\ pc' = [pc EXCEPT ![s] = "serving"]
  /\ UNCHANGED <<signedIn, calls, cancelled, wake, ever, result, child,
                 timer, failures, stdout, orphan>>

Publish(s) ==
  /\ pc[s] = "publish"
  /\ Owns(s)
  /\ status' = [status EXCEPT !.state = "connected", !.error = FALSE,
                              !.link = "none"]
  /\ upstream' = s
  /\ controlPath' = s
  /\ activeHost' = status.host
  /\ pc' = [pc EXCEPT ![s] = "serving"]
  /\ UNCHANGED <<signedIn, calls, cancelled, wake, ever, result, child,
                 timer, failures, stdout, orphan>>

PublishRefused(s) ==
  /\ pc[s] = "publish"
  /\ ~Owns(s)
  /\ Return(s, "nil")
  /\ UNCHANGED <<shared, failures>>

\* The probe loop.
ProbeOK(s) ==
  /\ pc[s] = "serving"
  /\ child[s] = "alive" /\ ~cancelled[s]
  /\ failures' = [failures EXCEPT ![s] = 0]
  /\ UNCHANGED <<shared, calls, pc, cancelled, wake, ever, result, child,
                 timer, stdout, orphan>>

\* Mutant: one failure too many is tolerated.
ProbeFailsOnceMore(s) ==
  /\ pc[s] = "serving"
  /\ failures' = [failures EXCEPT ![s] = @ + 1]
  /\ IF failures[s] + 1 > ProbeFailureLimit
       THEN Return(s, "error")
       ELSE UNCHANGED <<calls, pc, cancelled, wake, ever, result, child,
                        timer, stdout, orphan>>
  /\ UNCHANGED shared

ProbeFails(s) ==
  /\ pc[s] = "serving"
  /\ failures' = [failures EXCEPT ![s] = @ + 1]
  /\ IF failures[s] + 1 >= ProbeFailureLimit
       THEN Return(s, "error")
       ELSE UNCHANGED <<calls, pc, cancelled, wake, ever, result, child,
                        timer, stdout, orphan>>
  /\ UNCHANGED shared

ServingEnds(s) ==
  /\ pc[s] = "serving"
  /\ \/ cancelled[s] /\ Return(s, "nil")
     \/ child[s] = "exited" /\ Return(s, "error")
  /\ UNCHANGED <<shared, failures>>

\* The deferred calls: close the private proxy, kill the child and wait for
\* it; the variables of run are gone.  The stdout reader is not joined: a line it
\* holds outlives the attempt.  One such line per session is remembered.
Reap(s) ==
  /\ pc[s] = "ending"
  /\ child' = [child EXCEPT ![s] = "none"]
  /\ \/ stdout[s] # "none" /\ orphan' = [orphan EXCEPT ![s] = stdout[s]]
     \/ (stdout[s] # "none" => orphan[s] # "none") /\ UNCHANGED orphan
  /\ stdout' = [stdout EXCEPT ![s] = "none"]
  /\ timer' = [timer EXCEPT ![s] = "setup"]
  /\ failures' = [failures EXCEPT ![s] = 0]
  /\ pc' = [pc EXCEPT ![s] = "ended"]
  /\ UNCHANGED <<shared, calls, cancelled, wake, ever, result>>

-----------------------------------------------------------------------------
(* The readers of the child's output, which note what asks for a sign-in.  *)

\* setSignInURL and setAuthWait accept a note only from the session that is
\* connecting and has not passed authentication.
Accepts(s) ==
  /\ ~signedIn
  /\ status.sid = s
  /\ status.state = "connecting"

\* A note that is news also signals waitReady.
Signal(s) ==
  timer' = [timer EXCEPT ![s] = IF @ = "setup" THEN "signalled" ELSE @]

setSignInURL(s, tag) ==
  IF Accepts(s) /\ status.link # tag
    THEN /\ status' = [status EXCEPT !.link = tag]
         /\ IF tag = "live" THEN Signal(s) ELSE UNCHANGED timer
    ELSE UNCHANGED <<status, timer>>

setAuthWait(s, signals) ==
  IF Accepts(s) /\ ~status.auth /\ status.host \in NetBirdHosts
    THEN /\ status' = [status EXCEPT !.auth = TRUE]
         /\ IF signals THEN Signal(s) ELSE UNCHANGED timer
    ELSE UNCHANGED <<status, timer>>

\* The stderr writer is joined by cmd.Wait: it notes while the child is there.
\* A NetBird failure is noted without a signal.
StderrLine(s) ==
  /\ child[s] # "none"
  /\ \/ setSignInURL(s, "live")
     \/ \E signals \in BOOLEAN : setAuthWait(s, signals)
  /\ UNCHANGED <<signedIn, upstream, controlPath, activeHost, calls, pc,
                 cancelled, wake, ever, result, child, failures, stdout,
                 orphan>>

\* The stdout reader takes a line before the readiness marker, then notes it.
StdoutLine(s) ==
  /\ pc[s] = "ssh"
  /\ stdout[s] = "none"
  /\ \E line \in Lines \ {"none"} : stdout' = [stdout EXCEPT ![s] = line]
  /\ UNCHANGED <<shared, calls, pc, cancelled, wake, ever, result, child,
                 timer, failures, orphan>>

StdoutNote(s) ==
  /\ stdout[s] # "none"
  /\ IF stdout[s] = "link" THEN setSignInURL(s, "live")
                           ELSE setAuthWait(s, TRUE)
  /\ stdout' = [stdout EXCEPT ![s] = "none"]
  /\ UNCHANGED <<signedIn, upstream, controlPath, activeHost, calls, pc,
                 cancelled, wake, ever, result, child, failures, orphan>>

\* The same note, after its attempt is over; nobody receives its signal.
OrphanNote(s) ==
  /\ orphan[s] # "none"
  /\ IF orphan[s] = "link" THEN setSignInURL(s, "dead")
                           ELSE setAuthWait(s, FALSE)
  /\ orphan' = [orphan EXCEPT ![s] = "none"]
  /\ UNCHANGED <<signedIn, upstream, controlPath, activeHost, calls, pc,
                 cancelled, wake, ever, result, child, failures, stdout>>

\* The child or its connection dies, at any moment.
ChildExits(s) ==
  /\ child[s] = "alive"
  /\ child' = [child EXCEPT ![s] = "exited"]
  /\ UNCHANGED <<shared, calls, pc, cancelled, wake, ever, result, timer,
                 failures, stdout, orphan>>

-----------------------------------------------------------------------------

Requests ==
  \/ \E h \in Hosts : ConnectAgain(h) \/ ConnectNew(h)
  \/ Disconnect
  \/ Close \/ CloseReturn \/ HostSignal

Goroutine(s) ==
  \/ WaitPrevious(s) \/ Loop(s) \/ Enter(s)
  \/ ResultIgnored(s) \/ ResultStops(s) \/ ResultRetries(s)
  \/ BackoffCancelled(s) \/ BackoffOver(s)

Attempt(s) ==
  \/ SetupFails(s) \/ StartChild(s)
  \/ Ready(s) \/ NotReady(s)
  \/ completeSignIn(s)
  \/ Forward(s) \/ ForwardFails(s)
  \/ Publish(s) \/ PublishRefused(s)
  \/ ServingEnds(s)
  \/ Reap(s)

Probe(s)   == ProbeOK(s) \/ ProbeFails(s)
Readers(s) == TakeSignIn(s) \/ StderrLine(s) \/ StdoutLine(s)
                \/ StdoutNote(s) \/ OrphanNote(s)

Next ==
  \/ Requests
  \/ \E s \in Sessions : Goroutine(s) \/ Attempt(s) \/ Probe(s)
                            \/ Readers(s) \/ ChildExits(s)

Spec == Init /\ [][Next]_vars

\* The Go scheduler runs every runnable goroutine, timers fire, a killed child
\* is reaped; Close, once entered, runs on.  Users, the network and probes
\* owe nothing.
Fairness ==
  /\ \A s \in Sessions : WF_vars(Goroutine(s) \/ Attempt(s))
  /\ WF_vars(CloseReturn)

FairSpec == Spec /\ Fairness

-----------------------------------------------------------------------------
(* Properties.                                                             *)

TypeOK ==
  /\ status \in Status
  /\ signedIn \in BOOLEAN
  /\ upstream \in 0..MaxSessions
  /\ controlPath \in 0..MaxSessions
  /\ latest \in 0..MaxSessions
  /\ closed \in BOOLEAN
  /\ closeDone \in BOOLEAN
  /\ hostDone \in BOOLEAN
  /\ activeHost \in Hosts \cup {NoHost}
  /\ pc \in [Sessions -> Pcs]
  /\ cancelled \in [Sessions -> BOOLEAN]
  /\ wake \in [Sessions -> BOOLEAN]
  /\ ever \in [Sessions -> BOOLEAN]
  /\ result \in [Sessions -> Results]
  /\ child \in [Sessions -> {"none", "alive", "exited"}]
  /\ timer \in [Sessions -> {"setup", "signalled", "signin"}]
  /\ failures \in [Sessions -> 0..ProbeFailureLimit]
  /\ stdout \in [Sessions -> Lines]
  /\ orphan \in [Sessions -> Lines]

\* Two sessions never have an SSH child at the same time, so they never
\* compete for the remote reverse port (ssh_session.go:182-185).
OneChild ==
  \A s, t \in Sessions : child[s] # "none" /\ child[t] # "none" => s = t

\* What is published as connected is the session that owns the status, its
\* upstream and its control master, and its goroutine is still there to take
\* it back; only a native host that is shutting down leaves it behind.
ConnectedIsCurrent ==
  /\ status.state = "connected" =>
       /\ status.sid # 0 /\ status.sid = latest
       /\ upstream = latest /\ controlPath = latest
       /\ pc[latest] \in {"serving", "ending", "ended"} \/ hostDone
  /\ upstream # 0 => status.state = "connected"

\* Once the attempt has passed SSH authentication nothing on the status asks
\* for a sign-in, whatever the readers still deliver (ssh_session.go:92-94).
NoSignInAfterAuthentication ==
  signedIn => status.link = "none" /\ ~status.auth

\* The active_host file never names the host the helper shows as disconnected.
ActiveHostFollows ==
  status.state = "disconnected" /\ status.host # NoHost
    => activeHost # status.host

\* What a status request reports is true of the process: the session shown, the
\* sign-in asked for and the file that names the host.
StatusIsTrue ==
  ConnectedIsCurrent /\ NoSignInAfterAuthentication /\ ActiveHostFollows

\* When Close has returned no session is left, not even a superseded one that
\* Close does not wait for itself.
CloseReapsAll ==
  closeDone => \A s \in Sessions : pc[s] \in {"idle", "done"}
                                     /\ child[s] = "none"

\* The goroutine of a session that does not own the status, because of
\* Disconnect, Close or a newer Connect, changes nothing of what is published.
StaleSessionSilent ==
  [][\A s \in Sessions :
       pc[s] # "idle" /\ pc'[s] # pc[s] /\ (status.sid # s \/ closed)
         => /\ upstream' = upstream /\ controlPath' = controlPath
            /\ activeHost' = activeHost
            /\ status'.state = status.state /\ status'.error = status.error
            /\ status'.signInRequired = status.signInRequired]_vars

\* A helper that says disconnected says so until a new session is asked for:
\* no attempt brings a connection back behind Disconnect or Close.
DisconnectedSticks ==
  [][status.state = "disconnected" /\ status'.state # "disconnected"
       => latest' = latest + 1 /\ ~closed]_vars

\* A sign-in link on the status belongs to the attempt that is running: the
\* link of a finished attempt is gone once its result was taken
\* (ssh_session.go:38 and 200).  Does not hold: the stdout reader is not joined
\* and may deliver its link after the attempt was judged.
LinkOfThisAttempt ==
  status.link = "dead" => pc[status.sid] = "ended" \/ hostDone

\* The helper implements the contract of RemoteSession: sessions are served
\* in order, one at a time, and the status shown speaks of the right one.
Contract == INSTANCE RemoteSession WITH
  phase    <- status.state,
  owner    <- IF status.state = "disconnected" THEN {} ELSE {status.sid},
  asked    <- 1..latest,
  admitted <- {s \in Sessions : pc[s] \notin {"idle", "wait"}},
  link     <- {s \in Sessions : child[s] # "none"}

KeepsContract == Contract!Spec

\* Every session asked for gets to run its SSH, and a working one that was
\* dropped gets to run it again, unless it is cancelled meanwhile: the chain
\* of predecessors never blocks it.
SessionRuns ==
  \A s \in Sessions :
    pc[s] \in {"wait", "backoff"} ~> pc[s] = "setup" \/ cancelled[s]

\* The loss of the SSH child is noticed: the status does not stay connected on
\* a dead child, unless the native host is going away.
LossIsNoticed ==
  \A s \in Sessions :
    status.state = "connected" /\ status.sid = s /\ child[s] # "alive"
      ~> status.sid # s \/ status.state # "connected" \/ hostDone

\* Close returns: it is never left waiting for a goroutine.
CloseReturns == closed ~> closeDone

\* Nothing that is asked of the helper or happens to its child is forgotten:
\* retries, the loss of a child and Close come to their end.
SessionsLive == SessionRuns /\ LossIsNoticed /\ CloseReturns
=============================================================================
