------------------------------- MODULE Daemon -------------------------------
(***************************************************************************)
(* The local daemon and its browser: runDaemon, ensureDaemonRunning and    *)
(* stopStaleDaemon (cmd/tether/main.go), LaunchChrome (launcher.go) and    *)
(* the proxy port that is recorded with the profile (proxy.go).            *)
(*                                                                         *)
(* Everybody who wants a daemon - a terminal, or a native host on behalf   *)
(* of the extension - looks for one on the RPC port, stops one of an older *)
(* version, starts one when there is none, and waits for it to have a      *)
(* browser.  A daemon binds its proxy, then takes the launch lock of the   *)
(* profile to adopt its Chrome or to start one, and only then the RPC      *)
(* port.  The daemons are the launchers of LaunchLock.                     *)
(*                                                                         *)
(* A daemon and the request that may start it have the same name, and so   *)
(* have the Chrome that it may start and the ephemeral port that it may    *)
(* get.  A status call is answered by whoever holds the RPC port.          *)
(***************************************************************************)
EXTENDS LaunchLock

CONSTANTS Old,         \* the daemons of an older version
          MaxSignals   \* bound on the daemons that are told to stop

ASSUME OldAssumption == Old \subseteq Launchers
ASSUME SignalAssumption == MaxSignals \in Nat

VARIABLES
  at,        \* where each daemon is
  proxy,     \* the port of its forward proxy, None when it is not bound
  browser,   \* what it drives: the Chrome of a daemon, or the extension
  term,      \* the daemons that were sent SIGTERM or SIGINT
  chrome,    \* the Chrome that runs on the profile
  portFile,  \* tether-proxy.port
  rpc,       \* the daemon that listens on 127.0.0.1:9333
  ask        \* ensureDaemonRunning, per request

daemonVars == <<at, proxy, browser, term, chrome, portFile, rpc, ask>>
vars == <<lockVars, daemonVars>>

-----------------------------------------------------------------------------

Requests == Launchers \ Old
Chromes  == [by : Launchers, port : Launchers, ready : BOOLEAN]
Running  == {d \in Launchers : at[d] \notin {"none", "gone", "dead"}}

ASSUME NamesAssumption == "extension" \notin Launchers \cup {None} /\ None \notin Chromes

\* Nothing runs, or a daemon of an older version serves with its own Chrome.
Init ==
  /\ LockInit
  /\ term = {}
  /\ ask = [r \in Requests |-> "idle"]
  /\ \/ /\ at = [d \in Launchers |-> IF d \in Old THEN "gone" ELSE "none"]
        /\ proxy = [d \in Launchers |-> None]
        /\ browser = [d \in Launchers |-> None]
        /\ chrome = None /\ portFile = None /\ rpc = None
     \/ \E o \in Old :
          /\ at = [d \in Launchers |-> IF d = o THEN "serving" ELSE
                                       IF d \in Old THEN "gone" ELSE "none"]
          /\ proxy = [d \in Launchers |-> IF d = o THEN o ELSE None]
          /\ browser = [d \in Launchers |-> IF d = o THEN o ELSE None]
          /\ chrome = [by |-> o, port |-> o, ready |-> TRUE]
          /\ portFile = o /\ rpc = o

Step(d, next) == at' = [at EXCEPT ![d] = next]

\* The Chrome that d has started is gone.
WithoutChromeOf(d) == IF chrome # None /\ chrome.by = d THEN None ELSE chrome

-----------------------------------------------------------------------------
(* ensureDaemonRunning.                                                    *)

Live == rpc # None

\* status.Connected: the browser of the daemon that answers is there.
Healthy == Live /\ \/ browser[rpc] = "extension"
                   \/ chrome # None /\ chrome.by = browser[rpc]

Asking(r, from, to) ==
  /\ ask[r] = from
  /\ ask' = [ask EXCEPT ![r] = to]

StopStaleDaemon(r) ==
  /\ IF Live /\ rpc \in Old
     THEN Asking(r, "idle", "drain") /\ term' = term \cup {rpc}
     ELSE Asking(r, "idle", "check") /\ UNCHANGED term
  /\ UNCHANGED <<lockVars, at, proxy, browser, chrome, portFile, rpc>>

\* The port is free, or another request has started the replacement.
Drained(r) ==
  /\ rpc \notin Old
  /\ Asking(r, "drain", "check")
  /\ UNCHANGED <<lockVars, at, proxy, browser, term, chrome, portFile, rpc>>

Check(r) ==
  /\ IF Healthy THEN Asking(r, "check", "ok") ELSE Asking(r, "check", "status")
  /\ UNCHANGED <<lockVars, at, proxy, browser, term, chrome, portFile, rpc>>

Status(r) ==
  /\ IF Live THEN Asking(r, "status", "poll") ELSE Asking(r, "status", "dial")
  /\ UNCHANGED <<lockVars, at, proxy, browser, term, chrome, portFile, rpc>>

\* A daemon that has come since the last call is taken for a stranger's.
Dial(r) ==
  /\ \/ Live /\ Asking(r, "dial", "failed") /\ UNCHANGED at
     \/ ~Live /\ Asking(r, "dial", "poll") /\ Step(r, "bind")
  /\ UNCHANGED <<lockVars, proxy, browser, term, chrome, portFile, rpc>>

Ready(r) ==
  /\ Healthy
  /\ Asking(r, "poll", "ok")
  /\ UNCHANGED <<lockVars, at, proxy, browser, term, chrome, portFile, rpc>>

\* Ten seconds for the old daemon to go, fifteen for the new one to come.
GiveUp(r) ==
  /\ Asking(r, "drain", "failed") \/ Asking(r, "poll", "failed")
  /\ UNCHANGED <<lockVars, at, proxy, browser, term, chrome, portFile, rpc>>

-----------------------------------------------------------------------------
(* runDaemon, up to its browser.                                           *)

\* The recorded port, when nobody listens on it.
ResolveProxyListener(d) ==
  /\ at[d] = "bind"
  /\ proxy' = [proxy EXCEPT ![d] =
                 IF portFile # None /\ \A e \in Launchers : proxy[e] # portFile
                 THEN portFile ELSE d]
  /\ Step(d, "driver")
  /\ UNCHANGED <<lockVars, browser, term, chrome, portFile, rpc, ask>>

UseExtension(d) ==
  /\ at[d] = "driver"
  /\ browser' = [browser EXCEPT ![d] = "extension"]
  /\ Step(d, "listen")
  /\ UNCHANGED <<lockVars, proxy, term, chrome, portFile, rpc, ask>>

UseChrome(d) ==
  /\ at[d] = "driver"
  /\ Enter(d)
  /\ Step(d, "lock")
  /\ UNCHANGED <<proxy, browser, term, chrome, portFile, rpc, ask>>

NoLock(d) ==
  /\ at[d] = "lock" /\ pc[d] = "failed"
  /\ Step(d, "proxy")
  /\ UNCHANGED <<lockVars, proxy, browser, term, chrome, portFile, rpc, ask>>

\* A live Chrome, started with the proxy that this daemon has bound.
Adoptable(d) == chrome # None /\ chrome.ready /\ portFile = proxy[d]

Adopt(d) ==
  /\ at[d] = "lock" /\ pc[d] = "held"
  /\ Adoptable(d)
  /\ browser' = [browser EXCEPT ![d] = chrome.by]
  /\ Unlock(d)
  /\ Step(d, "unlock")
  /\ UNCHANGED <<proxy, term, chrome, portFile, rpc, ask>>

KillStale(d) ==
  /\ at[d] = "lock" /\ pc[d] = "held"
  /\ ~Adoptable(d)
  /\ chrome' = None
  /\ Step(d, "start")
  /\ UNCHANGED <<lockVars, proxy, browser, term, portFile, rpc, ask>>

\* Mutant: Chrome is started with the port of the record.
StartWithRecorded(d) ==
  /\ at[d] = "start" /\ d \notin term
  /\ chrome' = IF chrome # None THEN chrome
               ELSE [by |-> d, port |-> portFile, ready |-> FALSE]
  /\ Step(d, "await")
  /\ UNCHANGED <<lockVars, proxy, browser, term, portFile, rpc, ask>>

\* A second Chrome on a profile hands over to the first and ends.
Start(d) ==
  /\ at[d] = "start" /\ d \notin term
  /\ chrome' = IF chrome # None THEN chrome
               ELSE [by |-> d, port |-> proxy[d], ready |-> FALSE]
  /\ Step(d, "await")
  /\ UNCHANGED <<lockVars, proxy, browser, term, portFile, rpc, ask>>

\* exec refuses to start under a context that is over.
StartFails(d) ==
  /\ at[d] = "start" /\ d \in term
  /\ Unlock(d)
  /\ Step(d, "unlock")
  /\ UNCHANGED <<proxy, browser, term, chrome, portFile, rpc, ask>>

ChromeReady ==
  /\ chrome # None /\ ~chrome.ready
  /\ chrome' = [chrome EXCEPT !.ready = TRUE]
  /\ UNCHANGED <<lockVars, at, proxy, browser, term, portFile, rpc, ask>>

Found(d) ==
  /\ at[d] = "await"
  /\ chrome # None /\ chrome.ready
  /\ browser' = [browser EXCEPT ![d] = chrome.by]
  /\ Step(d, "record")
  /\ UNCHANGED <<lockVars, proxy, term, chrome, portFile, rpc, ask>>

\* Mutant: only a Chrome that is gone ends the wait.
NotFoundIfGone(d) ==
  /\ at[d] = "await" /\ chrome = None
  /\ Unlock(d)
  /\ Step(d, "unlock")
  /\ UNCHANGED <<proxy, browser, term, chrome, portFile, rpc, ask>>

\* The wait has lasted 30 s, and so has the lock, if it is still the daemon's.
NotFound(d) ==
  /\ at[d] = "await"
  /\ lock # None /\ lock.owner = d => lock.old
  /\ chrome' = WithoutChromeOf(d)
  /\ Unlock(d)
  /\ Step(d, "unlock")
  /\ UNCHANGED <<proxy, browser, term, portFile, rpc, ask>>

Record(d) ==
  /\ at[d] = "record"
  /\ portFile' = proxy[d]
  /\ Unlock(d)
  /\ Step(d, "unlock")
  /\ UNCHANGED <<proxy, browser, term, chrome, rpc, ask>>

\* The deferred unlock is over: LaunchChrome has returned.
Launched(d) ==
  /\ at[d] = "unlock" /\ pc[d] = "done"
  /\ Step(d, IF browser[d] = None THEN "proxy" ELSE "listen")
  /\ UNCHANGED <<lockVars, proxy, browser, term, chrome, portFile, rpc, ask>>

-----------------------------------------------------------------------------
(* runDaemon, from its RPC port to its end.                                *)

Listen(d) ==
  /\ at[d] = "listen"
  /\ IF rpc = None THEN rpc' = d /\ Step(d, "serving")
                   ELSE Step(d, "server") /\ UNCHANGED rpc
  /\ UNCHANGED <<lockVars, proxy, browser, term, chrome, portFile, ask>>

Shutdown(d) ==
  /\ at[d] = "serving" /\ d \in term
  /\ Step(d, "server")
  /\ UNCHANGED <<lockVars, proxy, browser, term, chrome, portFile, rpc, ask>>

\* The deferred calls, last one first: server, Chrome, proxy.
CloseServer(d) ==
  /\ at[d] = "server"
  /\ rpc' = IF rpc = d THEN None ELSE rpc
  /\ Step(d, "chrome")
  /\ UNCHANGED <<lockVars, proxy, browser, term, chrome, portFile, ask>>

\* Mutant: Chrome is left running, for the next daemon to adopt.
CloseNoChrome(d) ==
  /\ at[d] = "chrome"
  /\ Step(d, "proxy")
  /\ UNCHANGED <<lockVars, proxy, browser, term, chrome, portFile, rpc, ask>>

\* An adopted Chrome has no Cmd: it stays.
CloseChrome(d) ==
  /\ at[d] = "chrome"
  /\ chrome' = IF browser[d] = d THEN WithoutChromeOf(d) ELSE chrome
  /\ Step(d, "proxy")
  /\ UNCHANGED <<lockVars, proxy, browser, term, portFile, rpc, ask>>

CloseProxy(d) ==
  /\ at[d] = "proxy"
  /\ proxy' = [proxy EXCEPT ![d] = None]
  /\ Exit(d)
  /\ Step(d, "gone")
  /\ UNCHANGED <<browser, term, chrome, portFile, rpc, ask>>

\* A user stops a daemon.
Signal(d) ==
  /\ Cardinality(term) < MaxSignals
  /\ d \in Running /\ d \notin term
  /\ term' = term \cup {d}
  /\ UNCHANGED <<lockVars, at, proxy, browser, chrome, portFile, rpc, ask>>

\* The context of a daemon is over: exec kills the Chrome it has started.
ContextKills(d) ==
  /\ d \in term \cap Running
  /\ chrome # None /\ chrome.by = d
  /\ chrome' = None
  /\ UNCHANGED <<lockVars, at, proxy, browser, term, portFile, rpc, ask>>

\* A daemon is killed: its ports are free, its Chrome goes on.
Killed(d) ==
  /\ d \in Running
  /\ Crash(d)
  /\ Step(d, "dead")
  /\ proxy' = [proxy EXCEPT ![d] = None]
  /\ rpc' = IF rpc = d THEN None ELSE rpc
  /\ UNCHANGED <<browser, term, chrome, portFile, ask>>

-----------------------------------------------------------------------------

Request(r) == \/ StopStaleDaemon(r) \/ Drained(r) \/ Check(r) \/ Status(r)
              \/ Dial(r) \/ Ready(r) \/ GiveUp(r)

Launching(d) == \/ NoLock(d) \/ Adopt(d) \/ KillStale(d) \/ Start(d)
                \/ StartFails(d) \/ Found(d) \/ NotFound(d) \/ Record(d)
                \/ Launched(d)

Locking(d) == (Acquire(d) \/ Release(d)) /\ UNCHANGED daemonVars

Go(d) == \/ ResolveProxyListener(d) \/ UseExtension(d) \/ UseChrome(d)
         \/ Launching(d) \/ Locking(d)
         \/ Listen(d) \/ Shutdown(d)
         \/ CloseServer(d) \/ CloseChrome(d) \/ CloseProxy(d)

Aging == Age /\ UNCHANGED daemonVars

AgingSeen(d) == AgeSeen(d) /\ UNCHANGED daemonVars

Next ==
  \/ \E r \in Requests : Request(r)
  \/ \E d \in Launchers : Go(d) \/ ContextKills(d) \/ Signal(d) \/ Killed(d) \/ AgingSeen(d)
  \/ ChromeReady
  \/ Aging

Spec == Init /\ [][Next]_vars

\* A daemon that was started goes on while it is alive, its timeouts (30 s)
\* included, and time passes.  The daemon of an older version owes nothing.
FairSpec ==
  /\ Spec
  /\ \A d \in Requests : WF_vars(Go(d))
  /\ WF_vars(Aging)

-----------------------------------------------------------------------------
(* Properties.                                                             *)

TypeOK ==
  /\ LockTypeOK
  /\ at \in [Launchers -> {"none", "bind", "driver", "lock", "start", "await",
                           "record", "unlock", "listen", "serving", "server",
                           "chrome", "proxy", "gone", "dead"}]
  /\ proxy \in [Launchers -> Launchers \cup {None}]
  /\ browser \in [Launchers -> Launchers \cup {None, "extension"}]
  /\ term \subseteq Launchers
  /\ chrome \in Chromes \cup {None}
  /\ portFile \in Launchers \cup {None}
  /\ rpc \in Launchers \cup {None}
  /\ ask \in [Requests -> {"idle", "drain", "check", "status", "dial",
                          "poll", "ok", "failed"}]

\* The daemons that drive the Chrome of the profile.
Drivers == {d \in Running : chrome # None /\ browser[d] = chrome.by}

\* A Chrome is driven by one daemon at a time, adopted ones included, and unless
\* its starter was killed it ends with it (launcher.go:139-151, 210-230,
\* main.go:90-140).  This hangs on the lock: of two daemons that hold it together,
\* as they may once a lock has lapsed - one launch that takes longer than 30 s is
\* enough - the second can kill the Chrome of the first, and both drive its own.
OneDriver ==
  /\ \A d, e \in Drivers : d = e
  /\ chrome # None => at[chrome.by] # "gone"

\* "adopt a live instance only when it provably serves CDP for OUR proxy
\* configuration" (launcher.go:139-140): the Chrome that a daemon drives was
\* started with the port its proxy listens on, and its traffic goes through
\* that proxy.
OwnProxy == \A d \in Drivers : chrome.port = proxy[d]

\* Until a launch lock lapses, a Chrome and its daemon belong to each other, also
\* when a daemon that held no lock was killed and left its Chrome to the next.
ChromeIsDriven == ~lapsed => OneDriver /\ OwnProxy

\* The lock "serializes concurrent launchers for one profile" (launcher.go:348):
\* while a daemon waits for the Chrome that it has started, and records its port,
\* nobody else has started one.
LaunchesSerialized ==
  \A d \in Launchers : at[d] \in {"await", "record"} => chrome = None \/ chrome.by = d

\* A daemon that was started serves in the end, or ends itself: it never waits
\* for ever for the lock, for its Chrome or for a port.
DaemonSettles ==
  \A d \in Requests : at[d] = "bind" ~> at[d] \in {"serving", "gone", "dead"}

\* "Otherwise kill only our own stale profile processes" (launcher.go:142): the
\* Chrome of a daemon that serves, and was not told to stop, is there.
ServedChromeLives ==
  \A d \in Launchers :
    at[d] = "serving" /\ d \notin term /\ browser[d] # "extension"
      => chrome # None /\ chrome.by = browser[d]
=============================================================================
