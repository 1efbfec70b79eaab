----------------------------- MODULE RemoteRoute -----------------------------
(***************************************************************************)
(* Remote browsing in the extension's service worker                       *)
(* (packages/extension/network.js).                                        *)
(*                                                                         *)
(* The worker persists the route the user asked for, owns the profile's    *)
(* proxy setting, follows the SSH status of the native helper and answers  *)
(* the proxy's authentication challenges.  The user's requests (on, off,   *)
(* connect, disconnect, sign-in) are chained by mutate and run one at a    *)
(* time; polls and challenges run beside them.  A request runs from one    *)
(* await to the next, so an action is a reply and all that the code does   *)
(* up to its next await.                                                   *)
(*                                                                         *)
(* Chrome, the native port and the helper are the environment: the worker  *)
(* may die at any await, the port may be lost, the helper serves its       *)
(* requests in any order (one goroutine each) or too late.                 *)
(***************************************************************************)
EXTENDS Integers

CONSTANTS Hosts, Ports,
          None,          \* no route, no proxy, no port, no credentials
          Ops,           \* the kinds of request that users make
          Challenges,    \* web requests that the proxy may challenge
          HelperKinds,   \* whether a helper is too old: subset of BOOLEAN
          ChromeFails,   \* whether storage and proxy calls may fail
          Others,        \* whether others may control the proxy setting
          MaxRequests, MaxSessions, MaxHelpers   \* bounds

ASSUME NoneAssumption ==
  /\ None \notin Hosts \cup Ports /\ None \notin [host : Hosts, port : Ports]
  /\ None \notin [scheme : {"http", "socks5"}, port : Ports]
ASSUME OpsAssumption ==
  Ops \subseteq {"on", "off", "connect", "disconnect", "signin"}
ASSUME KindsAssumption ==
  HelperKinds \subseteq BOOLEAN /\ ChromeFails \in BOOLEAN /\ Others \in BOOLEAN
ASSUME BoundAssumption ==
  MaxRequests \in Nat /\ MaxSessions \in Nat /\ MaxHelpers \in Nat

VARIABLES
  ours,      \* the proxy setting that this extension has made
  other,     \* another extension or a policy controls the proxy
  stored,    \* the route in chrome.storage.local
  worker,    \* dead, starting, ready
  route, ssh, revision, creds, attempts,   \* the variables of network.js
  mut,       \* the requests, in the order in which mutate chained them
  poll,      \* refreshSSH
  call, got, \* per request, and 0 for the poll: its nativeRequest, its reply
  wire,      \* the same, as the helper sees it
  port,      \* nativePort is open
  helper,    \* the status of the helper behind it
  sids,      \* the SSH sessions so far
  auth,      \* proxyAuth, per web request
  given,     \* how often a web request was given the credentials
  asked,     \* the requests so far
  by         \* the request that last changed ours or stored

chromeVars == <<ours, other, stored>>
memory     == <<route, ssh, revision, creds>>
rpcs       == <<call, got, wire>>
helperVars == <<port, helper, sids>>
authVars   == <<attempts, auth, given>>
vars == <<chromeVars, worker, memory, mut, poll, rpcs, helperVars, authVars,
          asked, by>>

-----------------------------------------------------------------------------

Ids    == 1..MaxRequests
Routes == [host : Hosts, port : Ports]
Http(p)  == [scheme |-> "http", port |-> p]
Socks(p) == [scheme |-> "socks5", port |-> p]

Gone  == [state |-> "disconnected", host |-> None, port |-> None]
Fresh(gen, legacy) ==
  [gen |-> gen, legacy |-> legacy, state |-> "disconnected", host |-> None,
   port |-> None, sid |-> 0, link |-> FALSE]

NoCall     == [op |-> "none", host |-> None, port |-> None]
NoRequest  == [op |-> "none", host |-> None, sid |-> 0, turnOff |-> FALSE,
               pc |-> "none", rev |-> 0]
IdlePoll   == [pc |-> "idle", rev |-> 0]
IdleAuth   == [at |-> "idle", rev |-> 0, prev |-> None, gen |-> 0,
               port |-> None]

\* What the worker's module starts with; its native port is closed.
Forget ==
  /\ route' = None /\ ssh' = Gone /\ revision' = 0 /\ creds' = None
  /\ mut' = [i \in Ids |-> IF i <= asked THEN [NoRequest EXCEPT !.pc = "done"]
                                         ELSE NoRequest]
  /\ poll' = IdlePoll
  /\ call' = [p \in Ids \cup {0} |-> "idle"]
  /\ got' = [p \in Ids \cup {0} |-> None]
  /\ wire' = [p \in Ids \cup {0} |-> NoCall]
  /\ attempts' = {}
  /\ auth' = [r \in Challenges |-> IdleAuth]
  /\ given' = [r \in Challenges |-> 0]
  /\ port' = FALSE

\* An installed extension: browsing off, or on since an earlier worker, which
\* an old version may have set up without authentication.
Init ==
  /\ \/ ours = None /\ stored = None
     \/ \E r \in Routes : stored = r /\ ours \in {Http(r.port), Socks(r.port)}
  /\ other = FALSE
  /\ worker = "starting"
  /\ route = None /\ ssh = Gone /\ revision = 0 /\ creds = None
  /\ mut = [i \in Ids |-> NoRequest]
  /\ poll = IdlePoll
  /\ call = [p \in Ids \cup {0} |-> "idle"]
  /\ got = [p \in Ids \cup {0} |-> None]
  /\ wire = [p \in Ids \cup {0} |-> NoCall]
  /\ attempts = {}
  /\ auth = [r \in Challenges |-> IdleAuth]
  /\ given = [r \in Challenges |-> 0]
  /\ port = FALSE
  /\ helper = Fresh(0, FALSE)
  /\ sids = 0 /\ asked = 0 /\ by = 0

applied == route # None /\ ~other /\ ours = Http(route.port)

\* Mutant: the route takes the session along.
RouteOfSession(v) == [host |-> v.host, port |-> v.port, sid |-> v.sid]

\* The route that an enabled session asks for.
RouteOf(v) == [host |-> v.host, port |-> v.port]

\* acceptSSH: a reply counts only in the revision that asked for it.
\* Mutant: the revision is not compared.
acceptSSHAlways(v, rev) ==
  /\ ssh' = [state |-> v.state, host |-> v.host, port |-> v.port]
  /\ creds' = IF v.state = "connected" THEN [gen |-> v.gen, rev |-> revision]
                                       ELSE None

acceptSSH(v, rev) ==
  IF rev = revision
    THEN /\ ssh' = [state |-> v.state, host |-> v.host, port |-> v.port]
         /\ creds' = IF v.state = "connected"
                       THEN [gen |-> v.gen, rev |-> rev] ELSE None
    ELSE UNCHANGED <<ssh, creds>>

\* nativeRequest: refused at once when there is no port.
nativeRequest(p, op, h, pt) ==
  IF port
    THEN /\ call' = [call EXCEPT ![p] = "sent"]
         /\ wire' = [wire EXCEPT ![p] = [op |-> op, host |-> h, port |-> pt]]
    ELSE /\ call' = [call EXCEPT ![p] = "failed"]
         /\ UNCHANGED wire

Legacy == route # None /\ ~other /\ ours = Socks(route.port)

\* migrateLegacyRoute succeeds, or Chrome refuses the new setting.
Migrated(rev) ==
  IF rev = revision /\ Legacy THEN ours' = Http(route.port)
                              ELSE UNCHANGED ours
MigrationFails(rev) == ChromeFails /\ rev = revision /\ Legacy

-----------------------------------------------------------------------------
(* mutate: the requests of the popup, one after the other.                 *)

Ask(op, h, sid, turnOff) ==
  /\ op \in Ops
  /\ worker # "dead"
  /\ asked < MaxRequests
  /\ asked' = asked + 1
  /\ mut' = [mut EXCEPT ![asked + 1] =
               [op |-> op, host |-> h, sid |-> sid, turnOff |-> turnOff,
                pc |-> "asked", rev |-> 0]]
  /\ UNCHANGED <<chromeVars, worker, memory, poll, rpcs, helperVars, authVars,
                 by>>

At(i, pc) == worker = "ready" /\ mut[i].pc = pc
Goto(i, pc) == mut' = [mut EXCEPT ![i].pc = pc]

\* The request ends, well or with an error that is shown to the user.
End(i) ==
  /\ mut' = [mut EXCEPT ![i] = [NoRequest EXCEPT !.pc = "done"]]
  /\ call' = [call EXCEPT ![i] = "idle"]
  /\ got' = [got EXCEPT ![i] = None]

MayRun(i) == \A j \in 1..i-1 : mut[j].pc = "done"

Begin(i, pc) ==
  mut' = [mut EXCEPT ![i].pc = pc, ![i].rev = revision + 1]

Start(i) ==
  /\ At(i, "asked")
  /\ MayRun(i)
  /\ revision' = revision + 1
  /\ creds' = None
  /\ CASE mut[i].op = "off" ->
            Begin(i, "clear") /\ UNCHANGED rpcs
       [] mut[i].op = "disconnect" ->
            /\ Begin(i, "reply")
            /\ nativeRequest(i, "disconnect", None, None)
            /\ UNCHANGED got
       [] mut[i].op = "connect" /\ route # None /\ route.host # mut[i].host ->
            End(i) /\ UNCHANGED wire
       [] OTHER ->
            /\ Begin(i, "status")
            /\ nativeRequest(i, "status", None, None)
            /\ UNCHANGED got
  /\ UNCHANGED <<chromeVars, worker, route, ssh, poll, helperVars, authVars,
                 asked, by>>

\* A nativeRequest of the request failed, timed out, or was refused.
CallFailed(i) ==
  /\ worker = "ready" /\ call[i] = "failed"
  /\ End(i)
  /\ UNCHANGED <<chromeVars, worker, memory, poll, wire, helperVars, authVars,
                 asked, by>>

\* requestSSHStatus finds a helper without proxy authentication.
OldHelper(i) ==
  /\ mut[i].pc \in {"status", "verify"} /\ worker = "ready"
  /\ call[i] = "back" /\ got[i].legacy
  /\ nativeRequest(i, "disconnect", None, None)
  /\ Goto(i, "old")
  /\ UNCHANGED <<chromeVars, worker, memory, poll, got, helperVars, authVars,
                 asked, by>>

OldHelperMigrates(i) ==
  /\ At(i, "old") /\ call[i] = "back"
  /\ \/ Migrated(mut[i].rev)
     \/ MigrationFails(mut[i].rev) /\ UNCHANGED ours
  /\ End(i)
  /\ UNCHANGED <<other, stored, worker, memory, poll, wire, helperVars,
                 authVars, asked, by>>

\* A status that requestSSHStatus returned to the request.
Returned(i, pc) == At(i, pc) /\ call[i] = "back" /\ ~got[i].legacy

\* setNetworkEnabled(true): is this the session the user saw?
EnableVerified(i) ==
  LET v == got[i] IN
  /\ Returned(i, "status") /\ mut[i].op = "on"
  /\ IF /\ v.state = "connected" /\ mut[i].rev = revision
        /\ mut[i].sid # 0 /\ mut[i].sid = v.sid
        /\ route \in {None, RouteOf(v)}
       THEN /\ Goto(i, "level")
            /\ call' = [call EXCEPT ![i] = "idle"]
            /\ UNCHANGED got
       ELSE End(i)
  /\ UNCHANGED <<chromeVars, worker, memory, poll, wire, helperVars, authVars,
                 asked, by>>

EnableLevel(i) ==
  /\ At(i, "level")
  /\ IF other THEN End(i) ELSE Goto(i, "store") /\ UNCHANGED <<call, got>>
  /\ UNCHANGED <<chromeVars, worker, memory, poll, wire, helperVars, authVars,
                 asked, by>>

\* Mutant: the proxy is applied before the route is persisted.
EnableStoreLate(i) ==
  /\ At(i, "store")
  /\ route' = RouteOf(got[i])
  /\ ours' = Http(got[i].port)
  /\ by' = i
  /\ acceptSSH(got[i], mut[i].rev)
  /\ Goto(i, "apply")
  /\ UNCHANGED <<other, stored, worker, revision, poll, rpcs, helperVars,
                 authVars, asked>>

\* The route is persisted and adopted; then the status is accepted, unless the
\* revision has changed, which ends the request.
EnableStore(i) ==
  /\ At(i, "store")
  /\ \/ /\ stored' = RouteOf(got[i]) /\ route' = RouteOf(got[i]) /\ by' = i
        /\ acceptSSH(got[i], mut[i].rev)
        /\ IF mut[i].rev = revision
             THEN Goto(i, "apply") /\ UNCHANGED <<call, got>>
             ELSE End(i)
     \/ ChromeFails /\ End(i) /\ UNCHANGED <<stored, route, ssh, creds, by>>
  /\ UNCHANGED <<ours, other, worker, revision, poll, wire, helperVars,
                 authVars, asked>>

\* The proxy is set; whether Chrome applied it only decides what is told.
EnableApply(i) ==
  /\ At(i, "apply")
  /\ \/ ours' = Http(route.port) /\ by' = i
     \/ ChromeFails /\ UNCHANGED <<ours, by>>
  /\ End(i)
  /\ UNCHANGED <<other, stored, worker, memory, poll, wire, helperVars,
                 authVars, asked>>

\* clearNetwork, for OFF and for a sign-in: first the proxy, then the route.
Clear(i) ==
  /\ At(i, "clear")
  /\ \/ ours' = None /\ by' = i /\ Goto(i, "remove") /\ UNCHANGED <<call, got>>
     \/ ChromeFails /\ End(i) /\ UNCHANGED <<ours, by>>
  /\ UNCHANGED <<other, stored, worker, memory, poll, wire, helperVars,
                 authVars, asked>>

Remove(i) ==
  /\ At(i, "remove")
  /\ \/ /\ stored' = None /\ route' = None /\ by' = i
        /\ IF mut[i].op = "off"
             THEN End(i) /\ UNCHANGED wire
             ELSE /\ Goto(i, "verify")
                  /\ nativeRequest(i, "status", None, None)
                  /\ UNCHANGED got
     \/ /\ ChromeFails
        /\ End(i) /\ UNCHANGED <<stored, route, by, wire>>
  /\ UNCHANGED <<ours, other, worker, ssh, revision, creds, poll, helperVars,
                 authVars, asked>>

\* connectSSH: the helper is recent enough.
ConnectVerified(i) ==
  /\ Returned(i, "status") /\ mut[i].op = "connect"
  /\ Goto(i, "migrate")
  /\ call' = [call EXCEPT ![i] = "idle"]
  /\ got' = [got EXCEPT ![i] = None]
  /\ UNCHANGED <<chromeVars, worker, memory, poll, wire, helperVars, authVars,
                 asked, by>>

ConnectSend(i) ==
  /\ At(i, "migrate")
  /\ \/ /\ Migrated(mut[i].rev)
        /\ IF mut[i].rev = revision
             THEN /\ Goto(i, "reply")
                  /\ nativeRequest(i, "connect", mut[i].host,
                                   IF route = None THEN None ELSE route.port)
                  /\ UNCHANGED got
             ELSE End(i) /\ UNCHANGED wire
     \/ MigrationFails(mut[i].rev) /\ End(i) /\ UNCHANGED <<ours, wire>>
  /\ UNCHANGED <<other, stored, worker, memory, poll, helperVars, authVars,
                 asked, by>>

\* The reply to a connect or disconnect.  validSSH refuses that of an old
\* helper.
ReplyAccepted(i) ==
  /\ At(i, "reply") /\ call[i] = "back"
  /\ IF got[i].legacy THEN UNCHANGED <<ssh, creds>>
                      ELSE acceptSSH(got[i], mut[i].rev)
  /\ End(i)
  /\ UNCHANGED <<chromeVars, worker, route, revision, poll, wire, helperVars,
                 authVars, asked, by>>

\* openSignIn: verify, for the session that the user was shown.
Pending(i) ==
  /\ mut[i].rev = revision
  /\ mut[i].sid # 0 /\ mut[i].sid = got[i].sid
  /\ got[i].state = "connecting" /\ got[i].link

SignInVerified(i) ==
  /\ Returned(i, "status") /\ mut[i].op = "signin"
  /\ IF Pending(i)
       THEN /\ acceptSSH(got[i], mut[i].rev)
            /\ Goto(i, "consent")
            /\ call' = [call EXCEPT ![i] = "idle"]
            /\ got' = [got EXCEPT ![i] = None]
       ELSE End(i) /\ UNCHANGED <<ssh, creds>>
  /\ UNCHANGED <<chromeVars, worker, route, revision, poll, wire, helperVars,
                 authVars, asked, by>>

SignInConsent(i) ==
  /\ At(i, "consent")
  /\ CASE (route # None \/ (ours # None /\ ~other)) /\ ~mut[i].turnOff ->
            End(i) /\ UNCHANGED wire
       [] (route # None \/ (ours # None /\ ~other)) /\ mut[i].turnOff ->
            Goto(i, "clear") /\ UNCHANGED rpcs
       [] OTHER ->
            /\ Goto(i, "verify")
            /\ nativeRequest(i, "status", None, None)
            /\ UNCHANGED got
  /\ UNCHANGED <<chromeVars, worker, memory, poll, helperVars, authVars,
                 asked, by>>

\* The second verification: the tab is opened in the same step.
Opens(i) == Returned(i, "verify") /\ Pending(i)

SignInOpen(i) ==
  /\ Returned(i, "verify")
  /\ IF Pending(i) THEN acceptSSH(got[i], mut[i].rev)
                   ELSE UNCHANGED <<ssh, creds>>
  /\ End(i)
  /\ UNCHANGED <<chromeVars, worker, route, revision, poll, wire, helperVars,
                 authVars, asked, by>>

Mutation(i) ==
  \/ Start(i) \/ CallFailed(i) \/ OldHelper(i) \/ OldHelperMigrates(i)
  \/ EnableVerified(i) \/ EnableLevel(i) \/ EnableStore(i) \/ EnableApply(i)
  \/ Clear(i) \/ Remove(i)
  \/ ConnectVerified(i) \/ ConnectSend(i) \/ ReplyAccepted(i)
  \/ SignInVerified(i) \/ SignInConsent(i) \/ SignInOpen(i)

-----------------------------------------------------------------------------
(* refreshSSH: at most one poll at a time, in no order with the requests.  *)

PollStart ==
  /\ worker = "ready" /\ poll.pc = "idle"
  /\ poll' = [pc |-> "status", rev |-> revision]
  /\ nativeRequest(0, "status", None, None)
  /\ UNCHANGED <<chromeVars, worker, memory, mut, got, helperVars, authVars,
                 asked, by>>

EndPoll ==
  /\ poll' = IdlePoll
  /\ call' = [call EXCEPT ![0] = "idle"]
  /\ got' = [got EXCEPT ![0] = None]

\* The error branch: the helper is shown as gone, in the same revision only.
PollErrs ==
  IF poll.rev = revision
    THEN /\ creds' = None
         /\ ssh' = [Gone EXCEPT !.host = IF route = None THEN None
                                                         ELSE route.host]
    ELSE UNCHANGED <<ssh, creds>>

PollReply ==
  /\ worker = "ready" /\ poll.pc = "status" /\ call[0] = "back"
  /\ IF got[0].legacy
       THEN /\ poll' = [poll EXCEPT !.pc = "old"]
            /\ nativeRequest(0, "disconnect", None, None)
            /\ UNCHANGED <<ssh, creds, got>>
       ELSE /\ acceptSSH(got[0], poll.rev)
            /\ EndPoll
            /\ UNCHANGED wire
  /\ UNCHANGED <<chromeVars, worker, route, revision, mut, helperVars,
                 authVars, asked, by>>

PollOldHelper ==
  /\ worker = "ready" /\ poll.pc = "old" /\ call[0] = "back"
  /\ \/ Migrated(poll.rev)
     \/ MigrationFails(poll.rev) /\ UNCHANGED ours
  /\ PollErrs
  /\ EndPoll
  /\ UNCHANGED <<other, stored, worker, route, revision, mut, wire,
                 helperVars, authVars, asked, by>>

PollFails ==
  /\ worker = "ready" /\ call[0] = "failed"
  /\ PollErrs
  /\ EndPoll
  /\ UNCHANGED <<chromeVars, worker, route, revision, mut, wire, helperVars,
                 authVars, asked, by>>

-----------------------------------------------------------------------------
(* proxyAuth.  A challenge carries the realm of the helper it came from.   *)

Challenge(r, gen, pt) ==
  /\ worker # "dead" /\ auth[r].at = "idle"
  /\ auth' = [auth EXCEPT ![r] = [at |-> "ready", rev |-> revision,
                                  prev |-> route, gen |-> gen, port |-> pt]]
  /\ UNCHANGED <<chromeVars, worker, memory, mut, poll, rpcs, helperVars,
                 attempts, given, asked, by>>

Endpoint(r) == IF route # None THEN route ELSE auth[r].prev

AuthReady(r) ==
  /\ worker = "ready" /\ auth[r].at = "ready"
  /\ auth' = IF Endpoint(r) # None /\ Endpoint(r).port = auth[r].port
               THEN [auth EXCEPT ![r].at = "settings"]
               ELSE [auth EXCEPT ![r] = IdleAuth]
  /\ UNCHANGED <<chromeVars, worker, memory, mut, poll, rpcs, helperVars,
                 attempts, given, asked, by>>

\* Mutant: the realm of the challenge is not compared.
AnswersAnyRealm(r) ==
  /\ auth[r].rev = revision /\ applied
  /\ ssh = [state |-> "connected", host |-> route.host, port |-> route.port]
  /\ creds # None /\ creds.rev = revision
  /\ r \notin attempts

Answers(r) ==
  /\ auth[r].rev = revision /\ applied
  /\ ssh = [state |-> "connected", host |-> route.host, port |-> route.port]
  /\ creds # None /\ creds.rev = revision
  /\ auth[r].gen = creds.gen
  /\ r \notin attempts

\* The credentials, or a cancelled request.
AuthSettings(r) ==
  /\ worker = "ready" /\ auth[r].at = "settings"
  /\ auth' = [auth EXCEPT ![r] = IdleAuth]
  /\ IF Answers(r) THEN /\ attempts' = attempts \cup {r}
                        /\ given' = [given EXCEPT ![r] = @ + 1]
                   ELSE UNCHANGED <<attempts, given>>
  /\ UNCHANGED <<chromeVars, worker, memory, mut, poll, rpcs, helperVars,
                 asked, by>>

Completed(r) ==
  /\ worker # "dead" /\ auth[r].at = "idle"
  /\ attempts' = attempts \ {r}
  /\ given' = [given EXCEPT ![r] = 0]
  /\ UNCHANGED <<chromeVars, worker, memory, mut, poll, rpcs, helperVars,
                 auth, asked, by>>

-----------------------------------------------------------------------------
(* The worker's life and its native port (background.js).                  *)

Ready ==
  /\ worker = "starting"
  /\ worker' = "ready"
  /\ route' = stored
  /\ UNCHANGED <<chromeVars, ssh, revision, creds, mut, poll, rpcs,
                 helperVars, authVars, asked, by>>

WorkerDies ==
  /\ worker # "dead"
  /\ worker' = "dead"
  /\ Forget
  /\ UNCHANGED <<chromeVars, helper, sids, asked, by>>

WorkerStarts ==
  /\ worker = "dead"
  /\ worker' = "starting"
  /\ UNCHANGED <<chromeVars, memory, mut, poll, rpcs, helperVars, authVars,
                 asked, by>>

\* connectNativeHost: a new helper process.
PortOpens(legacy) ==
  /\ worker # "dead" /\ ~port
  /\ helper.gen < MaxHelpers
  /\ port' = TRUE
  /\ helper' = Fresh(helper.gen + 1, legacy)
  /\ UNCHANGED <<chromeVars, worker, memory, mut, poll, rpcs, sids, authVars,
                 asked, by>>

\* Mutant: losing the helper turns remote browsing off.
networkDisconnectedFailsOpen ==
  /\ port
  /\ port' = FALSE
  /\ revision' = revision + 1
  /\ creds' = None
  /\ ssh' = Gone
  /\ ours' = None
  /\ call' = [p \in Ids \cup {0} |-> IF call[p] = "idle" THEN "idle"
                                                         ELSE "failed"]
  /\ wire' = [p \in Ids \cup {0} |-> NoCall]
  /\ UNCHANGED <<other, stored, worker, route, mut, poll, got, helper, sids,
                 authVars, asked, by>>

\* handleNativeDisconnect and networkDisconnected: what waits is rejected.
networkDisconnected ==
  /\ port
  /\ port' = FALSE
  /\ revision' = revision + 1
  /\ creds' = None
  /\ ssh' = [Gone EXCEPT !.host = IF route = None THEN None ELSE route.host]
  /\ call' = [p \in Ids \cup {0} |-> IF call[p] = "idle" THEN "idle"
                                                         ELSE "failed"]
  /\ wire' = [p \in Ids \cup {0} |-> NoCall]
  /\ UNCHANGED <<chromeVars, worker, route, mut, poll, got, helper, sids,
                 authVars, asked, by>>

\* Another extension or a policy takes the proxy over, or gives it back.
OtherControl ==
  /\ Others
  /\ other' = ~other
  /\ UNCHANGED <<ours, stored, worker, memory, mut, poll, rpcs, helperVars,
                 authVars, asked, by>>

\* Mutant: the request of a mutation has no timer.
TimeoutPollOnly(p) ==
  /\ p = 0 /\ call[p] \in {"sent", "back"}
  /\ call' = [call EXCEPT ![p] = "failed"]
  /\ got' = [got EXCEPT ![p] = None]
  /\ UNCHANGED <<chromeVars, worker, memory, mut, poll, wire, helperVars,
                 authVars, asked, by>>

\* The timer of a nativeRequest: the helper may still serve it.
Timeout(p) ==
  /\ call[p] \in {"sent", "back"}
  /\ call' = [call EXCEPT ![p] = "failed"]
  /\ got' = [got EXCEPT ![p] = None]
  /\ UNCHANGED <<chromeVars, worker, memory, mut, poll, wire, helperVars,
                 authVars, asked, by>>

-----------------------------------------------------------------------------
(* The helper: cmd/tether as the module SSHSession models it.              *)

Serve(p, after, ok) ==
  /\ port /\ wire[p].op # "none"
  /\ helper' = after
  /\ wire' = [wire EXCEPT ![p] = NoCall]
  /\ IF call[p] = "sent"
       THEN /\ call' = [call EXCEPT ![p] = IF ok THEN "back" ELSE "failed"]
            /\ got' = [got EXCEPT ![p] = IF ok THEN after ELSE None]
       ELSE UNCHANGED <<call, got>>
  /\ UNCHANGED <<chromeVars, worker, memory, mut, poll, port, authVars, asked,
                 by>>

ServeStatus(p) ==
  /\ wire[p].op = "status"
  /\ Serve(p, helper, TRUE) /\ UNCHANGED sids

ServeDisconnect(p) ==
  /\ wire[p].op = "disconnect"
  /\ Serve(p, [helper EXCEPT !.state = "disconnected", !.sid = 0,
                             !.link = FALSE], TRUE)
  /\ UNCHANGED sids

Repeats(h) == helper.host = h /\ helper.state # "disconnected"
PortFits(pt) == pt = None \/ helper.port \in {None, pt}

ServeConnect(p) ==
  LET h == wire[p].host
      pt == wire[p].port IN
  /\ wire[p].op = "connect"
  /\ \/ /\ Repeats(h) /\ PortFits(pt)
        /\ Serve(p, helper, TRUE) /\ UNCHANGED sids
     \/ /\ ~Repeats(h) /\ PortFits(pt) /\ sids < MaxSessions
        /\ sids' = sids + 1
        /\ \E q \in Ports :
             /\ q \in {helper.port, pt} \/ (helper.port = None /\ pt = None)
             /\ Serve(p, [helper EXCEPT !.state = "connecting", !.host = h,
                                        !.port = q, !.sid = sids + 1,
                                        !.link = FALSE], TRUE)
     \/ Serve(p, helper, FALSE) /\ UNCHANGED sids

\* The SSH session of the helper comes up, is lost, asks for a sign-in, ends.
\* A pending sign-in is told apart only where users may answer it.
HelperMoves ==
  /\ port /\ helper.sid # 0
  /\ \/ /\ helper.state = "connecting"
        /\ \/ helper' = [helper EXCEPT !.state = "connected", !.link = FALSE]
           \/ "signin" \in Ops /\ helper' = [helper EXCEPT !.link = TRUE]
           \/ helper' = [helper EXCEPT !.state = "disconnected",
                                       !.link = FALSE]
     \/ /\ helper.state = "connected"
        /\ helper' = [helper EXCEPT !.state = "connecting"]
  /\ UNCHANGED <<chromeVars, worker, memory, mut, poll, rpcs, port, sids,
                 authVars, asked, by>>

-----------------------------------------------------------------------------

UserAsks ==
  \/ \E op \in {"off", "disconnect"} : Ask(op, None, 0, FALSE)
  \/ \E h \in Hosts : Ask("connect", h, 0, FALSE)
  \/ \E s \in 1..sids : \/ Ask("on", None, s, FALSE)
                        \/ \E b \in BOOLEAN : Ask("signin", None, s, b)

Polls == PollStart \/ PollReply \/ PollOldHelper \/ PollFails

Auth(r) ==
  \/ \E g \in 1..helper.gen, pt \in Ports : Challenge(r, g, pt)
  \/ AuthReady(r) \/ AuthSettings(r) \/ Completed(r)

Environment ==
  \/ Ready \/ WorkerDies \/ WorkerStarts
  \/ \E b \in HelperKinds : PortOpens(b)
  \/ networkDisconnected \/ OtherControl
  \/ \E p \in Ids \cup {0} :
       Timeout(p) \/ ServeStatus(p) \/ ServeDisconnect(p) \/ ServeConnect(p)
  \/ HelperMoves

Next ==
  \/ UserAsks
  \/ \E i \in Ids : Mutation(i)
  \/ Polls
  \/ \E r \in Challenges : Auth(r)
  \/ Environment

Spec == Init /\ [][Next]_vars

\* JavaScript runs what is ready, its timers fire, Chrome answers and starts
\* the worker; nothing is owed by users, the helper or the network.
Fairness ==
  /\ \A i \in Ids : WF_vars(Mutation(i)) /\ WF_vars(Timeout(i))
  /\ WF_vars(Ready)

FairSpec == Spec /\ Fairness

-----------------------------------------------------------------------------
(* Properties.                                                             *)

Proxies == {None} \cup [scheme : {"http", "socks5"}, port : Ports]
Statuses == [state : {"disconnected", "connecting", "connected"},
             host : Hosts \cup {None}, port : Ports \cup {None}]
HelperStates(gens) ==
  [gen : gens, legacy : BOOLEAN,
   state : {"disconnected", "connecting", "connected"},
   host : Hosts \cup {None}, port : Ports \cup {None}, sid : 0..MaxSessions,
   link : BOOLEAN]
Snapshots == HelperStates(1..MaxHelpers)
Credentials == [gen : 1..MaxHelpers, rev : Nat]
Pcs == {"none", "asked", "status", "level", "store", "apply", "clear",
        "remove", "migrate", "reply", "consent", "verify", "old", "done"}
Requests == [op : Ops \cup {"none"}, host : Hosts \cup {None},
             sid : 0..MaxSessions, turnOff : BOOLEAN, pc : Pcs, rev : Nat]
NativeCalls == [op : {"none", "status", "connect", "disconnect"},
                host : Hosts \cup {None}, port : Ports \cup {None}]
AuthStates == [at : {"idle", "ready", "settings"}, rev : Nat,
               prev : Routes \cup {None}, gen : 0..MaxHelpers,
               port : Ports \cup {None}]

ChromeTypes ==
  /\ ours \in Proxies /\ other \in BOOLEAN
  /\ stored \in Routes \cup {None} /\ route \in Routes \cup {None}

WorkerTypes ==
  /\ worker \in {"dead", "starting", "ready"} /\ ssh \in Statuses
  /\ revision \in 0..MaxRequests + MaxHelpers
  /\ creds \in Credentials \cup {None}
  /\ mut \in [Ids -> Requests]
  /\ poll \in [pc : {"idle", "status", "old"}, rev : Nat]
  /\ asked \in 0..MaxRequests /\ by \in 0..asked

CallTypes ==
  /\ call \in [Ids \cup {0} -> {"idle", "sent", "back", "failed"}]
  /\ got \in [Ids \cup {0} -> Snapshots \cup {None}]
  /\ wire \in [Ids \cup {0} -> NativeCalls]

HelperTypes ==
  /\ port \in BOOLEAN /\ helper \in HelperStates(0..MaxHelpers)
  /\ sids \in 0..MaxSessions

AuthTypes ==
  /\ attempts \subseteq Challenges /\ auth \in [Challenges -> AuthStates]
  /\ given \in [Challenges -> Nat]

TypeOK == ChromeTypes /\ WorkerTypes /\ CallTypes /\ HelperTypes /\ AuthTypes

\* Persist before applying: at every moment at which the worker may die, an
\* active proxy of ours has its route in storage, and a worker that is ready
\* knows that route (network.js:283).
ActiveProxyIsStored ==
  /\ ours # None => stored # None
  /\ worker = "ready" => route = stored

\* What the worker knows as connected, and the credentials it holds, come from
\* the helper behind the open port, and the credentials from the current
\* revision: no late reply brings back what a loss or a newer request ended.  A
\* helper without proxy authentication is not asked to connect, even if it
\* replaced a recent one between the check and the request.
StatusIsOfThisHelper ==
  /\ ssh.state = "connected" => port
  /\ creds # None => port /\ creds.gen = helper.gen /\ creds.rev = revision
                       /\ ssh.state = "connected"
  /\ \A p \in Ids \cup {0} : wire[p].op = "connect" => ~helper.legacy

\* A web request gets the credentials at most once, across revisions, lost
\* helpers and repeated challenges (network.js:129), and only if it is the
\* helper that issued them that asks, through our applied proxy.
AnswersOwnChallenge ==
  [][\A r \in Challenges : given'[r] > given[r] =>
       /\ given[r] = 0
       /\ port /\ auth[r].gen = helper.gen
       /\ ours = Http(route.port) /\ stored = route]_vars

\* SSH loss never clears or moves the profile's proxy: it stops being ours only
\* by an OFF or a sign-in that agreed to it, and is replaced only by the
\* authenticated form of the same route (network.js:2).
RouteOnlyByConsent ==
  [][ours # None /\ ours' # ours =>
       \/ \E i \in Ids : /\ mut[i].pc \in {"clear", "apply"}
                         /\ mut'[i].pc # mut[i].pc
                         /\ mut[i].pc = "clear" => \/ mut[i].op = "off"
                                                   \/ mut[i].turnOff
       \/ ours' = Http(ours.port)]_vars

\* Requests take effect in the order in which they were made: an OFF asked for
\* while an ON still waits for its reply wins over that reply.
EffectsInOrder == [][worker = "ready" => by' >= by]_vars

\* A sign-in tab opens for the session the user was shown, and never through
\* the remote route it may have to repair.
SignInOffRoute ==
  [][\A i \in Ids : Opens(i) /\ mut'[i].pc = "done" /\ worker' = "ready" =>
       /\ route = None /\ (ours = None \/ other)
       /\ got[i].sid = mut[i].sid /\ port]_vars

\* The proxy is the user's: both of the above.
RouteByConsent == RouteOnlyByConsent /\ SignInOffRoute

\* OFF works, whatever the helper and the requests before it do: the proxy is
\* cleared, unless the worker dies first or Chrome refuses.
OffWorks ==
  \A i \in Ids : mut[i].op = "off" ~> ours = None \/ worker = "dead"

\* OFF wins over what was asked for before it, and it comes.
OffWins == EffectsInOrder /\ OffWorks
=============================================================================
