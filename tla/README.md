# Verification of Tether

Tether lets an agent on a remote machine drive the Chrome of a workstation. This
directory holds TLA+ models of the parts of Tether in which processes, goroutines,
promises and messages interleave, the TLC configurations that check them on small
instances, and TLAPS proofs of theorems about some of them. `PROJECT.json` says
which definition models which lines of the source.

All line numbers below are those of the repository's files. Paths are relative to
its root: `ssh_session.go` is `cmd/tether/ssh_session.go`, `native_host.go`,
`launcher.go`, `proxy.go`, `driver.go` and `websocket.go` are in `packages/client`,
`background.js`, `network.js` and `popup.js` in `packages/extension`, `overlay.js` in
`packages/extension/review` (the copy in `packages/client/review` is the same file),
`broker.go`, `client.go` and the commands' `cli/main.go` in `packages/cli`,
`screenshots.go` and `main.go` in `cmd/tether`.

## 1. The system

### Processes and how they talk

    remote machine                       workstation
    +--------------------+              +-----------------------------------------+
    | agent -> CLI       |  ssh -R 9333 | tether daemon (RPC server, driver,      |
    |   -> broker -------+--------------+-> forward proxy)                        |
    +--------------------+              |      | bridge socket       | CDP        |
                                        |  native host (one per      Chrome of a  |
                                        |  native port; SSH session  profile that |
                                        |  and private proxies)      the daemon   |
                                        |      | native messaging    launched     |
                                        |  service worker (extension)             |
                                        +-----------------------------------------+

* A **CLI** command on the remote machine goes, through the **broker** of its user if
  there is one and always if it names a session (`broker.go`, `client.go`), over TLS
  and an SSH reverse port, to the **daemon** (`main.go`, `server.go`) on the
  workstation.
* The daemon's **driver** is either the *extension driver* - a connection to the
  bridge socket of the **native host** - or the *CDP driver* - WebSockets to a
  Chrome that the **launcher** started or adopted.
* The **native host** (`native_host.go`) is a child of Chrome. It relays commands
  between the bridge socket and the native port, and runs the **SSH session**
  (`ssh_session.go`) for the extension.
* The **service worker** (`background.js`, `network.js`) owns the native port, the
  connection the user asked for, the Tether tab group, Chrome's debugger
  attachments and, for *remote browsing*, the proxy setting of the profile. It puts
  the **review overlay** (`overlay.js`) into pages, and shares the **screenshot
  gallery**, one value of `chrome.storage.local`, with the **popup** (`popup.js`).

### Inventory

| Part | State it keeps | Operations | What makes it hard | What makes it correct |
|---|---|---|---|---|
| SSH session (`ssh_session.go`) | status shown to the extension, upstream, control path, nonce, one goroutine, child process and two readers per Connect, `active_host` file | Connect, Disconnect, Close, attempts with retries, probes, sign-ins | every Connect supersedes a goroutine that still has a child to reap; readers that are not joined; three timers; a backoff that a request may cut | one child at a time; what is published belongs to the current session; nothing comes back behind Disconnect or Close; losses are noticed; Close returns |
| Remote browsing (`network.js`) | route, SSH snapshot, revision, credentials, attempts; `chrome.storage.local` and the proxy setting outlive the worker | on, off, connect, disconnect, sign-in, poll, authentication challenges | every `await` can be the last one; replies come late, out of order or not at all; helpers are replaced; Chrome's calls fail | fail closed: only the user's OFF removes the proxy; persisted before applied; late replies change nothing; credentials go once and to their own helper |
| Service worker lifecycle (`background.js`) | enabled, connecting, revision, host, native port, reconnect timer, attached tabs, commands in flight, saved state | Connect, Reconnect, Disconnect, port loss, restart, commands | Disconnect overtakes a Connect, an attachment and commands that are in the middle of their awaits; two promise chains | after Disconnect nothing is open, saved or running; a cancelled request disturbs no later one; a lost port comes back |
| Native bridge (`native_host.go`) | pending calls by number, one connection per client, the driver's single connection and mutex | call with retry and deadline, register, post, deliver, fail all, close | a cancelled context closes a connection later; a deadline races the answer; the host ends and is replaced while commands run | a call returns the result of its own command; nothing blocks the reader; a loss ends all calls |
| Launch lock (`launcher.go`) | a directory and an owner file | acquire, release, break a stale lock | everything by path, in several system calls, by processes that may be killed | exclusive; a holder keeps it; a dead owner's lock is broken |
| Chrome launcher and daemon start (`launcher.go`, `proxy.go`, `main.go`) | the profile's Chrome, its recorded proxy port, port 9333 | adopt, kill stale, launch, record; start, upgrade and stop a daemon | daemons that start concurrently, upgrades, kills | one browser with the proxy of its daemon; no orphan |
| Broker and client (`broker.go`, `client.go`, `cli/main.go`) | the socket path, the target of each session | start in the background, bind, close, stop; a command to the broker or to the daemon | the socket path is shared by a broker that leaves and one that comes; deadlines | a session's commands act on its own tab |
| Tab group and commands (`background.js`) | the Tether group and its tabs, the active tab, attachments, references and generations of snapshots | the agent's methods, tab and debugger events, disconnect | check-then-act across awaits; Chrome's events come in between; what is remembered speaks of a document that has gone | the agent's tab is one of Tether's; references are of the page that is there; one attachment per tab |
| CDP driver (`driver.go`, `websocket.go`) | a connection per target, the active target, pending calls by number | open, close, switch, list, look up or dial; call, read pump | concurrent dials; a read pump that ends beside a registration; requests without a deadline | a call gets its answer or an error; a request gets the tab it named |
| Review overlay (`overlay.js`, `background.js`) | notes with their pins, badges and rows, the open card, listeners, the area capture that holds the page | pick, save, edit, clear, done, capture, cancel; start, poll, screenshot, finish | the worker's captures supersede each other while the page and its user act; frames come late; pages reload | marks are those of the notes; a stopped review leaves nothing; a capture stores its own area and gives the page back |
| Screenshot gallery (`popup.js`, `background.js`, `screenshots.go`) | one list in storage, its copy in the popup, files here and on servers | capture, area, comment, delete, clear, open, close | popup and worker overwrite the whole list; servers change; the popup dies with its promises | an entry names a server only for a copy; it goes only with its files |
| Forward proxy (`proxy.go`) | routes, open connections | serve, tunnel, enroll, close | Close beside an accept | Close closes everything |
| RPC server, protocol | listener, closed | accept, dispatch | little: one goroutine per connection | - |
| SSH proxies, control connections | upstream, relays | dial, relay | little state: byte pipes | - |
| Terminal connect, installer, CLI, the popup's panels | files and user interface | - | sequential scripts and I/O | - |

## 2. The models

| Module | Models | Composes or uses |
|---|---|---|
| `RemoteSession` | what the helper promises of its SSH session (abstract) | - |
| `SSHSession` | `ssh_session.go`, in full | `RemoteSession` by a refinement mapping |
| `SSHSession_proofs` | theorems about `SSHSession` | `SSHSession`, TLAPS |
| `RemoteRoute` | `network.js` with Chrome, the native port and the helper | - |
| `RemoteRoute_proofs` | theorems about `RemoteRoute` | `RemoteRoute`, TLAPS |
| `TetherLifecycle` | connection, saved state and attachments of `background.js` | the operations of `RemoteRoute` and the session of `SSHSession`, each as one step that may fail |
| `TetherLifecycle_proofs` | theorems about `TetherLifecycle` | `TetherLifecycle`, TLAPS |
| `NativeBridge` | a command's way from the daemon's driver through bridge socket, native host and native port to the worker and back | - |
| `MCNativeBridge` | the symmetry of the calls, for TLC | `NativeBridge` |
| `NativeBridge_proofs` | theorems about `NativeBridge` | `NativeBridge`, TLAPS |
| `LaunchLock` | `acquireProfileLaunchLock` and its release | - |
| `Daemon` | start, upgrade and end of daemons, their Chrome, its recorded proxy port, the RPC port | extends `LaunchLock`: the daemons are its launchers |
| `Daemon_proofs` | theorems about `LaunchLock` and `Daemon` | `Daemon`, TLAPS |
| `TabGroup` | the Tether group, the agent's methods and the debugger in `background.js` | - |
| `TabGroup_proofs` | theorems about `TabGroup` | `TabGroup`, TLAPS |
| `Review` | `overlay.js` and the area captures of `background.js` | - |
| `MCReview` | the symmetry of elements and captures, for TLC | `Review` |
| `Gallery` | the screenshot gallery of `popup.js`, `background.js` and `screenshots.go` | - |
| `MCGallery` | the symmetry of the servers, for TLC | `Gallery` |
| `Captures_proofs` | theorems about `Review` and about `Gallery` | `Review`, `Gallery`, TLAPS |
| `CDPDriver` | `driver.go` and the client of `websocket.go` | - |
| `Broker` | `broker.go` and the commands of the command line | extends `CDPDriver`: the daemon they reach |
| `Broker_proofs` | theorems about `Broker` and `CDPDriver` | `Broker`, TLAPS |

What holds for all of them: an action is what runs between two points at which
another actor can get in. In Go this is a critical section or a system call that
others can see, in the service worker all the code from one `await` to the next.
Time is abstracted: a timer, a deadline or a backoff may fire at any moment after
it was set. Texts, logging and rendering are left out. Definitions whose comment
begins with `Mutant:` are not part of the model: each is a version of the next
definition with a plausible bug, and shows that a property would notice it.

### SSHSession and RemoteSession

A *session* is one Connect that starts a goroutine; the nonces of the code are
random and unique, so sessions are numbered in the order of their Connects.
`status` is `sshConnectionStatus`, `upstream` and `controlPath` the session they
were taken from, `latest` the one that `s.ctx`, `s.done` and `s.wake` belong to.
Per session: `pc` (where `Connect`'s goroutine and `runSSH` are), `cancelled`,
`wake`, `ever`, `result`, `child`, `timer`, `failures`, and the lines that the
readers have taken and not recorded (`stdout`, and `orphan` once their attempt is
over). Every section under `s.mu` is one action.

Environment: users who Connect and Disconnect, a native host that ends, an SSH
child that says it is ready, asks for a sign-in or an authentication, prints an
error, dies, or goes silent, and probes that fail. Left out: port numbers and the
failures of reserving one (such a Connect changes nothing), error texts, and the
terminal process that shares `active_host`.

`RemoteSession` says in nine lines of state change what the extension relies on:
sessions get their turn one at a time and in order, the SSH link belongs to the
last one admitted, and the phase shown speaks of the session that owns it.
`SSHSession` implements it with `phase <- status.state`, `owner <- {status.sid}`
unless disconnected, `asked <- 1..latest`, `admitted <-` the sessions past their
wait, `link <-` the sessions with a child.

### RemoteRoute

State of the worker: `route`, `ssh`, `revision`, `creds`, `attempts` as in
`network.js`; state that survives it: `ours` (the proxy setting), `stored` (the
route in storage), `other` (someone else controls the proxy). `mut` holds the
requests in the order in which `mutate` chained them, each with the `await` it is
at; `poll` and `auth` are the poll and the challenges, which run beside them.
`call`, `wire`, `got` are the three stages of a `nativeRequest`: asked, seen by
the helper, answered. A helper serves its requests in any order (one goroutine
each) or after the worker has given up on them.

### TetherLifecycle

`boot` is the restore of the saved state, `request` the calls of `connectTether` and
`reconnectTether` with the `await` each is at, `disc` the single `disconnectTether` in
progress, `writes` and `network` the two promise chains (`tetherStorage` and the
mutations), `command`, `attaching`, `attached` and `debugging` the agent's commands and
Chrome's debugger. `port`, `timer` and `session` are the native port, the reconnect
timer and the host of the SSH session of the helper behind the port: a helper is a
process of its own per port. Chrome is taken to detach its debugger whenever it is asked
to; the code ignores a failure of it (`background.js:317-323`). An operation of
`network.js` is one element of `network` here, done well or badly in one step;
`RemoteRoute` is what one of them does.

### NativeBridge

`call` and `lock` are `ExtensionDriver.call` with its mutex and two attempts, `conn` its
connection, `closers` the connections that a cancelled context is about to close
(`context.AfterFunc`); `wire` both ends of each connection and the line on it; `handler`
the goroutine per connection, which gives it up when the driver has, when the host ends,
or at its own deadline, which bounds a read and its reply; `number`, `pending`, `answer`
the bridge's counter, map and channels; `reader` the goroutine of `StartReader`; `ops`
the commands the service worker is executing, which outlive the port they came from. A
result is the call it was executed for.

### LaunchLock

`lock` is the directory with its owner file, its maker and whether it is more than
30 s old; `pc` a launcher's place between two system calls, `sawOld` the age and
`sawOwner` the token it read before it judged them. `os.RemoveAll` is two steps, the
files and then the directory, as in the library. Processes are killed between any two
steps, or end when they launch nothing. A directory gets 30 s old whenever it likes,
whoever holds it: nothing in the code keeps a launch shorter than that. `lapsed`
records, for the properties only, that one did, or that the process of a token that
a waiter had or could get came to its end: from then on some waiter may take a lock
for stale.

### Daemon

`ask` is `ensureDaemonRunning`, per request, each of its calls to port 9333 a step
of its own; a request that finds the port free starts the daemon of its name. `at`
is where a daemon is in `runDaemon` and `LaunchChrome`, `proxy` the port its
forward proxy has, `browser` what it drives, `rpc` who has port 9333, `term` who
was sent SIGTERM. `chrome` is the Chrome of the profile with the daemon that
started it, the port it was started with and whether it answers on its debugging
port; `portFile` the recorded port. A launch goes through `LaunchLock`'s steps
(`Enter`, `Locking`, `Unlock`), and between taking and releasing the lock through
its own: adopt, or kill, start, wait, record. A daemon's end is the code's deferred
calls in their order. A wait for Chrome that times out has made the daemon's lock
30 s old (`NotFound`). A daemon that is killed leaves its Chrome and its lock, and
frees its ports. A context that is over kills the Chrome it was given to
(`exec.CommandContext`) at any moment.

### TabGroup

The handlers of `nativeHandlers` are scripts: the sequence of what they await, put
together as the code puts it together from `ensureDomain`, `resolveCoordinates` and the
rest; the actions interpret them. `cmd` holds the requests in progress, each with what
it still has to do. `group`, `page`, `tree`, `web` and `debugging` are Chrome's side,
`events` what it has not told the worker yet, per tab and in order; `groupId`,
`groupTabs`, `active`, `attached`, `attaching`, `refs` and `snaps` are the variables of
the code. `seen` is the document the worker was last told of, `given` the tabs that ever
were Tether's.

`known` is the last snapshot the agent got. It outlives a Disconnect, as the generation
a client holds does, and says for the properties only whether it is one of this
connection; the answer that carries a snapshot may be lost. `verdict` is what an answer
claims, against what is so (`Compared`). A tree is what a fingerprint is taken of
(`text`) and what it leaves out (`focus`): `computeTreeHash` hashes the address with the
first, `Redraw` changes either. `page` counts documents and addresses: `Navigate` is a
new document, `ChangesAddress` the same with a new address, which `onUpdated` takes for
a new one too (`changeInfo.url`). An event whose handler awaits an answer of Chrome is
taken in two steps: `onActivated` and `LookedAt`, `onCreated` and `Joined`.

Assumed of Chrome: the commit of a navigation is what `onUpdated` reports as loading,
and of one tab its answers and events arrive in order. Abstracted: `computeTreeHash` has
no collisions, the calls that enable one domain or test a hit are one step, and
`browser.wait` polls a bounded number of times. Ports and the saved state are those of
`TetherLifecycle`; here `link` is on, off, or off with everything detached.

### Review

The page is one thread, so each handler of `overlay.js` is one action; a `job` of the
worker is an area capture, from `startCropMode` over polls and the screenshot to
`finishCrop`. `notes` are the annotated elements in order; `pins`, `badges`, `rows`
and `dockCount` what the page shows of them; `editing` and `pending` the card;
`listening`, `tracking`, `catching`, `reticle` and `clickable` what the overlay keeps
registered. `request`, `result`, `dialog`, `frames`, `resume` and `hidden` are the
capture's side of the page. `stored`, `lost`, `reopen` and `popups` record what the
jobs have done. Where things are drawn and what a note says is left out.

### Gallery

`storage` is the stored list, `shots` the popup's copy, `replies` the answers of storage
calls that will be assigned to it, `got` the list as an area's job read it: everybody
writes a whole list. `local`, `remote` and `made` are the files, `queue` the requests on
files that the worker serialises, `handler` and `asked` the Delete and the Clear under
way. The helper carries out a request in two steps, the local files (`DeleteLocal`),
which ends the request at the first that it cannot remove, and the copies
(`DeleteFiles`), each of which goes if its own server is the one connected when its turn
comes; it may stop in either, and the answer may be lost. The server is chosen anew at
each use, which is what a popup that asks for the status each time sees. One Delete and
one Clear at a time and one load of the popup at a time; wording of errors is left out.

### CDPDriver and Broker

`targets` and `active` are `d.targets` and `d.activeTarget`; `run` holds a goroutine of
the daemon per request, each section under `d.mu` or `c.mu` and each call to Chrome an
action; `conn` the connections with their socket (`up`), `c.closed` (`closed`) and
whether the pump has failed the calls (`failed`). What a command does to its page is one
call; the enabling calls of a new connection are part of the time between dialling and
storing it. Dialling may fail whether or not the tab is there.

`path` is the broker whose socket the path leads to, `broker` where each process is,
`record` its `sessionTargets`, `call` the commands, and `opener` the session that
opened each tab. A broker's closing takes two removals of the path, by its listener
and by `Run`, and both go by name. A check that a broker answers is one step and what
is done about it another. A deadline is an answer that comes too late: the daemon
finishes the request and the broker records nothing. The initial states are a fresh
daemon without a broker and one in which a session has opened its tab.

## 3. The runs

| Run | Module, configuration | What it shows |
|---|---|---|
| `ssh_session` | `SSHSession.cfg`: two hosts, one behind NetBird, two sessions, two failed probes | `StatusIsTrue`: one child, published state of the current session only, no sign-in after authentication, `active_host` follows; `CloseReapsAll`; `StaleSessionSilent`; `SessionsLive`: sessions run, losses are noticed, Close returns; `KeepsContract`: refinement of `RemoteSession` |
| `route_safety` | one host, two ports, two requests of any kind, two helpers, old and recent, failing Chrome calls | `ActiveProxyIsStored`: persisted before applied; `StatusIsOfThisHelper`: nothing outlives its helper, an old helper never connects; `RouteByConsent`: the proxy changes by consent only, the sign-in tab is off the route |
| `route_auth` | a challenge, OFF and connect, two sessions, two helpers; nobody else controls the proxy | `AnswersOwnChallenge`: credentials once, and only to their own helper |
| `route_off` | two requests of any kind, one helper that need not answer, timers that fire | `OffWins`: effects in the order of the requests, and OFF ends |
| `tether_lifecycle` | two hosts, one tab, one command, two requests, four revisions, failing Chrome calls | `DisconnectLeavesNothing`, `LatestRequestHolds` (cancelled requests disturb nothing, the saved state is what is enabled), `DisconnectCompletes`: a Disconnect that reports no failure has saved that Tether is off and taken the route away; `LifecycleSettles`: a Disconnect ends, and a lost helper is replaced while Tether is connected |
| `bridge_safety` | two calls, two connections, two hosts, cancelled contexts | `OwnResponseOfHost`: own results from one host; `InStep`: connections in step; `PendingAwaited`: every pending entry has a waiter and an empty channel, so that the reader never blocks |
| `daemon` | a daemon of an older version or none, two requests, one daemon told to stop, one killed | `KeptFromTheLiving`: until a lock lapses, nobody takes it from under the daemon that took it; `ChromeIsDriven`: until then a Chrome has one driver, uses that driver's proxy and ends with its starter; `DaemonSettles`: a started daemon serves or ends, also when the lock is broken under it |
| `launch_slow` (violation) | two requests, no kill, no signal | `LaunchesSerialized` fails, see Findings |
| `tabs` | three tabs, one of the user's; two requests of eight methods, the second a snapshot; one act of the user, one of the pages, one poll | `RefsOfSeenPage`, `OwnTabs`, `UnmodifiedIsSame` (within a document, address and connection, the focus aside), `AttachmentsShared` (no second attach, every waiter woken) |
| `review` | two elements, two notes, two captures, one reload; symmetry | `NotesAgree`, `QuietWhenStopped`, `OwnArea`, `CleanShot`, `CaptureEnds` |
| `gallery` | three captures, two of the popup and one area, one old entry, two servers, two openings, two acts; symmetry | `ServerPathIsCopy`: an entry names a server only for a copy; `RemovedIsGone`: what is removed has no file left where it was |
| `agent` | three tabs, two commands, two brokers on the socket of a dead one, the default and a named session, three connections, one stop, kill or closed tab | `SessionsIsolated`: a session's command never acts on another tab while its own is open; `LossEndsCall`: a request on a lost connection ends |

The runs whose module declares one also check its `TypeOK`.

### Bounds, and why they are enough

* *Sessions, 2.* What a session can disturb is its successor; the chain of waits
  is between neighbours. The theorems hold for any number.
* *Requests, 2; helpers, 2; ports, 2* in `RemoteRoute`: an operation, one that
  overtakes it, and the helper it was not meant for. Retries of the same request
  are covered by the poll. Three requests with everything else free are beyond a
  run of a few minutes; `mutate` chains them, so that a third only waits.
* *Requests, 2; revisions, 4; network operations, 2* in `TetherLifecycle`: a
  Connect, the Disconnect that cancels it, the Connect after it while the first
  still runs, and the Disconnect after that; `Requests` slots are reused.
* *Connections, 2; hosts, 2; numbers, 4* in `NativeBridge`: a call uses at most two
  connections, and two calls can share one or follow each other on it; two calls of
  two attempts register at most four commands.
* *Daemons, 3; told to stop, 1; killed, 1* in `daemon`: one that serves or was
  killed, the one that replaces it, and one that was started beside it. A stop by an
  upgrade counts: with an old daemon the signal is the upgrade's. Liveness is checked
  with the same three, which wait for each other's lock, port and Chrome; the daemon of
  an older version has started already. The theorems have no bound.
* *Requests, 2; user, 1; page, 1* in `TabGroup`: a handler is disturbed by one that
  overtakes it, by one act of the user, and by one of the pages (a navigation, a change
  of address, content or focus, a tab opened), at any of its awaits. The runs leave out
  (`Early`) what a document does by itself before the agent has a snapshot, which has
  nothing to be compared with; the theorems do not. The second request is a snapshot,
  which touches every variable there is; any method may be the first. One poll of
  `browser.wait` is a poll in the middle.
* *Notes, 2; captures, 2; reloads, 1* in `Review`: the note that is cleared and the one
  that takes its number, the capture that is superseded and its successor, the document
  before and after. The theorems hold for any number.
* *Captures, 3; acts, 2; openings, 2* in `Gallery`: a list that is written over another,
  beside a deletion, in a popup that has been closed and opened again.
* *Commands, 2; brokers, 2; events, 1* in `Broker`: two requests that meet in the
  driver, after a session has opened its tab or before; a broker that leaves and the
  one that comes; one stop, signal, kill or closed tab at any step. Three connections
  are one for each tab, or two for the same.

`CHECK_DEADLOCK FALSE` appears where the system really stops: all calls of the driver
have returned, all daemons have ended, or the requests, acts and commands that a bound
allows are used up (`tabs`, `gallery`, `agent`).

### Fairness, and why the code justifies it

Every goroutine and every promise reaction that can run does run: the Go scheduler
and the event loop are fair (weak fairness per goroutine, request or call). Timers
fire (a deadline, a backoff, a reconnect timer). Children that were killed are
reaped. A socket that is down makes the read of its pump fail (`agent`, where one
weak fairness condition for all of the daemon's goroutines is enough, as each ends
after finitely many steps). A waiter for the launch lock and for Chrome gives up in the
end (30 s each), and the directory of a lock that stays grows old (`Aging`). Nothing is assumed of
users, of helpers that answer, of SSH that connects, or of Chrome calls that
succeed; where a property needs an operation of Chrome to end, it may end badly.

## 4. The proofs

The theorems of `SSHSession_proofs`, `RemoteRoute_proofs`, `TetherLifecycle_proofs`,
`NativeBridge_proofs`, `Daemon_proofs`, `TabGroup_proofs`, `Captures_proofs` and
`Broker_proofs` hold for every value of the constants that the `ASSUME`s of the modules
allow. The assumptions say that `None` is nothing else, that bounds are natural numbers
and that the sets of operations, methods and kinds are those of the code; those that
say more are named below.

**SSH session.** The invariants that TLC checks are not inductive. What they lack
is the queue of sessions: that sessions start in the order of their numbers, that
every one but the latest is cancelled, and that one leaves its wait only when all
earlier ones are done (`Queue`). From it follows where a child can be
(`Children`: exactly at the steps of an attempt, so that there is one child), to
whom the published state belongs (`Shown`), and what Close can rely on
(`Returned`: it waits for the latest, which waited for the others). `IInv` is
`TypeOK` with these four and the three invariants that need no more. The proof of
`Inductive` has one lemma per conjunct and in it one step per action. From `IInv`:

* `TypeCorrect`, `StatusTrue` (from `ChildrenExclude`, `ConnectedOwned`, `SignInOver`
  and `ActiveHostCleared`), `CloseReaps`: the invariants of the run `ssh_session`;
* `DisconnectedLasts`, `StaleIsSilent`: its action properties;
* `HelperKeepsContract`: `SSHSession` implements `RemoteSession`. Each action maps
  to one step of the contract or to a stutter (`ContractStutters`).

**Remote browsing.** All the safety of the runs `route_*`, for any number of requests,
sessions, helpers, hosts and ports. `Serial` is the chain of `mutate`: a request that has
begun has only ended ones before it, so one runs at a time, and `Counted` is what bounds
the revision by them and by the ports lost. `Prepared` is what a request has made sure of
before each `await` that matters: a route before the proxy is applied, a proxy that is no
longer ours before the storage is cleared. `FromHelper` is why late replies are harmless:
what is on the wire, in a reply that was not lost, or kept by a request of the current
revision is of the helper behind the open port (`Replies`, `OnWire`, `Revised`). `IInv` is
these with `TypeOK`, `GivenOnce`, `ActiveProxyIsStored` and `StatusIsOfThisHelper`; a step
is that of a request, of the poll, of a challenge or of the environment, and the steps of
the first two are taken apart into what they do to the calls (`Moves`, `PollMoves`) and to
the route (`Routing`, `Showing`, `Reaching`). From it follow `RouteTypes`, `ProxyIsStored`
and `StatusOfHelper`, and the action properties `ProxyIsTheUsers` (`RouteByConsent`),
`CredentialsOnce` (`AnswersOwnChallenge`) and `RequestsInOrder`, the safety half of
`OffWins`.

**Lifecycle.** `DisconnectLeavesNothing`, `LatestRequestHolds` and `DisconnectCompletes`,
for any number of hosts, requests, tabs and commands (at least one tab: the model gives an
idle command some tab). The argument is about the two chains of promises. A request asks
once in each (`Once`), and what opens something comes before what a Disconnect closes
(`Precede`), so that a Disconnect that gets its turn has every earlier Connect behind it
(`Operated` for `network.js`, `Stored` for the saved state). `Calls` says that one open
request is the current one and the others are cancelled by the Disconnect in progress,
`Ports` and `Hosted` whose port, session and saved state those are, `Closing` what a
Disconnect has done at each of its steps. `Debugged` and `Awaited` are the debugger and
the commands: an attachment is known to the worker or about to be undone, and a Disconnect
waits for every command that it found. `IInv` is `Control` (the connection) and
`Automation` (the debugger), and each action has one lemma for each. Its consequences are
`LifecycleTypes`, `NothingIsLeft`, `LatestHolds` and `DisconnectKeepsItsWord`.

**Native bridge.** The invariants of `bridge_safety`, for any number of calls,
connections, hosts and commands. `Lines` is the discipline of the connections: the mutex
serialises the calls (`OneCaller`), a connection carries one line at a time (`OneLine`),
and the driver's carries nothing while no call reads (`QuietConn`), whatever cancelled
contexts close. From it `StaysInStep`. `Numbered` adds that a number is given once and is
in the map only while its handler waits, with an empty channel (`PendingIsAwaited`). For
`OwnResult`, `OwnAnswers` says, as long as there was one host, that what bears the number
of a waiting command - a command in the worker, a reply with the reader, a value in the
channel - is for the call it came from. Across hosts this is false (section 5).

**Launch lock.** `Calm` says what holds until a lock lapses: nothing is old
(`NothingOld`), the process of every token that a waiter has or can get is there
(`TokensLive`), so nobody breaks (`NobodyBreaks`), so a launcher has from its mkdir to
its rmdir the directory that it made, with its token in it from the write to the
removal (`HoldersOwn`). `LockKept` and `LockExcludes` follow for any number of
launchers, with no assumption on how long a launch takes or on who is killed: a launch
of 30 s, or the end of a holder, is a step of the specification, and the properties say
what is kept until then. That nothing is kept afterwards is a finding (`launch_slow`).

**Daemons.** `DaemonsUseLock`: every step of the whole system of daemons is a step of
one launcher or leaves the lock alone, so `Daemon` implements `LaunchLock`, and what is
proved of the lock holds of the daemons (`DaemonKeepsLock`, `DaemonsExclude`).
`LockGivesOneDriver` is what the lock is for: as long as no two daemons hold it, a
Chrome has one driver, kills or not. Its invariant is `Driving`: a daemon has a browser
only when it has found one (`FoundLast`), the Chrome that runs is its starter's, or of
one that was killed (`StarterDrives`), while a daemon holds the lock to start one there
is no other (`OnlyOwn`), and who drives it has the recorded port (`RecordedPort`); it
rests on types, on bound ports that differ and on who may be starting (`Base`). That the
recorded port is also the one that Chrome was started with (`PortOfChrome`) needs that
no daemon was killed while it launched, which a lapse records. With `DaemonsExclude` the
two give `OneDriverPerChrome`: `ChromeIsDriven`, until a launch lock lapses.

**Tab group.** All five invariants of the run `tabs`, for any number of tabs, requests
and acts. `OwnTabs` needs `Grouped` and `Held`: the tabs that Tether lists, acts on or
is about to group are those it was given, which needs of the events that are queued that
they speak of such tabs (`Admitted`). `AttachmentsShared` needs `Attended`: the worker
knows of a session of the debugger, or is undoing it, and one whose end it has still to
be told of is over. `RefsOfSeenPage` and `UnmodifiedIsSame` are about documents: the
events that Chrome has queued lead from the document the worker knows to the one that is
there (`Told`, with `Leads` as the path between them), and whatever a snapshot of this
connection told, kept by the agent or on its way to it, is what the worker still holds
unless the document, its address, the generation or what a fingerprint is taken of has
changed since (`Comparable`). A request is a list of steps that is used up, and `Typed`
says which steps those are (`Script`). Theorems: `TabTypes`, `OwnTabsOnly`,
`SharedAttachment`, `RefsNameSeenPage`, `UnmodifiedMeansSame`.

**Review.** All six invariants of the run `review`, for any number of elements, notes,
captures and reloads. `NotesAgree` and `QuietWhenStopped` are nearly inductive on their
own (`Page`, with the types of notes and card): one lemma each says that starting,
stopping, giving the page back and taking it over keep them, and `PageKept` takes the
actions one by one. What they lack is who holds the page: it is hidden exactly while
there is something to restore, which is for a request, and the dialog and the result are
that request's (`Holder`). The captures need to know what a job has of the page: at its
screenshot its area is its own, and the page is held for it until it is cancelled
(`Jobs`); from it follow `OwnArea` and that a page taken over has a job that will give
it back, unless that one's end was lost, in which case it is over (`Ends`). `IInv` is
`TypeOK`, `NotesAgree`, `QuietWhenStopped`, `Holder`, `Jobs`, `OwnArea` and `Ends`; each
has a lemma `...Kept` with one step per action. `ReviewTypes`, `NotesStayTrue`,
`StoppedIsQuiet`, `StoresItsOwn`, `ShotIsClean` and `CapturesEnd` are its consequences.

**Gallery.** Both invariants of the run `gallery`, for any number of captures, servers,
openings and requests. A list may lie in six places - stored, shown, in the answer of a
storage call, read by an area's job, asked of a handler, in a request on files - and is
written over another at any time, so the invariant is about every list there is
(`Fits`): a capture is in a list only after it was put into the gallery, the copy its
entry names was made, and where an entry names none there is none left. It holds of a
list that is old because files appear only for captures that are in no list yet
(`Forward`), which is the one fact about the steps that the lists need. To it come that
an old capture's entry keeps its path (`Whole`), which is why the server that a user
confirms never lands on an entry without a copy, that an entry under way is true of its
copy (`Copies`), that a request which has come to its copies has no local file left
(`CopiesNext`), and that what a handler has heard to be deleted has none (`Heard`) until
it takes the entries out (`Gone`). `GalleryInv` is all of these; each action has a
lemma. `NamedCopiesWereMade` and `RemovedStaysGone` are its consequences. The captures
of an earlier session are assumed to be other files than those of this one.

**Sessions.** `SessionsStayApart`: the invariant of the run `agent`, for any number of
tabs, sessions, brokers, commands, connections and events. Most of it is about a single
request (`Request`): its connection, once it has one, goes to its tab (`Linked`, with
`Targeted` for the driver's map), it is at a step of its method and belongs to the
command that asked for it (`Staged`), an `open` has opened its tab for the session of
its command (`Opens`), and a command of a named session has the session's tab as long as
that is open (`Keeps`). No other goroutine disturbs these, because a step changes one
request only (`Only`), tabs do not reopen (`TabsKept`), a connection keeps its tab
(`ConnsKept`) and a tab its opener (`OpenersKept`); `RequestKept` and `RequestGoesOn` turn
that into the invariant. `Recorded` says whose tab a broker remembers, and holds because
the answer of an `open` that succeeded carries a tab that its own session opened. The
assumptions: no session is called `None`, and `--tab` names tabs.

**Model-checked only.** Fairness and ENABLED are out of the prover's reach, so all
liveness stays with TLC: `SessionsLive`, `OffWins` (but for the order of the effects),
`LifecycleSettles`, `DaemonSettles` and `LossEndsCall`. Every safety property that a
passing run checks is proved. The property of the violation run, and those that section 5
names, are false.

## 5. Findings

With a run that ends in a counterexample:

* `launch_slow` - `launcher.go:348` says that the lock "serializes concurrent launchers
  for one profile" and that *abandoned* locks break after a timeout. A waiter breaks
  every lock that is more than 30 s old (`:388`), before it looks at its own deadline
  (`:393`), and a launch may take longer than that: it looks for a Chrome, kills a stale
  one for up to 5 s (`:151`, `:323-327`) and waits up to 30 s for the next one's port
  (`:192`). With nobody killed, the second of two daemons removes the lock of the first,
  which still waits, kills the Chrome that it has started, and starts its own; both find
  its port (`:189-192`), and drive it: with the same constants TLC finds `OneDriver`
  violated too, and `HolderKeepsLock` and `Exclusive`.

Without a run of their own. Where a property is named, the module defines it and TLC
finds it violated when it is added to a configuration, that of the module's run where
no constants are given:

* `ServedChromeLives` (`Daemon`, the constants of `launch_slow`) - `launcher.go:142-143`
  kills "only our own stale profile processes" and promises no manual recovery. A Chrome
  started with another proxy port is taken for stale even if a live daemon drives it. Of
  two daemons that were started at the same time, the second cannot have the recorded
  proxy port, so it kills the first one's Chrome, starts its own, and then ends with it
  because port 9333 is taken. The first goes on serving without a browser, and
  `ensureDaemonRunning` never replaces a daemon that answers: requests fail after 15 s
  until it is stopped.
* `FocusIsTracked` (`TabGroup`, two snapshots, one act of the pages) -
  `protocol/snapshot.go:62` says that the hash of a tree takes in "all observable
  states", and takes the focus in (`:78`). The extension, which answers, leaves it out of
  the fingerprint (`background.js:636`) though the nodes of the answer carry it (`:701`):
  a snapshot after which only the focus has moved is told unmodified.
* `GenerationIsReal` (`TabGroup`, the same with one act of the user) - `CHANGELOG.md:126`
  speaks of "real `generation` and `modified` state tracking". A Disconnect forgets the
  generations of all tabs (`background.js:327`) but the client keeps the one it holds
  (`protocol/snapshot.go:43`). After a reconnection a tab's snapshots count from one
  again (`background.js:713-717`) and are compared by that number alone (`:735`): a
  client that holds generation 1 of before is told that a document is unmodified which
  has changed meanwhile.
* `OwnResponse` (`NativeBridge`, two calls, two hosts) - `native_host.go:258` says that
  `Call` waits for *the* response. Request numbers start again at one with every native
  host, and the worker posts the reply of a command of the old host to the current port
  (`background.js:334`): a call can return the result of another one's command.
* `LinkOfThisAttempt` (`SSHSession`) - `ssh_session.go:38` and `:200` say that the
  sign-in link belongs to the attempt. The stdout reader is not joined when `runSSH`
  returns, so a link it has read can be recorded at `:405` after the attempt's result
  was taken; it is shown during the backoff and the next attempt, and if that one fails
  before authentication it ends the retries (`:202`).
* `HolderKeepsLock` (`LaunchLock`, three launchers, one killed) - `launcher.go:349-350`
  says that the token keeps delayed breakers from deleting a replacement lock. Releases
  compare it, breakers do not: two waiters that judged the same lock stale remove it
  twice (`:389`), and the second removes the lock that the first has made.
* `UnmodifiedIsSamePage` (`TabGroup`) - a client names the generation it holds
  (`protocol/snapshot.go:43`) and is told whether the page was modified since;
  `CHANGELOG.md:126` speaks of "real" tracking. As a reconnection, a navigation starts
  the generations of a tab again (`background.js:735`), so a client that holds
  generation 1 of the last document can be told that it holds the new one.
* `CapturesStay` (`Gallery`) - the popup writes the gallery from its copy
  (`popup.js:157`), and an area's job from what it read an `await` earlier
  (`background.js:1716-1731`): of two captures that are stored together one is lost
  from the list, though its file stays (`README.md:233` says that popup captures stay in
  the gallery if mirroring fails).
* A capture that is superseded while its screenshot is under way stores a picture with
  the new capture's dialog on it: after `handleScreenshot` nothing asks again
  (`background.js:1701`). `CleanShot` holds for the capture the page is held for, which
  is the case that `scripts/check_popup.mjs:922` tests.
* `launcher.go:139-140` adopts a Chrome "only when it provably serves CDP for OUR proxy
  configuration". A daemon killed between `cmd.Start` and `recordChromeProxyPort`
  (`:186-199`) leaves a Chrome with its own port beside the record of an earlier one,
  and the next daemon, which has the recorded port, adopts it (`OwnProxy`).
* `OneDriver` (`Daemon`, three new daemons, one killed) - two daemons that
  wait for the lock of a killed one can both take it, as under `HolderKeepsLock`, and end
  as in `launch_slow`. Hence `ChromeIsDriven` is stated until a lock lapses, and
  `LockGivesOneDriver` as long as the lock excludes.
* `cli/main.go:95` says that named sessions need the broker "for isolated target
  tracking". When the tab of a session is closed by somebody else, `getTargetClient`
  falls back to the last page that Chrome lists (`driver.go:349-351`), and the session's
  next command acts there, on what may be another session's tab. `SessionsIsolated` is
  stated while the session's tab is open.
* `broker.go:121-125` - a broker that ends removes the path twice, by its listener and
  by name. A broker that bound the path in between serves without a path: nobody finds
  it, and the next command of a named session starts a third one, whose records are
  empty.
* `driver.go:375` - two requests that dial the same tab store one connection over the
  other, which stays open; and a connection that died stays in the map, so that every
  later request on its tab fails although the tab is there.

## 6. Not modelled, and why

Of the modelled parts: ports and error texts of the SSH session; badge and title of
`network.js`; `isDaemonConnected` in `background.js`; the counts of `bridge_status` and
system messages of the native host; of daemons, explicit `--proxy-port`, `--chrome-url`
and `--no-chrome`, those older than 0.1.36 (`daemon_upgrade.go`), callers that are
cancelled, and a Chrome that its user closes. Of the review: what a note says of its
element, which is the pure first third of `overlay.js` (lines 8-650), copying,
`handleReviewList` and `enrichReviewFrameworks`, which need the notes' contents. Of the
popup: the connection and network panels, which render the worker's answers and send
the requests of `TetherLifecycle` and `RemoteRoute`; a status that was asked for before
a Disconnect may be drawn after it, until the next poll two seconds later. Of the
screenshots: where a file lies on a server and its permissions. Of the driver: the page
commands themselves, references and generations, and the frames of the WebSocket. Of
the broker: the private directory, credentials and the log.

The rest is in the table of section 1: parts that are byte pipes, encoding, files
written once or user interface are left out for good. The programs under `scripts` are
tests of the extension; they were read as statements of what it should do.

## 7. Plan

1. `ProxyServer` - accept, track and Close of the forward proxy: Close closes every
   connection, also one accepted beside it (`proxy.go:190`).
2. `CDPDriver` with references and generations, as in `TabGroup`.

Order: first what decides where the user's traffic and the agent's commands go, then
what decides which processes exist, then the rest.
