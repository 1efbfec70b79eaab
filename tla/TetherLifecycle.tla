--------------------------- MODULE TetherLifecycle ---------------------------
(***************************************************************************)
(* Connect, Reconnect and Disconnect of the extension's service worker     *)
(* (packages/extension/background.js), against everything that runs beside *)
(* them: the native port and its reconnect timer, the saved connection,    *)
(* the chain of network operations of network.js, the attachment of        *)
(* Chrome's debugger, and the agent commands that use it.                  *)
(*                                                                         *)
(* The worker is one thread: what runs between two awaits is one action.   *)
(* Two chains of promises serialise its calls: `writes`, the values that   *)
(* saveTether stores, and `network`, the operations of network.js (each    *)
(* modelled in full by RemoteRoute; here an operation is asked for, and    *)
(* ends well or badly).  The helper's SSH session is its host or None: a   *)
(* helper is a process of its own behind each port.                        *)
(***************************************************************************)
EXTENDS Integers, Sequences, FiniteSets

CONSTANTS Hosts,        \* the SSH hosts a user may enter
          None,         \* no host
          Tabs,         \* the tabs of the Tether group
          Commands,     \* the agent or popup commands that may be in flight
          ChromeFails,  \* TRUE: calls of Chrome's storage and proxy may fail
          Requests,     \* the connect or reconnect requests in progress
          MaxRevision,  \* bound on tetherRevision
          MaxNetwork    \* bound on the operations waiting in the chain

ASSUME HostsAssumption == None \notin Hosts
ASSUME TabsAssumption == Tabs # {}
ASSUME FailsAssumption == ChromeFails \in BOOLEAN
ASSUME RequestsAssumption == Requests \subseteq Nat \ {0}
ASSUME RevisionAssumption == MaxRevision \in Nat /\ MaxNetwork \in Nat

VARIABLES
  boot,        \* tetherReady: "read", "save" or "ready"
  enabled,     \* tetherEnabled
  connecting,  \* tetherConnecting
  revision,    \* tetherRevision
  host,        \* tetherHost
  request,     \* connectTether and reconnectTether, per call
  disc,        \* tetherDisconnecting, and how far it got
  port,        \* nativePort # null
  timer,       \* reconnectTimer # null
  saved,       \* chrome.storage.local: tether_enabled and tether_host
  routed,      \* the remote route is set (and stored)
  writes,      \* tetherStorage: the writes not yet done
  network,     \* mutations of network.js: the operations not yet done
  session,     \* the host of the SSH session of the helper behind the port
  command,     \* where each command is
  stale,       \* the commands that started before the last Disconnect
  attaching,   \* attachingTabs: how far the attachment of each tab got
  attached,    \* attachedTabs
  debugging    \* the tabs Chrome's debugger is attached to

connection == <<enabled, connecting, revision, host, request, disc>>
helper     == <<port, timer, session>>
chains     == <<saved, routed, writes, network>>
automation == <<command, stale, attaching, attached, debugging>>
vars       == <<boot, connection, helper, chains, automation>>

-----------------------------------------------------------------------------

Idle    == [pc |-> "idle", kind |-> "connect", rev |-> 0, host |-> None]
NotDisconnecting == [pc |-> "none", by |-> 0, failed |-> FALSE, waits |-> {}]
NoCommand == [pc |-> "idle", tab |-> CHOOSE t \in Tabs : TRUE]

Active == {c \in Commands : command[c].pc # "idle"}

\* The module state of a worker that starts.
Forget ==
  /\ boot' = "read"
  /\ enabled' = FALSE /\ connecting' = FALSE /\ revision' = 0 /\ host' = None
  /\ request' = [n \in Requests |-> Idle]
  /\ disc' = NotDisconnecting
  /\ port' = FALSE /\ timer' = FALSE /\ session' = None
  /\ writes' = <<>> /\ network' = <<>>
  /\ command' = [c \in Commands |-> NoCommand] /\ stale' = {}
  /\ attaching' = [t \in Tabs |-> "none"] /\ attached' = {} /\ debugging' = {}

\* A new installation, one that saved its state, or a legacy one that only
\* stored its route.
Init ==
  /\ boot = "read"
  /\ enabled = FALSE /\ connecting = FALSE /\ revision = 0 /\ host = None
  /\ request = [n \in Requests |-> Idle]
  /\ disc = NotDisconnecting
  /\ port = FALSE /\ timer = FALSE /\ session = None
  /\ writes = <<>> /\ network = <<>>
  /\ command = [c \in Commands |-> NoCommand] /\ stale = {}
  /\ attaching = [t \in Tabs |-> "none"] /\ attached = {} /\ debugging = {}
  /\ \/ saved = [enabled |-> "unset", host |-> None] /\ routed = FALSE
     \/ \E h \in Hosts : saved = [enabled |-> "unset", host |-> h] /\ routed = TRUE
     \/ \E h \in Hosts, e \in {"yes", "no"} :
          saved = [enabled |-> e, host |-> h] /\ routed \in {FALSE, e = "yes"}

-----------------------------------------------------------------------------
(* The native port.                                                        *)

\* connectNativeHost, when Tether wants it: opening the port, or failing to
\* and scheduling another try.  A restored connection asks for its SSH.
\* `en` and `h` are tetherEnabled and tetherHost at that moment, `ops` the
\* network operations asked for next.
connectNativeHost(en, h, tm, ops) ==
  IF port THEN UNCHANGED <<port, session>> /\ timer' = tm
               /\ network' = network \o ops
  ELSE \/ /\ port' = TRUE /\ session' = None /\ timer' = tm
          /\ network' = (IF en /\ h # None
                           THEN Append(network, [op |-> "connect", by |-> 0,
                                                 host |-> h])
                           ELSE network) \o ops
       \/ UNCHANGED <<port, session>> /\ timer' = TRUE
          /\ network' = network \o ops

\* Mutant: only a connection being made reopens the port.
WantedWhileConnecting == ~port /\ connecting /\ disc.pc = "none"

Wanted == ~port /\ (enabled \/ connecting) /\ disc.pc = "none"

\* The reconnect timer, and the alarm that backs it up.
TimerFires ==
  /\ timer
  /\ IF Wanted THEN connectNativeHost(enabled, host, FALSE, <<>>)
               ELSE timer' = FALSE /\ UNCHANGED <<port, session, network>>
  /\ UNCHANGED <<boot, connection, saved, routed, writes, automation>>

Alarm ==
  /\ enabled /\ Wanted
  /\ connectNativeHost(enabled, host, timer, <<>>)
  /\ UNCHANGED <<boot, connection, saved, routed, writes, automation>>

\* handleNativeDisconnect: the helper is gone, and its SSH session with it.
\* What waits for an answer of the helper fails; see SSHFails.
PortLost ==
  /\ port
  /\ Len(network) < MaxNetwork
  /\ port' = FALSE /\ session' = None
  /\ timer' = (timer \/ enabled \/ connecting)
  /\ UNCHANGED <<boot, connection, chains, automation>>

-----------------------------------------------------------------------------
(* Disconnect, and how a connection being made fails.                      *)

\* The part of disconnectTether before its first await, with its write behind
\* the writes `rest`; tetherReady has resolved whenever it is called.
beginDisconnect(by, rest) ==
  /\ revision' = revision + 1
  /\ enabled' = FALSE /\ connecting' = FALSE /\ timer' = FALSE
  /\ writes' = Append(rest, [enabled |-> "no", host |-> None, by |-> -1])
  /\ disc' = [pc |-> "save", by |-> by, failed |-> FALSE, waits |-> {}]
  /\ stale' = Active

\* The catch and finally blocks of connectTether and reconnectTether.
failed(n, rest) ==
  LET r == request[n]
  IN  IF r.kind = "connect" /\ r.rev = revision
        THEN /\ request' = [request EXCEPT ![n].pc = "closing"]
             /\ beginDisconnect(n, rest)
        ELSE /\ request' = [request EXCEPT ![n] = Idle]
             /\ connecting' = FALSE
             /\ writes' = rest
             /\ UNCHANGED <<revision, enabled, timer, disc, stale>>

Disconnect ==
  /\ boot = "ready" /\ disc.pc = "none"
  /\ revision < MaxRevision
  /\ beginDisconnect(0, writes)
  /\ UNCHANGED <<boot, host, request, port, saved, routed, network, session,
                 command, attaching, attached, debugging>>

\* The attachments in progress are awaited before the tabs are listed.
DiscSettle ==
  /\ disc.pc = "settle"
  /\ \A t \in Tabs : attaching[t] = "none"
  /\ disc' = [disc EXCEPT !.pc = "detach"]
  /\ UNCHANGED <<boot, enabled, connecting, revision, host, request, helper,
                 chains, automation>>

DiscDetach ==
  /\ disc.pc = "detach"
  /\ debugging' = debugging \ attached
  /\ attached' = {}
  /\ attaching' = [t \in Tabs |-> "none"]
  /\ disc' = [disc EXCEPT !.pc = "commands", !.waits = Active]
  /\ UNCHANGED <<boot, enabled, connecting, revision, host, request, helper,
                 chains, command, stale>>

\* Disconnected: the promise settles, and a failed connect that waited for it
\* runs its finally block.
DiscEnd ==
  /\ disc.pc = "commands"
  /\ disc.waits \cap Active = {}
  /\ disc' = NotDisconnecting
  /\ IF disc.by = 0 THEN UNCHANGED <<request, connecting>>
       ELSE /\ request' = [request EXCEPT ![disc.by] = Idle]
            /\ connecting' = FALSE
  /\ UNCHANGED <<boot, enabled, revision, host, helper, chains, automation>>

-----------------------------------------------------------------------------
(* Connect and Reconnect.                                                  *)

\* The connecting calls take the first free number.
FreeRequest(n) ==
  request[n].pc = "idle" /\ \A m \in Requests : m < n => request[m].pc # "idle"

Connect(h, n) ==
  /\ boot = "ready" /\ revision < MaxRevision
  /\ FreeRequest(n)
  /\ ~enabled /\ ~connecting /\ disc.pc = "none"
  /\ revision' = revision + 1
  /\ connecting' = TRUE
  /\ request' = [request EXCEPT ![n] =
                   [pc |-> "ssh", kind |-> "connect", rev |-> revision + 1,
                    host |-> h]]
  /\ connectNativeHost(FALSE, host, timer,
                       <<[op |-> "connect", by |-> n, host |-> h]>>)
  /\ UNCHANGED <<boot, enabled, host, disc, saved, routed, writes, automation>>

Reconnect(n) ==
  /\ boot = "ready" /\ revision < MaxRevision
  /\ FreeRequest(n)
  /\ enabled /\ ~connecting /\ disc.pc = "none" /\ host # None
  /\ revision' = revision + 1
  /\ connecting' = TRUE
  /\ request' = [request EXCEPT ![n] =
                   [pc |-> "ssh", kind |-> "reconnect", rev |-> revision + 1,
                    host |-> host]]
  /\ connectNativeHost(TRUE, host, timer,
                       <<[op |-> "connect", by |-> n, host |-> host]>>)
  /\ UNCHANGED <<boot, enabled, host, disc, saved, routed, writes, automation>>

\* The popup turns remote browsing on, or off.
NetworkSet ==
  /\ boot = "ready"
  /\ Len(network) < MaxNetwork
  /\ \/ enabled /\ port
          /\ network' = Append(network, [op |-> "on", by |-> 0, host |-> None])
     \/ network' = Append(network, [op |-> "off", by |-> 0, host |-> None])
  /\ UNCHANGED <<boot, connection, helper, saved, routed, writes, automation>>

-----------------------------------------------------------------------------
(* The chain of network operations.                                        *)

\* The operation that runs: the first of the chain.
Running == Head(network)

\* Mutant: an operation does not wait for those asked for before it.
DoneUnchained(i) == i \in 1..Len(network)

Done(i) == i = 1 /\ network # <<>>

Without(i) == SubSeq(network, 1, i - 1) \o SubSeq(network, i + 1, Len(network))

\* After the revision check a connect saves itself, a reconnect is done.
SSHConnected(i) ==
  LET o == network[i]
  IN
  /\ Done(i) /\ o.op = "connect" /\ port
  /\ session' = o.host
  /\ network' = Without(i)
  /\ IF o.by = 0
       THEN UNCHANGED <<revision, enabled, connecting, request, disc, writes,
                        timer, stale>>
     ELSE IF request[o.by].rev # revision THEN failed(o.by, writes)
     ELSE IF request[o.by].kind = "connect"
       THEN /\ request' = [request EXCEPT ![o.by].pc = "save"]
            /\ writes' = Append(writes, [enabled |-> "yes", host |-> o.host,
                                         by |-> o.by])
            /\ UNCHANGED <<revision, enabled, connecting, disc, timer, stale>>
       ELSE /\ request' = [request EXCEPT ![o.by] = Idle]
            /\ connecting' = FALSE
            /\ UNCHANGED <<revision, enabled, disc, writes, timer, stale>>
  /\ UNCHANGED <<boot, host, port, saved, routed, command, attaching,
                 attached, debugging>>

\* The request was refused, lost with its port or timed out; the helper may
\* have taken it all the same.
SSHFails(i) ==
  LET o == network[i]
  IN
  /\ Done(i) /\ o.op = "connect"
  /\ session' \in {session} \cup IF port THEN {o.host} ELSE {}
  /\ network' = Without(i)
  /\ IF o.by = 0
       THEN UNCHANGED <<revision, enabled, connecting, request, disc, writes,
                        timer, stale>>
       ELSE failed(o.by, writes)
  /\ UNCHANGED <<boot, host, port, saved, routed, command, attaching,
                 attached, debugging>>

\* Turning on needs the helper; turning off does not.
On(i) ==
  /\ Done(i) /\ network[i].op = "on"
  /\ routed' \in {routed} \cup IF port THEN {TRUE} ELSE {}
  /\ network' = Without(i)
  /\ UNCHANGED <<boot, connection, helper, saved, writes, automation>>

Off(i) ==
  /\ Done(i) /\ network[i].op = "off" /\ network[i].by = 0
  /\ routed' \in {FALSE} \cup IF ChromeFails THEN {routed} ELSE {}
  /\ network' = Without(i)
  /\ UNCHANGED <<boot, connection, helper, saved, writes, automation>>

\* Remote browsing is off: end the SSH session, when there is a helper.
DiscOff(i) ==
  /\ Done(i) /\ network[i].op = "off" /\ network[i].by = -1
  /\ \/ routed' = FALSE
          /\ disc' = [disc EXCEPT !.pc = IF port THEN "ssh" ELSE "settle"]
     \/ ChromeFails /\ UNCHANGED routed
          /\ disc' = [disc EXCEPT !.pc = IF port THEN "ssh" ELSE "settle",
                                  !.failed = TRUE]
  /\ network' = IF port THEN Append(Without(i), [op |-> "end", by |-> -1,
                                                 host |-> None])
                        ELSE Without(i)
  /\ UNCHANGED <<boot, enabled, connecting, revision, host, request, helper,
                 saved, writes, automation>>

\* The SSH session is ended or not; the port is closed in any case.
DiscSSH(i) ==
  /\ Done(i) /\ network[i].op = "end"
  /\ network' = Without(i)
  /\ port' = FALSE /\ session' = None
  /\ timer' = (timer \/ (port /\ (enabled \/ connecting)))
  /\ \/ port /\ disc' = [disc EXCEPT !.pc = "settle"]
     \/ disc' = [disc EXCEPT !.pc = "settle", !.failed = TRUE]
  /\ UNCHANGED <<boot, enabled, connecting, revision, host, request, saved,
                 routed, writes, automation>>

NetworkStep ==
  \E i \in 1..Len(network) :
    \/ SSHConnected(i) \/ SSHFails(i) \/ On(i) \/ Off(i)
    \/ DiscOff(i) \/ DiscSSH(i)

-----------------------------------------------------------------------------
(* The chain of writes, and what follows each of them.                     *)

\* Mutant: a write does not wait for those asked for before it.
WrittenUnchained(i) == i \in 1..Len(writes)

Written(i) == i = 1 /\ writes # <<>>

Unwritten(i) == SubSeq(writes, 1, i - 1) \o SubSeq(writes, i + 1, Len(writes))

Current(n) == request[n].rev = revision

\* The last await of connectTether.
ConnectSaved(i, ok) ==
  LET n == writes[i].by
      r == request[n]
  IN
  /\ Written(i) /\ n > 0
  /\ ok \/ ChromeFails
  /\ saved' = IF ok THEN [enabled |-> "yes", host |-> r.host] ELSE saved
  /\ IF ok /\ Current(n)
       THEN /\ host' = r.host /\ enabled' = TRUE /\ connecting' = FALSE
            /\ request' = [request EXCEPT ![n] = Idle]
            /\ writes' = Unwritten(i)
            /\ UNCHANGED <<revision, disc, timer, stale>>
       ELSE failed(n, Unwritten(i)) /\ UNCHANGED host
  /\ UNCHANGED <<boot, port, routed, network, session, command, attaching,
                 attached, debugging>>

DiscSaved(i, ok) ==
  /\ Written(i) /\ writes[i].by = -1
  /\ ok \/ ChromeFails
  /\ saved' = IF ok THEN [saved EXCEPT !.enabled = "no"] ELSE saved
  /\ writes' = Unwritten(i)
  /\ network' = Append(network, [op |-> "off", by |-> -1, host |-> None])
  /\ disc' = [disc EXCEPT !.pc = "off", !.failed = ~ok]
  /\ UNCHANGED <<boot, enabled, connecting, revision, host, request, helper,
                 routed, automation>>

\* A legacy installation saves its state before it connects.
BootSaved(i, ok) ==
  /\ Written(i) /\ writes[i].by = 0
  /\ ok \/ ChromeFails
  /\ boot' = "ready"
  /\ writes' = Unwritten(i)
  /\ IF ok
       THEN /\ saved' = [enabled |-> "yes", host |-> host]
            /\ enabled' = TRUE
            /\ connectNativeHost(TRUE, host, timer, <<>>)
       ELSE UNCHANGED <<saved, enabled, helper, network>>
  /\ UNCHANGED <<connecting, revision, host, request, disc, routed, automation>>

WriteStep ==
  \E i \in 1..Len(writes), ok \in BOOLEAN :
    ConnectSaved(i, ok) \/ DiscSaved(i, ok) \/ BootSaved(i, ok)

\* Mutant: the host of a legacy installation is not taken from its route.
RestoredHostSavedOnly == IF saved.enabled = "unset" THEN "undefined"
                                                    ELSE saved.host

RestoredHost == saved.host

\* The worker reads its state; until then every request waits.
Restore ==
  /\ boot = "read"
  /\ \/ /\ saved.enabled = "yes"
        /\ boot' = "ready" /\ enabled' = TRUE /\ host' = RestoredHost
        /\ connectNativeHost(TRUE, RestoredHost, timer, <<>>)
        /\ UNCHANGED writes
     \/ /\ saved.enabled = "unset" /\ routed
        /\ boot' = "save" /\ host' = RestoredHost
        /\ writes' = Append(writes, [enabled |-> "yes", host |-> RestoredHost,
                                     by |-> 0])
        /\ UNCHANGED <<enabled, helper, network>>
     \/ /\ saved.enabled # "yes" /\ ~(saved.enabled = "unset" /\ routed)
        /\ boot' = "ready"
        /\ UNCHANGED <<enabled, host, helper, network, writes>>
  /\ UNCHANGED <<connecting, revision, request, disc, saved, routed,
                 automation>>

-----------------------------------------------------------------------------
(* Agent commands and the debugger.                                        *)

\* A command of an agent, through the port, or of the popup.  It waits for
\* Chrome's tab groups before its handler runs.
Start(c, t) ==
  /\ boot = "ready" /\ enabled
  /\ command[c].pc = "idle"
  /\ command' = [command EXCEPT ![c] = [pc |-> "handler", tab |-> t]]
  /\ UNCHANGED <<boot, connection, helper, chains, stale, attaching, attached,
                 debugging>>

Ends(c) == command' = [command EXCEPT ![c] = NoCommand]
             /\ stale' = stale \ {c}

\* Mutant: a disconnected handler waits on.
EndWhileEnabled(c) ==
  /\ command[c].pc \in {"handler", "check", "sent"}
  /\ enabled /\ Ends(c)
  /\ UNCHANGED <<boot, connection, helper, chains, attaching, attached,
                 debugging>>

\* The handler is done, or its next await found Tether disconnected.
End(c) ==
  /\ command[c].pc \in {"handler", "check", "sent"}
  /\ Ends(c)
  /\ UNCHANGED <<boot, connection, helper, chains, attaching, attached,
                 debugging>>

\* ensureAttached, up to its first await.
ensureAttached(c) ==
  LET t == command[c].tab
  IN
  /\ command[c].pc = "handler"
  /\ enabled
  /\ IF t \in attached
       THEN /\ command' = [command EXCEPT ![c].pc = "check"]
            /\ UNCHANGED attaching
       ELSE /\ command' = [command EXCEPT ![c].pc = "attach"]
            /\ attaching' = IF attaching[t] = "none"
                              THEN [attaching EXCEPT ![t] = "tab"]
                              ELSE attaching
  /\ UNCHANGED <<boot, connection, helper, chains, stale, attached, debugging>>

\* The attachment of t ends, and those who waited for it go on or fail.
Attachment(t, ok) ==
  LET waiting == {c \in Commands : command[c].pc = "attach"
                                     /\ command[c].tab = t}
  IN  /\ attaching' = [attaching EXCEPT ![t] = "none"]
      /\ command' = [c \in Commands |->
                       IF c \notin waiting THEN command[c]
                       ELSE IF ok THEN [command[c] EXCEPT !.pc = "check"]
                       ELSE NoCommand]
      /\ stale' = IF ok THEN stale ELSE stale \ waiting

\* assertAutomationTab answered.
TabChecked(t) ==
  /\ attaching[t] = "tab"
  /\ \/ Attachment(t, FALSE)
     \/ enabled /\ attaching' = [attaching EXCEPT ![t] = "debugger"]
          /\ UNCHANGED <<command, stale>>
  /\ UNCHANGED <<boot, connection, helper, chains, attached, debugging>>

\* Mutant: the attached debugger is recorded without looking again.
DebuggerAttachedUnchecked(t) ==
  /\ attaching[t] = "debugger"
  /\ debugging' = debugging \cup {t}
  /\ attached' = IF enabled THEN attached \cup {t} ELSE attached
  /\ attaching' = [attaching EXCEPT ![t] = "focus"]
  /\ UNCHANGED <<boot, connection, helper, chains, command, stale>>

\* chrome.debugger.attach answered: Tether may have been disconnected.
DebuggerAttached(t) ==
  /\ attaching[t] = "debugger"
  /\ \/ Attachment(t, FALSE) /\ UNCHANGED <<attached, debugging>>
     \/ /\ debugging' = debugging \cup {t}
        /\ attached' = IF enabled THEN attached \cup {t} ELSE attached
        /\ attaching' = [attaching EXCEPT ![t] = IF enabled THEN "focus"
                                                            ELSE "detach"]
        /\ UNCHANGED <<command, stale>>
  /\ UNCHANGED <<boot, connection, helper, chains>>

DebuggerDetached(t) ==
  /\ attaching[t] = "detach"
  /\ debugging' = debugging \ {t}
  /\ Attachment(t, FALSE)
  /\ UNCHANGED <<boot, connection, helper, chains, attached>>

FocusEmulated(t) ==
  /\ attaching[t] = "focus"
  /\ Attachment(t, TRUE)
  /\ UNCHANGED <<boot, connection, helper, chains, attached, debugging>>

\* cdp: the tab is checked again, then the command goes to the debugger.
Send(c) ==
  /\ command[c].pc = "check"
  /\ enabled
  /\ command' = [command EXCEPT ![c].pc = "sent"]
  /\ UNCHANGED <<boot, connection, helper, chains, stale, attaching, attached,
                 debugging>>

\* The answer, and the handler goes on.
Answered(c) ==
  /\ command[c].pc = "sent"
  /\ command' = [command EXCEPT ![c].pc = "handler"]
  /\ UNCHANGED <<boot, connection, helper, chains, stale, attaching, attached,
                 debugging>>

\* The user closes the tab or the debugger's bar; or the tab goes to a page
\* that is out of bounds, and the worker detaches but keeps its entry.
Detached(t) ==
  /\ t \in debugging
  /\ debugging' = debugging \ {t}
  /\ \/ attached' = attached \ {t}
     \/ enabled /\ t \in attached /\ UNCHANGED attached
  /\ UNCHANGED <<boot, connection, helper, chains, command, stale, attaching>>

-----------------------------------------------------------------------------

\* The browser is closed, or the idle worker stopped, and started again.
Restart == Forget /\ UNCHANGED <<saved, routed>>

User ==
  \/ \E n \in Requests : Reconnect(n) \/ \E h \in Hosts : Connect(h, n)
  \/ Disconnect
  \/ NetworkSet
  \/ \E c \in Commands, t \in Tabs : Start(c, t)

DiscStep    == DiscSettle \/ DiscDetach \/ DiscEnd
AttachStep(t) == TabChecked(t) \/ DebuggerAttached(t) \/ DebuggerDetached(t)
                   \/ FocusEmulated(t)

Next ==
  \/ User
  \/ Restore \/ TimerFires \/ Alarm \/ PortLost \/ Restart
  \/ NetworkStep \/ WriteStep \/ DiscStep
  \/ \E c \in Commands : End(c) \/ ensureAttached(c) \/ Send(c) \/ Answered(c)
  \/ \E t \in Tabs : AttachStep(t) \/ Detached(t)

Spec == Init /\ [][Next]_vars

\* Chrome answers its extension's calls, requests to the helper time out,
\* timers and alarms fire, connectNative succeeds in the end, and a handler that
\* is refused by the checks of tetherEnabled ends.
Fairness ==
  /\ WF_vars(Restore) /\ WF_vars((TimerFires \/ Alarm) /\ port')
  /\ WF_vars(NetworkStep) /\ WF_vars(WriteStep) /\ WF_vars(DiscStep)
  /\ \A c \in Commands : WF_vars(~enabled /\ End(c))
  /\ \A t \in Tabs : WF_vars(AttachStep(t))

FairSpec == Spec /\ Fairness

-----------------------------------------------------------------------------
(* Properties.                                                             *)

Operations == [op : {"connect", "on", "off", "end"}, by : Requests \cup {0, -1},
               host : Hosts \cup {None}]

TypeOK ==
  /\ boot \in {"read", "save", "ready"}
  /\ enabled \in BOOLEAN /\ connecting \in BOOLEAN
  /\ revision \in 0..MaxRevision + 1
  /\ host \in Hosts \cup {None}
  /\ request \in [Requests -> [pc : {"idle", "ssh", "save", "closing"},
                              kind : {"connect", "reconnect"},
                              rev : 0..MaxRevision, host : Hosts \cup {None}]]
  /\ disc \in [pc : {"none", "save", "off", "ssh", "settle", "detach",
                     "commands"},
               by : Requests \cup {0}, failed : BOOLEAN,
               waits : SUBSET Commands]
  /\ port \in BOOLEAN /\ timer \in BOOLEAN
  /\ session \in Hosts \cup {None}
  /\ saved \in [enabled : {"yes", "no", "unset"}, host : Hosts \cup {None}]
  /\ routed \in BOOLEAN
  /\ \A i \in DOMAIN writes :
       writes[i] \in [enabled : {"yes", "no"}, host : Hosts \cup {None},
                     by : Requests \cup {0, -1}]
  /\ \A i \in DOMAIN network : network[i] \in Operations
  /\ command \in [Commands -> [pc : {"idle", "handler", "attach", "check",
                                    "sent"}, tab : Tabs]]
  /\ stale \subseteq Commands
  /\ attaching \in [Tabs -> {"none", "tab", "debugger", "detach", "focus"}]
  /\ attached \subseteq Tabs /\ debugging \subseteq Tabs

\* "Disconnect Tether closes the extension's agent bridge and managed SSH
\* session, detaches its Chrome debugger targets" (README.md:90): once it is
\* over, and before the next Connect, the port is closed and no tab is
\* debugged, whatever was in progress when it was asked for and however its
\* own steps failed (background.js:277-332, 445-467).
DisconnectedIsClosed ==
  boot = "ready" /\ disc.pc = "none" /\ ~enabled /\ ~connecting
    => ~port /\ session = None /\ debugging = {}

\* A command that was in flight when Tether was disconnected is over when the
\* disconnection is, so that it never acts in a later connection
\* (background.js:328, 25-28).
NoStaleCommand == disc.pc = "none" => stale = {}

\* When a Disconnect is over nothing of the connection is left.
DisconnectLeavesNothing == DisconnectedIsClosed /\ NoStaleCommand

\* tetherConnecting speaks of the request that is current: the finally block
\* of an older one, which may end much later, never clears it, because it ends
\* before the Disconnect that cancelled it does (background.js:253-255, 290).
ConnectingIsCurrent ==
  /\ connecting => \E n \in Requests : request[n].rev = revision
                                         /\ request[n].pc # "idle"
  /\ \A n \in Requests :
       request[n].pc \in {"ssh", "save"} =>
         IF request[n].rev = revision THEN connecting ELSE disc.pc # "none"

\* What is enabled is what a restart will find, and the only host that the
\* helper serves: the writes of a cancelled Connect and of the Disconnect that
\* cancelled it come in their order, and so do the automatic and the asked-for
\* connects of SSH (background.js:45-49, 172, 244-248).
EnabledAgrees ==
  enabled => /\ saved = [enabled |-> "yes", host |-> host]
             /\ session \in {host, None}

\* Requests that overtake each other leave what the latest one said.
LatestRequestHolds == ConnectingIsCurrent /\ EnabledAgrees

\* A Disconnect that reports no failure has turned remote browsing off and
\* will not be undone by a restart (background.js:287-297).
DisconnectCompletes ==
  [][disc.pc = "commands" /\ disc'.pc = "none" /\ boot' = "ready"
       /\ ~disc.failed
       => ~routed' /\ saved'.enabled = "no"]_vars

\* Disconnect always ends: it never waits for a command or an attachment that
\* itself waits for Tether (background.js:25-28, 314-329).
DisconnectEnds == disc.pc # "none" ~> disc.pc = "none"

\* A lost helper is replaced while Tether is connected.
PortReturns == enabled /\ ~port ~> port \/ ~enabled

\* What the user asked for comes about: Tether goes off, or has its helper again.
LifecycleSettles == DisconnectEnds /\ PortReturns
=============================================================================
