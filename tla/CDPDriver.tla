----------------------------- MODULE CDPDriver -----------------------------
(***************************************************************************)
(* The CDP driver of the daemon (packages/client/driver.go): the tabs it   *)
(* has a connection to, the active one, and the WebSocket client with its  *)
(* read pump (packages/client/websocket.go).                               *)
(*                                                                         *)
(* Every request is a goroutine of the server; what it does between two    *)
(* calls to Chrome, or within d.mu or c.mu, is one action.  What the       *)
(* commands do to a page is one call here, whose answer may never come.    *)
(***************************************************************************)
EXTENDS Integers, Sequences, FiniteSets

CONSTANTS Tabs,     \* the pages there can be
          First,    \* those that Chrome has at first
          Commands, \* the requests that may be in progress
          None,
          MaxConns  \* bound on the connections that are dialled

ASSUME TabsAssumption == First \subseteq Tabs /\ None \notin Tabs
ASSUME ConnsAssumption == MaxConns \in Nat

VARIABLES
  tab,      \* of each tab: "unborn", "open" or "closed"
  conn,     \* the connections: their tab, whether the socket is up, whether the
            \* read pump has closed c.closed, and whether it has failed the calls
  targets,  \* d.targets: the connection of each tab, or 0
  active,   \* d.activeTarget
  run       \* the request of each goroutine and where it is

chrome == <<tab, conn>>
driver == <<chrome, targets, active, run>>

Unborn == {t \in Tabs : tab[t] = "unborn"}
Pages == {t \in Tabs : tab[t] = "open"}

\* A goroutine of the server: its step, its method, the tab that was asked for,
\* the tab it found, its connection, its pending entry and channel, the tabs it
\* still has to close, and its result.
Idle == [at |-> "idle", method |-> "none", param |-> None, tab |-> None, conn |-> 0,
         pending |-> FALSE, chan |-> "none", todo |-> {}, ok |-> FALSE]

DriverInit ==
  /\ tab = [t \in Tabs |-> IF t \in First THEN "open" ELSE "unborn"]
  /\ conn = <<>> /\ targets = [t \in Tabs |-> 0] /\ active = None
  /\ run = [c \in Commands |-> Idle]

\* The driver when it has opened a tab and nothing else.
DriverOf(t) ==
  /\ tab = [u \in Tabs |-> IF u \in First \cup {t} THEN "open" ELSE "unborn"]
  /\ conn = <<[tab |-> t, up |-> TRUE, closed |-> FALSE, failed |-> FALSE]>>
  /\ targets = [u \in Tabs |-> IF u = t THEN 1 ELSE 0] /\ active = t
  /\ run = [c \in Commands |-> Idle]

Moves(c, at) == run' = [run EXCEPT ![c].at = at]
Returns(c, ok) == run' = [run EXCEPT ![c] = [Idle EXCEPT !.at = "done", !.tab = run[c].tab, !.ok = ok]]
Fails(c) == Returns(c, FALSE)

Methods == {"open", "page", "close", "closeAll", "switch", "list"}

\* Dispatch of a request.
Dispatch(m, p) ==
  [Idle EXCEPT !.at = CASE m = "open"   -> "new"
                        [] m = "page"   -> "lookup"
                        [] m = "close"  -> "take"
                        [] m = "closeAll" -> "takeAll"
                        [] m = "switch" -> "find"
                        [] m = "list"   -> "list",
               !.method = m, !.param = p]

-----------------------------------------------------------------------------
(* Connections.                                                            *)

Dials(t) ==
  /\ Len(conn) < MaxConns
  /\ conn' = Append(conn, [tab |-> t, up |-> TRUE, closed |-> FALSE, failed |-> FALSE])

\* DialWebSocket and NewCDPClient; a tab that is gone cannot be dialled, and any other
\* may not be.
DialWebSocket(c) ==
  /\ run[c].at = "dial"
  /\ \/ /\ run[c].tab \in Pages /\ Dials(run[c].tab)
        /\ run' = [run EXCEPT ![c].at = "store", ![c].conn = Len(conn) + 1]
     \/ Fails(c) /\ UNCHANGED conn
  /\ UNCHANGED <<tab, targets, active>>

\* The new connection becomes that of its tab, beside one that another command
\* may have dialled; SwitchTab has set the active tab before.
Store(c) ==
  /\ run[c].at = "store"
  /\ targets' = [targets EXCEPT ![run[c].tab] = run[c].conn]
  /\ active' = IF run[c].method = "switch" THEN active ELSE run[c].tab
  /\ Moves(c, "register")
  /\ UNCHANGED chrome

\* What the result of a call to the page makes of the request: OpenTab and SwitchTab
\* ignore it.
Ends(c, ok) == Returns(c, ok \/ run[c].method \in {"open", "switch"})

\* CDPClient.Call: the pending entry, then the message, then the answer.
Register(c) ==
  /\ run[c].at = "register"
  /\ run' = [run EXCEPT ![c].at = "write", ![c].pending = TRUE]
  /\ UNCHANGED <<chrome, targets, active>>

\* A socket that is down may still take a message.
WriteTextMessage(c) ==
  /\ run[c].at = "write"
  /\ Moves(c, "wait") \/ (~conn[run[c].conn].up /\ Ends(c, FALSE))
  /\ UNCHANGED <<chrome, targets, active>>

\* The read pump gets the answer.
Answer(c) ==
  /\ run[c].at = "wait" /\ run[c].pending /\ conn[run[c].conn].up
  /\ run' = [run EXCEPT ![c].pending = FALSE, ![c].chan = "answer"]
  /\ UNCHANGED <<chrome, targets, active>>

\* Mutant: waits for its result alone.
WaitForResult(c) ==
  /\ run[c].at = "wait" /\ run[c].chan # "none" /\ Ends(c, run[c].chan = "answer")
  /\ UNCHANGED <<chrome, targets, active>>

Wait(c) ==
  /\ run[c].at = "wait"
  /\ \/ run[c].chan = "answer" /\ Ends(c, TRUE)
     \/ (run[c].chan = "error" \/ conn[run[c].conn].closed) /\ Ends(c, FALSE)
  /\ UNCHANGED <<chrome, targets, active>>

\* The read pump of a connection that is down: c.closed first, then the calls.
PumpEnds(k) ==
  /\ ~conn[k].up /\ ~conn[k].closed /\ conn' = [conn EXCEPT ![k].closed = TRUE]
  /\ UNCHANGED <<tab, targets, active, run>>

PumpFails(k) ==
  /\ conn[k].closed /\ ~conn[k].failed /\ conn' = [conn EXCEPT ![k].failed = TRUE]
  /\ run' = [c \in Commands |-> IF run[c].conn = k /\ run[c].pending
                                THEN [run[c] EXCEPT !.pending = FALSE, !.chan = "error"]
                                ELSE run[c]]
  /\ UNCHANGED <<tab, targets, active>>

-----------------------------------------------------------------------------
(* The methods of the driver.                                              *)

\* OpenTab: /json/new, and then a connection to the tab.
NewTab(c) ==
  /\ run[c].at = "new"
  /\ \/ \E t \in Unborn : /\ t = CHOOSE x \in Unborn : TRUE
                          /\ tab' = [tab EXCEPT ![t] = "open"]
                        /\ run' = [run EXCEPT ![c].at = "dial", ![c].tab = t]
     \/ Fails(c) /\ UNCHANGED tab
  /\ UNCHANGED <<conn, targets, active>>

\* Mutant: the active tab first.
ActiveFirst(c) == IF active = None THEN run[c].param ELSE active

\* The tab a request is for.
Target(c) == IF run[c].param = None THEN active ELSE run[c].param

\* getTargetClient: a connection there is, or one to a page that Chrome lists.
Lookup(c) ==
  /\ run[c].at = "lookup"
  /\ LET t == Target(c) IN
     IF t # None /\ targets[t] # 0
     THEN run' = [run EXCEPT ![c].at = "register", ![c].tab = t, ![c].conn = targets[t]]
     ELSE run' = [run EXCEPT ![c].at = "discover", ![c].tab = t]
  /\ UNCHANGED <<chrome, targets, active>>

\* The page that was asked for, or without it the most recent one.
DiscoverTargets(c) ==
  /\ run[c].at = "discover"
  /\ \/ \E t \in Pages : /\ run[c].tab \in Pages => t = run[c].tab
                         /\ run' = [run EXCEPT ![c].at = "again", ![c].tab = t]
     \/ Fails(c)
  /\ UNCHANGED <<chrome, targets, active>>

Again(c) ==
  /\ run[c].at = "again"
  /\ IF targets[run[c].tab] # 0
     THEN run' = [run EXCEPT ![c].at = "adopt", ![c].conn = targets[run[c].tab]]
     ELSE Moves(c, "dial")
  /\ UNCHANGED <<chrome, targets, active>>

Adopt(c) ==
  /\ run[c].at = "adopt" /\ Moves(c, "register") /\ active' = run[c].tab
  /\ UNCHANGED <<chrome, targets>>

\* SwitchTab: the tab becomes active before it has a connection.
Find(c) ==
  /\ run[c].at = "find"
  /\ IF run[c].param \in Pages THEN run' = [run EXCEPT ![c].at = "switch", ![c].tab = run[c].param]
                               ELSE Fails(c)
  /\ UNCHANGED <<chrome, targets, active>>

Switch(c) ==
  /\ run[c].at = "switch" /\ active' = run[c].tab
  /\ IF targets[run[c].tab] # 0
     THEN run' = [run EXCEPT ![c].at = "register", ![c].conn = targets[run[c].tab]]
     ELSE Moves(c, "dial")
  /\ UNCHANGED <<chrome, targets>>

\* ListTabs: with no active tab, or one tab alone, the last page becomes active.
List(c) ==
  /\ run[c].at = "list"
  /\ \/ \E t \in Pages :
          run' = [run EXCEPT ![c].at = IF Pages = {t} THEN "latest" ELSE "read", ![c].tab = t]
     \/ Returns(c, Pages = {})
  /\ UNCHANGED <<chrome, targets, active>>

ReadActive(c) ==
  /\ run[c].at = "read"
  /\ IF active = None THEN Moves(c, "latest") ELSE Returns(c, TRUE)
  /\ UNCHANGED <<chrome, targets, active>>

Latest(c) ==
  /\ run[c].at = "latest" /\ active' = run[c].tab /\ Returns(c, TRUE)
  /\ UNCHANGED <<chrome, targets>>

\* CloseTab takes the tab out; the active tab is then any other it knows.
Take(c) ==
  /\ run[c].at = "take"
  /\ LET t == Target(c) IN
     IF t = None THEN Fails(c) /\ UNCHANGED <<targets, active>>
     ELSE /\ targets' = [targets EXCEPT ![t] = 0]
          /\ LET rest == {u \in Tabs : targets'[u] # 0} IN
             active' \in IF active # t THEN {active} ELSE IF rest = {} THEN {None} ELSE rest
          /\ run' = [run EXCEPT ![c].at = "hangUp", ![c].todo = {<<t, targets[t]>>}]
  /\ UNCHANGED chrome

TakeAll(c) ==
  /\ run[c].at = "takeAll"
  /\ targets' = [t \in Tabs |-> 0] /\ active' = None
  /\ run' = [run EXCEPT ![c].at = "hangUp",
                        ![c].todo = {<<t, targets[t]>> : t \in {u \in Tabs : targets[u] # 0}}]
  /\ UNCHANGED chrome

Close(t) ==
  /\ tab' = [tab EXCEPT ![t] = "closed"]
  /\ conn' = [k \in DOMAIN conn |-> [conn[k] EXCEPT !.up = @ /\ conn[k].tab # t]]

\* One tab after the other: its connection is closed, and then the tab, if Chrome
\* carries that request out.
HangUp(c) ==
  /\ run[c].at = "hangUp" /\ run[c].todo # {}
  /\ \E p \in run[c].todo :
       /\ run' = [run EXCEPT ![c].todo = @ \ {p}]
       /\ \/ Close(p[1])
          \/ conn' = (IF p[2] = 0 THEN conn ELSE [conn EXCEPT ![p[2]].up = FALSE]) /\ UNCHANGED tab
  /\ UNCHANGED <<targets, active>>

Closed(c) ==
  /\ run[c].at = "hangUp" /\ run[c].todo = {} /\ Returns(c, TRUE)
  /\ UNCHANGED <<chrome, targets, active>>

\* A tab is closed by its user.
UserCloses(t) == t \in Pages /\ Close(t) /\ UNCHANGED <<targets, active, run>>

Work(c) ==
  \/ DialWebSocket(c) \/ Store(c) \/ Register(c) \/ WriteTextMessage(c) \/ Wait(c)
  \/ NewTab(c) \/ Lookup(c) \/ DiscoverTargets(c) \/ Again(c) \/ Adopt(c) \/ Find(c) \/ Switch(c)
  \/ List(c) \/ ReadActive(c) \/ Latest(c) \/ Take(c) \/ TakeAll(c) \/ HangUp(c) \/ Closed(c)

Pump(k) == PumpEnds(k) \/ PumpFails(k)
=============================================================================
