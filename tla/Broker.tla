------------------------------- MODULE Broker -------------------------------
(***************************************************************************)
(* The agent's side (packages/cli): commands of the command line, the      *)
(* brokers that keep the tab of each session, and the socket path that     *)
(* they share, in front of the driver of the daemon (CDPDriver).           *)
(*                                                                         *)
(* A command, a broker and `tether broker stop' are processes; a broker    *)
(* has a goroutine per command.  The daemon goes on with a request whose   *)
(* caller has given up.                                                    *)
(***************************************************************************)
EXTENDS CDPDriver

CONSTANTS Brokers,     \* the broker processes there may be
          Sessions,    \* the sessions, "default" among them
          Named,       \* the tabs that --tab may name
          MaxCommands, \* bound on the commands
          MaxEvents    \* bound on the stops, signals and tabs closed by the user

ASSUME SessionsAssumption == /\ "default" \in Sessions /\ None \notin Sessions
                             /\ {None, "dead"} \cap Brokers = {}
ASSUME NamedAssumption == Named \subseteq Tabs
ASSUME BoundsAssumption == {MaxCommands, MaxEvents} \subseteq Nat

VARIABLES
  path,     \* the broker that made the socket at the path, "dead" if it is one of
            \* an earlier time, or None
  broker,   \* where each broker process is
  record,   \* b.sessionTargets
  call,     \* the commands and where they are
  stop,     \* where `tether broker stop' is
  opener,   \* the session whose command opened each tab
  budget    \* the commands and events that are left

paths == <<path, broker, stop>>
agent == <<paths, record, call, opener, budget>>
vars  == <<driver, agent>>

\* A command of the command line: its step, session, method and --tab, the broker
\* that handles it, and the tab that its broker took for it from the session.
NoCall == [at |-> "none", session |-> "default", method |-> "none", param |-> None,
           broker |-> None, want |-> None]

\* No broker yet, and the socket of one that was killed.
Fresh ==
  /\ DriverInit
  /\ path = "dead" /\ broker = [b \in Brokers |-> "none"]
  /\ record = [b \in Brokers |-> [s \in Sessions |-> None]] /\ opener = [t \in Tabs |-> None]

\* A broker that has opened a tab for a session.
Opened(s, t) ==
  LET b == CHOOSE x \in Brokers : TRUE IN
    /\ DriverOf(t)
    /\ path = b /\ broker = [x \in Brokers |-> IF x = b THEN "serves" ELSE "none"]
    /\ record = [x \in Brokers |-> [y \in Sessions |-> IF x = b /\ y = s THEN t ELSE None]]
    /\ opener = [x \in Tabs |-> IF x = t THEN s ELSE None]

Init ==
  /\ \/ Fresh \/ \E s \in Sessions \ {"default"}, t \in Named \ First : Opened(s, t)
  /\ call = [c \in Commands |-> NoCall] /\ stop = "none"
  /\ budget = [commands |-> MaxCommands, events |-> MaxEvents]

IsBrokerAlive == path \in Brokers /\ broker[path] = "serves"

-----------------------------------------------------------------------------
(* Brokers and their socket.                                               *)

\* Run: a socket that nobody answers on is removed, by its path.
Check(b) ==
  /\ broker[b] = "checks"
  /\ broker' = [broker EXCEPT ![b] = IF path = None THEN "binds"
                                     ELSE IF IsBrokerAlive THEN "ended" ELSE "removes"]
  /\ UNCHANGED <<path, stop, record, call, opener, budget, driver>>

Remove(b) ==
  /\ broker[b] = "removes" /\ broker' = [broker EXCEPT ![b] = "binds"] /\ path' = None
  /\ UNCHANGED <<stop, record, call, opener, budget, driver>>

Bind(b) ==
  /\ broker[b] = "binds"
  /\ IF path = None THEN path' = b /\ broker' = [broker EXCEPT ![b] = "serves"]
                    ELSE broker' = [broker EXCEPT ![b] = "ended"] /\ UNCHANGED path
  /\ UNCHANGED <<stop, record, call, opener, budget, driver>>

\* Close: closing a listener removes its path, whoever has it by now.
CloseListener(b) ==
  broker[b] = "serves" /\ broker' = [broker EXCEPT ![b] = "closing"] /\ path' = None

\* SIGTERM or an interrupt.
Signal(b) ==
  /\ budget.events > 0 /\ budget' = [budget EXCEPT !.events = @ - 1]
  /\ CloseListener(b)
  /\ UNCHANGED <<stop, record, call, opener, driver>>

\* The process ends with its goroutines and its records.
Ended(b) ==
  /\ broker' = [broker EXCEPT ![b] = "ended"]
  /\ record' = [record EXCEPT ![b] = [s \in Sessions |-> None]]
  /\ call' = [c \in Commands |-> IF call[c].broker # b THEN call[c]
                                 ELSE IF call[c].at = "handle" THEN NoCall
                                 ELSE [call[c] EXCEPT !.broker = None]]
  /\ UNCHANGED <<stop, opener, driver>>

\* Run returns and removes the path again.
Exit(b) == broker[b] = "closing" /\ Ended(b) /\ path' = None /\ UNCHANGED budget

\* A broker that is killed leaves its path.
Kill(b) ==
  /\ budget.events > 0 /\ budget' = [budget EXCEPT !.events = @ - 1]
  /\ broker[b] = "serves" /\ Ended(b) /\ UNCHANGED path

\* StopBroker: a broker that answers closes as on a signal; the path of one that
\* does not is removed, whoever has it by now.
Stop ==
  /\ budget.events > 0 /\ stop = "none" /\ path # None /\ ~IsBrokerAlive
  /\ budget' = [budget EXCEPT !.events = @ - 1] /\ stop' = "removes"
  /\ UNCHANGED <<path, broker, record, call, opener, driver>>

StopRemoves ==
  /\ stop = "removes" /\ stop' = "none" /\ path' = None
  /\ UNCHANGED <<broker, record, call, opener, budget, driver>>

-----------------------------------------------------------------------------
(* Commands.                                                               *)

named(c) == call[c].session # "default"

Ask(c) ==
  /\ budget.commands > 0 /\ call[c].at = "none" /\ run[c].at = "idle"
  /\ budget' = [budget EXCEPT !.commands = @ - 1]
  /\ \E s \in Sessions, m \in Methods, p \in {None} \cup {t \in Named : tab[t] # "unborn"} :
       /\ p # None => m \in {"page", "close", "switch"}
       /\ m = "switch" => p # None
       /\ call' = [call EXCEPT ![c] = [NoCall EXCEPT !.at = "cli", !.session = s, !.method = m,
                                                     !.param = p]]
  /\ UNCHANGED <<paths, record, opener, driver>>

GoesTo(c, at) == call' = [call EXCEPT ![c].at = at]
Reaches(c) == call' = [call EXCEPT ![c].at = "handle", ![c].broker = path]
Over(c) == call' = [call EXCEPT ![c] = NoCall]

\* main: a named session starts the broker it needs; without a broker the others
\* talk to the daemon.
Cli(c) ==
  /\ call[c].at = "cli"
  /\ IF IsBrokerAlive THEN Reaches(c) /\ UNCHANGED <<broker, run>>
     ELSE IF named(c)
     THEN /\ GoesTo(c, "starting") /\ UNCHANGED run
          /\ \/ \E b \in Brokers : broker[b] = "none" /\ broker' = [broker EXCEPT ![b] = "checks"]
             \/ UNCHANGED broker
     ELSE /\ GoesTo(c, "driver") /\ UNCHANGED broker
          /\ run' = [run EXCEPT ![c] = Dispatch(call[c].method, call[c].param)]
  /\ UNCHANGED <<path, stop, record, opener, budget, chrome, targets, active>>

\* StartBackgroundBroker waits 2 s for a broker to answer.
Starting(c) ==
  /\ call[c].at = "starting"
  /\ IF IsBrokerAlive THEN Reaches(c) ELSE Over(c)
  /\ UNCHANGED <<paths, record, opener, budget, driver>>

SessionTab(c) == record[call[c].broker][call[c].session]

\* handleClient: the tab of the session, unless the command names one.
Handle(c) ==
  /\ call[c].at = "handle"
  /\ LET m == call[c].method
         t == SessionTab(c)
         p == IF m = "open" THEN None ELSE IF call[c].param = None THEN t ELSE call[c].param IN
     IF named(c) /\ t = None /\ m # "open" THEN Over(c) /\ UNCHANGED run
     ELSE /\ run' = [run EXCEPT ![c] = Dispatch(m, p)]
          /\ call' = [call EXCEPT ![c].at = "driver",
                                  ![c].want = IF call[c].param = None /\ m = "page" THEN t ELSE None]
  /\ UNCHANGED <<paths, record, opener, budget, chrome, targets, active>>

\* A step of the daemon; the session of a tab is that of the command that opened it.
Daemon(c) ==
  /\ Work(c)
  /\ opener' = [t \in Tabs |-> IF tab[t] = "unborn" /\ tab'[t] = "open" THEN call[c].session
                                                                        ELSE opener[t]]
  /\ UNCHANGED <<paths, record, call, budget>>

\* updateSessionState, on open and close that succeeded.
updateSessionState(c) ==
  IF call[c].broker # None /\ run[c].ok
     /\ call[c].method \in {"open", "close", "closeAll"}
  THEN record' = [record EXCEPT ![call[c].broker][call[c].session] =
                    IF call[c].method = "open" THEN run[c].tab ELSE None]
  ELSE UNCHANGED record

\* The daemon's answer, to a broker that may have given up at its deadline.
Reply(c) ==
  /\ run[c].at = "done" /\ run' = [run EXCEPT ![c] = Idle]
  /\ updateSessionState(c) \/ UNCHANGED record
  /\ Over(c)
  /\ UNCHANGED <<paths, opener, budget, chrome, targets, active>>

-----------------------------------------------------------------------------

User ==
  /\ budget.events > 0 /\ budget' = [budget EXCEPT !.events = @ - 1]
  /\ \E t \in Tabs : UserCloses(t)
  /\ UNCHANGED <<paths, record, call, opener>>

Chrome ==
  (\E c \in Commands : Answer(c)) /\ UNCHANGED agent

Goroutines ==
  \/ \E c \in Commands : Daemon(c)
  \/ \E k \in DOMAIN conn : Pump(k) /\ UNCHANGED agent

Next ==
  \/ \E c \in Commands : \/ Ask(c) \/ Cli(c) \/ Starting(c) \/ Handle(c) \/ Reply(c)
  \/ \E b \in Brokers : Check(b) \/ Remove(b) \/ Bind(b) \/ Signal(b) \/ Exit(b) \/ Kill(b)
  \/ Goroutines \/ Stop \/ StopRemoves \/ User \/ Chrome

\* Goroutines of the daemon run, and the read of a socket that is down fails.
Fairness == WF_vars(Goroutines)

Spec == Init /\ [][Next]_vars /\ Fairness

-----------------------------------------------------------------------------

\* The requests that are made of a page.
OnPage == {c \in Commands : run[c].at \in {"register", "write", "wait"}}

\* The tab of a session is one that the session opened, and a command of a named
\* session that names no tab acts on it, through a connection to it, whatever the
\* other sessions and brokers do, unless that tab is closed by now (main.go:95).
SessionsIsolated ==
  /\ \A b \in Brokers, s \in Sessions : record[b][s] # None => opener[record[b][s]] = s
  /\ \A c \in OnPage : conn[run[c].conn].tab = run[c].tab
  /\ \A c \in OnPage : named(c) /\ call[c].method = "page" /\ call[c].param = None =>
       \/ run[c].tab = call[c].want /\ opener[run[c].tab] = call[c].session
       \/ call[c].want \in Tabs /\ tab[call[c].want] = "closed"

Lost == {c \in Commands : run[c].at \in {"write", "wait"} /\ ~conn[run[c].conn].up}

\* A request to a tab whose connection is lost ends, also one that registers itself
\* after the read pump has failed the others (websocket.go:384).
LossEndsCall == Lost # {} ~> Lost = {}
=============================================================================
