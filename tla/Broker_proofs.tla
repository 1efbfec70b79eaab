---------------------------- MODULE Broker_proofs ----------------------------
(***************************************************************************)
(* Theorems about the brokers and the driver behind them, for any number   *)
(* of tabs, commands, brokers, sessions, connections and events: a session *)
(* keeps to the tab it opened.                                             *)
(***************************************************************************)
EXTENDS Broker, SequenceTheorems, TLAPS

-----------------------------------------------------------------------------
(* The inductive invariant.                                                *)

\* Where a request can be, by its method.
OnTab == {"dial", "store", "register", "write", "wait"}

Stages(m) == CASE m = "open"     -> {"new"} \cup OnTab
               [] m = "page"     -> {"lookup", "discover", "again", "adopt"} \cup OnTab
               [] m = "switch"   -> {"find", "switch"} \cup OnTab
               [] m = "close"    -> {"take", "hangUp"}
               [] m = "closeAll" -> {"takeAll", "hangUp"}
               [] m = "list"     -> {"list", "read", "latest"}

Steps == UNION {Stages(m) : m \in Methods}

Conns == [tab : Tabs, up : BOOLEAN, closed : BOOLEAN, failed : BOOLEAN]
Goroutine == [at : Steps \cup {"idle", "done"}, method : Methods \cup {"none"},
              param : Tabs \cup {None}, tab : Tabs \cup {None}, conn : Nat, pending : BOOLEAN,
              chan : {"none", "answer", "error"}, todo : SUBSET (Tabs \X Nat), ok : BOOLEAN]
Calls == [at : {"none", "cli", "starting", "handle", "driver"}, session : Sessions,
          method : Methods \cup {"none"}, param : Tabs \cup {None},
          broker : Brokers \cup {None}, want : Tabs \cup {None}]

DriverTyped ==
  /\ tab \in [Tabs -> {"unborn", "open", "closed"}]
  /\ conn \in Seq(Conns)
  /\ targets \in [Tabs -> Nat]
  /\ active \in Tabs \cup {None}
  /\ run \in [Commands -> Goroutine]

AgentTyped ==
  /\ record \in [Brokers -> [Sessions -> Tabs \cup {None}]]
  /\ call \in [Commands -> Calls]
  /\ opener \in [Tabs -> Sessions \cup {None}]

\* A connection that the driver has for a tab, or a request for its own, goes there.
Goes(k, t) == k \in 1 .. Len(conn) /\ conn[k].tab = t

Linked(c) ==
  /\ run[c].at \in {"store", "adopt", "register", "write", "wait"} => Goes(run[c].conn, run[c].tab)
  /\ run[c].at \in OnTab \cup {"again", "adopt", "switch", "read", "latest"} => run[c].tab # None

\* The daemon works on what a command asked of it, and on nothing else.
Staged(c) ==
  /\ call[c].at = "driver" <=> run[c].at # "idle"
  /\ call[c].at # "none" => call[c].method \in Methods
  /\ call[c].at = "handle" => call[c].broker # None
  /\ run[c].at \notin {"idle", "done"} => /\ call[c].method = run[c].method
                                          /\ run[c].method \in Methods
                                          /\ run[c].at \in Stages(run[c].method)

\* A request that opens a tab has opened it for its session, or failed.
Opens(c) ==
  call[c].method = "open" /\ run[c].at \notin {"idle", "new"} =>
    \/ run[c].at = "done" /\ ~run[c].ok
    \/ run[c].tab # None /\ opener[run[c].tab] = call[c].session

\* A command of a named session that goes to the session's tab has that tab, until
\* it is closed.
Sessional(c) == named(c) /\ call[c].method = "page" /\ call[c].param = None

Keeps(c) ==
  Sessional(c) /\ run[c].at \notin {"idle", "done"} =>
    /\ call[c].want # None /\ opener[call[c].want] = call[c].session
    /\ run[c].at = "lookup" => run[c].param = call[c].want
    /\ run[c].at # "lookup" => run[c].tab = call[c].want \/ tab[call[c].want] = "closed"

Request(c) == Linked(c) /\ Staged(c) /\ Opens(c) /\ Keeps(c)

Targeted == \A t \in Tabs : targets[t] # 0 => Goes(targets[t], t)

\* The tab of a session is one that it opened, and such a tab was opened.
Born  == \A t \in Tabs : opener[t] # None => tab[t] # "unborn"
Recorded == \A b \in Brokers, s \in Sessions : record[b][s] # None => opener[record[b][s]] = s

IInv == /\ DriverTyped /\ AgentTyped /\ Targeted /\ Born /\ Recorded
        /\ \A c \in Commands : Request(c)

-----------------------------------------------------------------------------
(* What the steps of the driver do to their requests and connections.      *)

LEMMA StepsAre ==
  /\ Steps = {"new", "lookup", "discover", "again", "adopt", "find", "switch", "take", "takeAll",
              "hangUp", "list", "read", "latest"} \cup OnTab
  /\ Methods = {"open", "page", "close", "closeAll", "switch", "list"}
  /\ \A m \in Methods : Stages(m) \subseteq Steps /\ {"idle", "done"} \cap Stages(m) = {}
<1>1. Methods = {"open", "page", "close", "closeAll", "switch", "list"}
  BY DEF Methods
<1>2. /\ Stages("open") = {"new"} \cup OnTab
      /\ Stages("page") = {"lookup", "discover", "again", "adopt"} \cup OnTab
      /\ Stages("switch") = {"find", "switch"} \cup OnTab
      /\ Stages("close") = {"take", "hangUp"}
      /\ Stages("closeAll") = {"takeAll", "hangUp"}
      /\ Stages("list") = {"list", "read", "latest"}
  BY DEF Stages
<1>3. \A x : x \in Steps <=> \E m \in Methods : x \in Stages(m)
  BY DEF Steps
<1>4. \A x : (\E m \in Methods : x \in Stages(m)) <=>
             \/ x \in Stages("open") \/ x \in Stages("page") \/ x \in Stages("switch")
             \/ x \in Stages("close") \/ x \in Stages("closeAll") \/ x \in Stages("list")
  BY <1>1
<1>5. Steps = {"new", "lookup", "discover", "again", "adopt", "find", "switch", "take", "takeAll",
               "hangUp", "list", "read", "latest"} \cup OnTab
  BY <1>2, <1>3, <1>4
<1>6. \A m \in Methods : Stages(m) \subseteq Steps
  BY <1>3
<1>7. \A m \in Methods : {"idle", "done"} \cap Stages(m) = {}
  BY <1>6, <1>5 DEF OnTab
<1> QED  BY <1>1, <1>5, <1>6, <1>7

\* A step of a request changes that request and no other.
Only(c) == /\ run' \in [Commands -> Goroutine]
           /\ \A d \in Commands \ {c} : run'[d] = run[d]

LEMMA OneGoroutine ==
  ASSUME DriverTyped, NEW c \in Commands, NEW n \in Goroutine, run' = [run EXCEPT ![c] = n]
  PROVE  Only(c) /\ run'[c] = n
BY DEF DriverTyped, Only

LEMMA IdleTyped == Idle \in Goroutine
BY DEF Idle, Goroutine

LEMMA MovesOne ==
  ASSUME DriverTyped, NEW c \in Commands, NEW at \in Steps, Moves(c, at)
  PROVE  Only(c) /\ run'[c] = [run[c] EXCEPT !.at = at]
<1>1. run[c] \in Goroutine
  BY DEF DriverTyped
<1>2. [run[c] EXCEPT !.at = at] \in Goroutine
  BY <1>1 DEF Goroutine
<1> QED  BY <1>2, OneGoroutine DEF Moves

LEMMA ReturnsOne ==
  ASSUME DriverTyped, NEW c \in Commands, NEW ok \in BOOLEAN, Returns(c, ok)
  PROVE  /\ Only(c) /\ run'[c].at = "done" /\ run'[c].tab = run[c].tab /\ run'[c].ok = ok
<1> DEFINE n == [Idle EXCEPT !.at = "done", !.tab = run[c].tab, !.ok = ok]
<1>1. run[c].tab \in Tabs \cup {None}
  BY DEF DriverTyped, Goroutine
<1>2. n \in Goroutine /\ n.at = "done" /\ n.tab = run[c].tab /\ n.ok = ok
  BY <1>1, IdleTyped DEF Idle, Goroutine
<1>3. Only(c) /\ run'[c] = n
  <2> HIDE DEF n
  <2> QED  BY <1>2, OneGoroutine DEF Returns, n
<1> QED  BY <1>2, <1>3

-----------------------------------------------------------------------------
(* What a step leaves of the connections and tabs.                         *)

ConnsKept == /\ conn' \in Seq(Conns) /\ Len(conn') >= Len(conn)
             /\ \A k \in 1 .. Len(conn) : conn'[k].tab = conn[k].tab

TabsKept == /\ tab' \in [Tabs -> {"unborn", "open", "closed"}]
            /\ \A t \in Tabs : tab[t] # "unborn" => tab'[t] # "unborn"
            /\ \A t \in Tabs : tab[t] = "closed" => tab'[t] = "closed"

LEMMA GoesOn ==
  ASSUME DriverTyped, ConnsKept, NEW k, NEW t, Goes(k, t)
  PROVE  k \in 1 .. Len(conn') /\ conn'[k].tab = t
BY DEF Goes, ConnsKept, DriverTyped

LEMMA DialsKept ==
  ASSUME DriverTyped, NEW t \in Tabs, Dials(t)
  PROVE  /\ ConnsKept /\ Len(conn) + 1 \in 1 .. Len(conn')
         /\ conn'[Len(conn) + 1].tab = t
<1> DEFINE new == [tab |-> t, up |-> TRUE, closed |-> FALSE, failed |-> FALSE]
<1>1. new \in Conns /\ new.tab = t
  BY DEF Conns
<1>2. conn \in Seq(Conns) /\ conn' = Append(conn, new)
  BY DEF DriverTyped, Dials
<1> HIDE DEF new
<1> QED  BY <1>1, <1>2 DEF ConnsKept

LEMMA SameConnsKept == ASSUME DriverTyped, UNCHANGED conn PROVE ConnsKept
BY DEF DriverTyped, ConnsKept

LEMMA UpdateKept ==
  ASSUME DriverTyped, NEW k, NEW r \in Conns, k \in DOMAIN conn => r.tab = conn[k].tab,
         conn' = [conn EXCEPT ![k] = r]
  PROVE  ConnsKept
<1>1. conn \in Seq(Conns)
  BY DEF DriverTyped
<1>2. CASE k \in 1 .. Len(conn)
  <2>1. conn' \in Seq(Conns) /\ Len(conn') = Len(conn)
    BY <1>1, <1>2, ExceptSeq
  <2>2. \A i \in 1 .. Len(conn) : conn'[i] = IF i = k THEN r ELSE conn[i]
    BY <1>1, <1>2, ExceptSeq
  <2> QED  BY <1>1, <1>2, <2>1, <2>2 DEF ConnsKept
<1>3. CASE k \notin 1 .. Len(conn)
  <2>1. conn \in [1 .. Len(conn) -> Conns]
    BY <1>1, LenProperties
  <2>2. conn' = conn
    BY <2>1, <1>3
  <2> QED  BY <2>2, SameConnsKept
<1> QED  BY <1>2, <1>3

LEMMA CloseKept ==
  ASSUME DriverTyped, NEW t \in Tabs, Close(t)
  PROVE  ConnsKept /\ TabsKept
<1>1. conn \in Seq(Conns)
  BY DEF DriverTyped
<1>2. \A k \in DOMAIN conn :
        /\ [conn[k] EXCEPT !.up = @ /\ conn[k].tab # t] \in Conns
        /\ [conn[k] EXCEPT !.up = @ /\ conn[k].tab # t].tab = conn[k].tab
  <2> SUFFICES ASSUME NEW k \in DOMAIN conn
               PROVE  /\ [conn[k] EXCEPT !.up = @ /\ conn[k].tab # t] \in Conns
                      /\ [conn[k] EXCEPT !.up = @ /\ conn[k].tab # t].tab = conn[k].tab
    OBVIOUS
  <2>1. conn[k] \in Conns
    BY <1>1
  <2>2. (conn[k].up /\ conn[k].tab # t) \in BOOLEAN
    OBVIOUS
  <2> QED  BY <2>1, <2>2 DEF Conns
<1>3. /\ conn' \in Seq(Conns) /\ Len(conn') = Len(conn)
      /\ \A k \in 1 .. Len(conn) : conn'[k].tab = conn[k].tab
  BY <1>1, <1>2 DEF Close
<1>4. ConnsKept
  BY <1>1, <1>3 DEF ConnsKept
<1> QED  BY <1>4 DEF TabsKept, Close, DriverTyped

LEMMA SameKept == ASSUME DriverTyped, UNCHANGED chrome PROVE ConnsKept /\ TabsKept
BY DEF DriverTyped, ConnsKept, TabsKept, chrome


-----------------------------------------------------------------------------
(* The daemon's goroutines.                                                *)

\* A request that goes on: where it is, its tab and its connection are set.
Sets(c, at, t, k) ==
  /\ Only(c) /\ run'[c].at = at /\ run'[c].tab = t /\ run'[c].conn = k
  /\ run'[c].method = run[c].method /\ run'[c].param = run[c].param

LEMMA MovesSets ==
  ASSUME DriverTyped, NEW c \in Commands, NEW at \in Steps, Moves(c, at)
  PROVE  Sets(c, at, run[c].tab, run[c].conn)
<1>1. Only(c) /\ run'[c] = [run[c] EXCEPT !.at = at]
  BY MovesOne
<1>2. run[c] \in Goroutine
  BY DEF DriverTyped
<1> QED  BY <1>1, <1>2 DEF Sets, Goroutine

LEMMA Setting ==
  ASSUME DriverTyped, NEW c \in Commands, NEW at \in Steps, NEW t \in Tabs \cup {None},
         NEW k \in Nat, run' = [run EXCEPT ![c] = [run[c] EXCEPT !.at = at, !.tab = t, !.conn = k]]
  PROVE  Sets(c, at, t, k)
<1>1. run[c] \in Goroutine
  BY DEF DriverTyped
<1> DEFINE n == [run[c] EXCEPT !.at = at, !.tab = t, !.conn = k]
<1>2. /\ n \in Goroutine /\ n.at = at /\ n.tab = t /\ n.conn = k
      /\ n.method = run[c].method /\ n.param = run[c].param
  BY <1>1 DEF Goroutine
<1>3. Only(c) /\ run'[c] = n
  <2> HIDE DEF n
  <2> QED  BY <1>2, OneGoroutine DEF n
<1> HIDE DEF n
<1> QED  BY <1>2, <1>3 DEF Sets

\* The forms in which the steps set them.
LEMMA SetForms ==
  ASSUME DriverTyped, NEW c \in Commands, NEW at \in Steps, NEW t \in Tabs \cup {None},
         NEW k \in Nat
  PROVE  /\ run' = [run EXCEPT ![c].at = at, ![c].tab = t] => Sets(c, at, t, run[c].conn)
         /\ run' = [run EXCEPT ![c].at = at, ![c].conn = k] => Sets(c, at, run[c].tab, k)
         /\ run' = [run EXCEPT ![c].at = at, ![c].tab = t, ![c].conn = k] => Sets(c, at, t, k)
<1>1. run[c] \in Goroutine /\ run[c].tab \in Tabs \cup {None} /\ run[c].conn \in Nat
  BY DEF DriverTyped, Goroutine
<1>2. ASSUME NEW r \in Goroutine
      PROVE  /\ [r EXCEPT !.at = at, !.tab = t]
                  = [r EXCEPT !.at = at, !.tab = t, !.conn = r.conn]
             /\ [r EXCEPT !.at = at, !.conn = k]
                  = [r EXCEPT !.at = at, !.tab = r.tab, !.conn = k]
  BY DEF Goroutine
<1>3. ASSUME run' = [run EXCEPT ![c].at = at, ![c].tab = t]
      PROVE  Sets(c, at, t, run[c].conn)
  <2>1. run' = [run EXCEPT ![c] = [run[c] EXCEPT !.at = at, !.tab = t]]
    BY <1>3 DEF DriverTyped
  <2> QED  BY <1>1, <1>2, <2>1, Setting
<1>4. ASSUME run' = [run EXCEPT ![c].at = at, ![c].conn = k]
      PROVE  Sets(c, at, run[c].tab, k)
  <2>1. run' = [run EXCEPT ![c] = [run[c] EXCEPT !.at = at, !.conn = k]]
    BY <1>4 DEF DriverTyped
  <2> QED  BY <1>1, <1>2, <2>1, Setting
<1>5. ASSUME run' = [run EXCEPT ![c].at = at, ![c].tab = t, ![c].conn = k]
      PROVE  Sets(c, at, t, k)
  <2>1. run' = [run EXCEPT ![c] = [run[c] EXCEPT !.at = at, !.tab = t, !.conn = k]]
    BY <1>5 DEF DriverTyped
  <2> QED  BY <1>1, <2>1, Setting
<1> QED  BY <1>3, <1>4, <1>5

\* What every step of a request leaves as it should be: the types, the connections
\* and the tabs, and where the driver's connections go.
Runs(c) == Only(c) /\ ConnsKept /\ TabsKept /\ DriverTyped' /\ Targeted'

LEMMA RunsSame ==
  ASSUME DriverTyped, Targeted, NEW c \in Commands, Only(c), ConnsKept, TabsKept,
         targets' = targets, active' \in Tabs \cup {None}
  PROVE  Runs(c)
<1>1. DriverTyped'
  BY DEF DriverTyped, Only, ConnsKept, TabsKept
<1>2. Targeted'
  BY GoesOn DEF Targeted, Goes
<1> QED  BY <1>1, <1>2 DEF Runs

\* The steps on the way to a connection of the tab, in the order of the driver.
LEMMA ReachRuns ==
  ASSUME DriverTyped, Targeted, NEW c \in Commands, Request(c),
         \/ DialWebSocket(c) \/ Store(c) \/ NewTab(c) \/ Lookup(c) \/ DiscoverTargets(c)
         \/ Again(c) \/ Adopt(c) \/ Find(c) \/ Switch(c)
  PROVE  Runs(c)
<1>1. run[c] \in Goroutine /\ run[c].tab \in Tabs \cup {None} /\ run[c].conn \in Nat
      /\ active \in Tabs \cup {None} /\ targets \in [Tabs -> Nat]
  BY DEF DriverTyped, Goroutine
<1>2. /\ run[c].at \in OnTab \cup {"again", "adopt", "switch"} => run[c].tab \in Tabs
      /\ run[c].at \in {"store", "adopt"} => Goes(run[c].conn, run[c].tab)
  BY <1>1 DEF Request, Linked
<1>3. {"dial", "store", "register", "adopt", "again", "discover", "switch"} \subseteq Steps
  BY StepsAre DEF OnTab
<1>4. CASE DialWebSocket(c)
  <2>1. run[c].at = "dial" /\ run[c].tab \in Tabs
    BY <1>2, <1>4 DEF DialWebSocket, OnTab
  <2>2. Len(conn) + 1 \in Nat
    BY LenProperties DEF DriverTyped
  <2>3. ASSUME Dials(run[c].tab), UNCHANGED <<tab, targets, active>>,
               run' = [run EXCEPT ![c].at = "store", ![c].conn = Len(conn) + 1]
        PROVE  Runs(c)
    <3>1. Only(c)
      BY <1>1, <1>3, <2>2, <2>3, SetForms DEF Sets
    <3>2. ConnsKept /\ TabsKept
      BY <2>1, <2>3, DialsKept DEF TabsKept, DriverTyped
    <3> QED  BY <1>1, <2>3, <3>1, <3>2, RunsSame
  <2>4. ASSUME Fails(c), UNCHANGED <<chrome, targets, active>>
        PROVE  Runs(c)
    BY <1>1, <2>4, ReturnsOne, SameKept, RunsSame DEF Fails
  <2> QED  BY <1>4, <2>3, <2>4 DEF DialWebSocket, chrome
<1>5. CASE Store(c)
  <2>1. run[c].at = "store" /\ run[c].tab \in Tabs /\ Goes(run[c].conn, run[c].tab)
    BY <1>2, <1>5 DEF Store, OnTab
  <2>2. Only(c) /\ ConnsKept /\ TabsKept
    BY <1>3, <1>5, MovesOne, SameKept DEF Store
  <2>3. /\ targets' \in [Tabs -> Nat] /\ active' \in Tabs \cup {None}
        /\ \A t \in Tabs : targets'[t] = IF t = run[c].tab THEN run[c].conn ELSE targets[t]
    BY <1>1, <1>5, <2>1 DEF Store
  <2>4. DriverTyped'
    BY <2>2, <2>3 DEF DriverTyped, Only, ConnsKept, TabsKept
  <2>5. Targeted'
    BY <2>1, <2>2, <2>3, GoesOn DEF Targeted, Goes
  <2> QED  BY <2>2, <2>4, <2>5 DEF Runs
<1>6. CASE NewTab(c)
  <2>1. ASSUME NEW t \in Unborn, tab' = [tab EXCEPT ![t] = "open"],
               run' = [run EXCEPT ![c].at = "dial", ![c].tab = t]
        PROVE  Only(c) /\ TabsKept
    <3>1. t \in Tabs /\ tab[t] = "unborn"
      BY <2>1 DEF Unborn
    <3>2. Only(c)
      BY <1>1, <1>3, <2>1, <3>1, SetForms DEF Sets
    <3>3. TabsKept
      BY <2>1, <3>1 DEF TabsKept, DriverTyped
    <3> QED  BY <3>2, <3>3
  <2>2. ASSUME Fails(c), UNCHANGED tab
        PROVE  Only(c) /\ TabsKept
    BY <2>2, ReturnsOne DEF Fails, TabsKept, DriverTyped
  <2>3. ConnsKept
    BY <1>6, SameConnsKept DEF NewTab
  <2> QED  BY <1>1, <1>6, <2>1, <2>2, <2>3, RunsSame DEF NewTab
<1>7. CASE Lookup(c)
  <2>1. Target(c) \in Tabs \cup {None}
    BY <1>1 DEF Target, DriverTyped, Goroutine
  <2>2. CASE Target(c) # None /\ targets[Target(c)] # 0
    <3>1. targets[Target(c)] \in Nat
      BY <1>1, <2>1, <2>2
    <3>2. run' = [run EXCEPT ![c].at = "register", ![c].tab = Target(c),
                             ![c].conn = targets[Target(c)]]
      BY <1>7, <2>2 DEF Lookup
    <3>3. Only(c)
      BY <1>1, <1>3, <2>1, <3>1, <3>2, SetForms DEF Sets
    <3> QED  BY <1>1, <1>7, <3>3, SameKept, RunsSame DEF Lookup
  <2>3. CASE ~(Target(c) # None /\ targets[Target(c)] # 0)
    <3>1. run' = [run EXCEPT ![c].at = "discover", ![c].tab = Target(c)]
      BY <1>7, <2>3 DEF Lookup
    <3>2. Only(c)
      BY <1>1, <1>3, <2>1, <3>1, SetForms DEF Sets
    <3> QED  BY <1>1, <1>7, <3>2, SameKept, RunsSame DEF Lookup
  <2> QED  BY <2>2, <2>3
<1>8. CASE DiscoverTargets(c)
  <2>1. ASSUME NEW t \in Pages, run' = [run EXCEPT ![c].at = "again", ![c].tab = t]
        PROVE  Only(c)
    BY <1>1, <1>3, <2>1, SetForms DEF Sets, Pages
  <2>2. ASSUME Fails(c) PROVE Only(c)
    BY <2>2, ReturnsOne DEF Fails
  <2> QED  BY <1>1, <1>8, <2>1, <2>2, SameKept, RunsSame DEF DiscoverTargets
<1>9. CASE Again(c)
  <2>1. run[c].tab \in Tabs /\ targets[run[c].tab] \in Nat
    BY <1>1, <1>2, <1>9 DEF Again
  <2>2. CASE targets[run[c].tab] # 0
    <3> DEFINE k == targets[run[c].tab]
    <3>1. run' = [run EXCEPT ![c].at = "adopt", ![c].conn = k]
      BY <1>9, <2>2 DEF Again
    <3>2. Only(c)
      <4> HIDE DEF k
      <4> QED  BY <1>1, <1>3, <2>1, <3>1, SetForms DEF Sets, k
    <3> QED  BY <1>1, <1>9, <3>2, SameKept, RunsSame DEF Again
  <2>3. CASE targets[run[c].tab] = 0
    BY <1>1, <1>3, <1>9, <2>3, MovesOne, SameKept, RunsSame DEF Again
  <2> QED  BY <2>2, <2>3
<1>10. CASE Adopt(c)
  BY <1>1, <1>3, <1>10, MovesOne, SameKept, RunsSame DEF Adopt
<1>11. CASE Find(c)
  <2>1. ASSUME run[c].param \in Pages,
               run' = [run EXCEPT ![c].at = "switch", ![c].tab = run[c].param]
        PROVE  Only(c)
    BY <1>1, <1>3, <2>1, SetForms DEF Sets, Pages
  <2>2. ASSUME Fails(c) PROVE Only(c)
    BY <2>2, ReturnsOne DEF Fails
  <2> QED  BY <1>1, <1>11, <2>1, <2>2, SameKept, RunsSame DEF Find
<1>12. CASE Switch(c)
  <2>1. run[c].tab \in Tabs /\ targets[run[c].tab] \in Nat
    BY <1>1, <1>2, <1>12 DEF Switch
  <2>2. CASE targets[run[c].tab] # 0
    <3> DEFINE k == targets[run[c].tab]
    <3>1. run' = [run EXCEPT ![c].at = "register", ![c].conn = k]
      BY <1>12, <2>2 DEF Switch
    <3>2. Only(c)
      <4> HIDE DEF k
      <4> QED  BY <1>1, <1>3, <2>1, <3>1, SetForms DEF Sets, k
    <3> QED  BY <1>1, <1>12, <2>1, <3>2, SameKept, RunsSame DEF Switch
  <2>3. CASE targets[run[c].tab] = 0
    BY <1>1, <1>3, <1>12, <2>1, <2>3, MovesOne, SameKept, RunsSame DEF Switch
  <2> QED  BY <2>2, <2>3
<1> QED
  BY <1>4, <1>5, <1>6, <1>7, <1>8, <1>9, <1>10, <1>11, <1>12

\* The steps of a call to a page, and of the lists and closings.
LEMMA EndsOne ==
  ASSUME DriverTyped, NEW c \in Commands, NEW ok \in BOOLEAN, Ends(c, ok)
  PROVE  /\ Only(c) /\ run'[c].at = "done" /\ run'[c].tab = run[c].tab
<1>1. (ok \/ run[c].method \in {"open", "switch"}) \in BOOLEAN
  OBVIOUS
<1> QED  BY <1>1, ReturnsOne DEF Ends

LEMMA ServeRuns ==
  ASSUME DriverTyped, Targeted, NEW c \in Commands, Request(c),
         \/ Register(c) \/ WriteTextMessage(c) \/ Wait(c) \/ List(c) \/ ReadActive(c)
         \/ Latest(c) \/ Take(c) \/ TakeAll(c) \/ HangUp(c) \/ Closed(c)
  PROVE  Runs(c)
<1>1. run[c] \in Goroutine /\ run[c].tab \in Tabs \cup {None} /\ run[c].conn \in Nat
      /\ active \in Tabs \cup {None} /\ targets \in [Tabs -> Nat]
  BY DEF DriverTyped, Goroutine
<1>2. {"write", "wait", "latest", "read", "hangUp"} \subseteq Steps
  BY StepsAre DEF OnTab
<1>3. CASE Register(c)
  <2>1. [run[c] EXCEPT !.at = "write", !.pending = TRUE] \in Goroutine
    BY <1>1, <1>2 DEF Goroutine
  <2>2. run' = [run EXCEPT ![c] = [run[c] EXCEPT !.at = "write", !.pending = TRUE]]
    BY <1>3 DEF Register, DriverTyped
  <2>3. Only(c)
    BY <2>1, <2>2, OneGoroutine
  <2> QED  BY <1>1, <1>3, <2>3, SameKept, RunsSame DEF Register
<1>4. CASE WriteTextMessage(c)
  <2>1. Only(c)
    BY <1>2, <1>4, MovesOne, EndsOne DEF WriteTextMessage
  <2> QED  BY <1>1, <1>4, <2>1, SameKept, RunsSame DEF WriteTextMessage
<1>5. CASE Wait(c)
  <2>1. Only(c)
    BY <1>5, EndsOne DEF Wait
  <2> QED  BY <1>1, <1>5, <2>1, SameKept, RunsSame DEF Wait
<1>6. CASE List(c)
  <2>1. ASSUME NEW t \in Pages, NEW at \in {"latest", "read"},
               run' = [run EXCEPT ![c].at = at, ![c].tab = t]
        PROVE  Only(c)
    BY <1>1, <1>2, <2>1, SetForms DEF Sets, Pages
  <2>2. ASSUME Returns(c, Pages = {}) PROVE Only(c)
    BY <2>2, ReturnsOne
  <2>3. Only(c)
    BY <1>6, <2>1, <2>2 DEF List
  <2> QED  BY <1>1, <1>6, <2>3, SameKept, RunsSame DEF List
<1>7. CASE ReadActive(c)
  <2>1. Only(c)
    BY <1>2, <1>7, MovesOne, ReturnsOne DEF ReadActive
  <2> QED  BY <1>1, <1>7, <2>1, SameKept, RunsSame DEF ReadActive
<1>8. CASE Latest(c)
  <2>1. Only(c)
    BY <1>8, ReturnsOne DEF Latest
  <2> QED  BY <1>1, <1>8, <2>1, SameKept, RunsSame DEF Latest
<1>9. CASE Take(c)
  <2>1. Target(c) \in Tabs \cup {None}
    BY <1>1 DEF Target, Goroutine
  <2>2. CASE Target(c) = None
    <3>1. Only(c) /\ targets' = targets /\ active' = active
      BY <1>9, <2>2, ReturnsOne DEF Take, Fails
    <3> QED  BY <1>1, <1>9, <3>1, SameKept, RunsSame DEF Take
  <2>3. CASE Target(c) # None
    <3> DEFINE t == Target(c)
    <3>1. t \in Tabs /\ targets[t] \in Nat
      BY <1>1, <2>1, <2>3
    <3>2. [run[c] EXCEPT !.at = "hangUp", !.todo = {<<t, targets[t]>>}] \in Goroutine
      <4>1. {<<t, targets[t]>>} \in SUBSET (Tabs \X Nat)
        BY <3>1
      <4>2. ASSUME NEW todo \in SUBSET (Tabs \X Nat)
            PROVE  [run[c] EXCEPT !.at = "hangUp", !.todo = todo] \in Goroutine
        BY <1>1, <1>2 DEF Goroutine
      <4> HIDE DEF t
      <4> QED  BY <4>1, <4>2
    <3>3. run' = [run EXCEPT ![c] = [run[c] EXCEPT !.at = "hangUp", !.todo = {<<t, targets[t]>>}]]
      BY <1>9, <2>3 DEF Take, DriverTyped
    <3>4. Only(c)
      BY <3>2, <3>3, OneGoroutine
    <3>5. targets' = [targets EXCEPT ![t] = 0] /\ active' \in Tabs \cup {None}
      BY <1>1, <1>9, <2>3 DEF Take
    <3>6. ConnsKept /\ TabsKept
      BY <1>9, SameKept DEF Take
    <3>7. DriverTyped'
      BY <1>1, <3>1, <3>4, <3>5, <3>6 DEF DriverTyped, Only, ConnsKept, TabsKept
    <3>8. Targeted'
      BY <1>1, <3>1, <3>5, <3>6, GoesOn DEF Targeted, Goes
    <3> QED  BY <3>4, <3>6, <3>7, <3>8 DEF Runs
  <2> QED  BY <2>2, <2>3
<1>10. CASE TakeAll(c)
  <2> DEFINE S == {<<t, targets[t]>> : t \in {u \in Tabs : targets[u] # 0}}
  <2>1. [run[c] EXCEPT !.at = "hangUp", !.todo = S] \in Goroutine
    <3>1. S \in SUBSET (Tabs \X Nat)
      BY <1>1
    <3>2. ASSUME NEW todo \in SUBSET (Tabs \X Nat)
          PROVE  [run[c] EXCEPT !.at = "hangUp", !.todo = todo] \in Goroutine
      BY <1>1, <1>2 DEF Goroutine
    <3> HIDE DEF S
    <3> QED  BY <3>1, <3>2
  <2>2. run' = [run EXCEPT ![c] = [run[c] EXCEPT !.at = "hangUp", !.todo = S]]
    BY <1>10 DEF TakeAll, DriverTyped
  <2>3. Only(c)
    <3> HIDE DEF S
    <3> QED  BY <2>1, <2>2, OneGoroutine
  <2>4. ConnsKept /\ TabsKept
    BY <1>10, SameKept DEF TakeAll
  <2>5. targets' = [t \in Tabs |-> 0] /\ active' = None
    BY <1>10 DEF TakeAll
  <2>6. DriverTyped' /\ Targeted'
    BY <2>3, <2>4, <2>5 DEF DriverTyped, Targeted, Only, ConnsKept, TabsKept
  <2> QED  BY <2>3, <2>4, <2>6 DEF Runs
<1>11. CASE HangUp(c)
  <2>1. PICK p \in run[c].todo :
          /\ run' = [run EXCEPT ![c].todo = @ \ {p}]
          /\ \/ Close(p[1])
             \/ /\ conn' = (IF p[2] = 0 THEN conn ELSE [conn EXCEPT ![p[2]].up = FALSE])
                /\ UNCHANGED tab
    BY <1>11 DEF HangUp
  <2>2. p[1] \in Tabs /\ p[2] \in Nat
    BY <1>1 DEF Goroutine
  <2>3. [run[c] EXCEPT !.todo = @ \ {p}] \in Goroutine
    BY <1>1 DEF Goroutine
  <2>4. run' = [run EXCEPT ![c] = [run[c] EXCEPT !.todo = @ \ {p}]]
    BY <2>1 DEF DriverTyped
  <2>5. Only(c)
    BY <2>3, <2>4, OneGoroutine
  <2>6. CASE Close(p[1])
    BY <1>1, <1>11, <2>2, <2>5, <2>6, CloseKept, RunsSame DEF HangUp
  <2>7. CASE conn' = conn /\ UNCHANGED tab
    BY <1>1, <1>11, <2>5, <2>7, SameKept, RunsSame DEF HangUp, chrome
  <2>8. CASE conn' = [conn EXCEPT ![p[2]].up = FALSE] /\ UNCHANGED tab
    <3>1. ConnsKept
      <4>1. CASE p[2] \in 1 .. Len(conn)
        <5>1. conn[p[2]] \in Conns
          BY <4>1 DEF DriverTyped
        <5>2. [conn[p[2]] EXCEPT !.up = FALSE] \in Conns
              /\ [conn[p[2]] EXCEPT !.up = FALSE].tab = conn[p[2]].tab
          BY <5>1 DEF Conns
        <5>3. conn' = [conn EXCEPT ![p[2]] = [conn[p[2]] EXCEPT !.up = FALSE]]
          BY <2>8
        <5> QED  BY <5>2, <5>3, UpdateKept
      <4>2. CASE p[2] \notin 1 .. Len(conn)
        <5>1. conn \in [1 .. Len(conn) -> Conns]
          BY LenProperties DEF DriverTyped
        <5>2. conn' = conn
          BY <2>8, <4>2, <5>1
        <5> QED  BY <5>2, SameConnsKept
      <4> QED  BY <4>1, <4>2
    <3>2. TabsKept
      BY <2>8 DEF TabsKept, DriverTyped
    <3> QED  BY <1>1, <1>11, <2>5, <3>1, <3>2, RunsSame DEF HangUp
  <2> QED  BY <2>1, <2>6, <2>7, <2>8
<1>12. CASE Closed(c)
  <2>1. Only(c)
    BY <1>12, ReturnsOne DEF Closed
  <2> QED  BY <1>1, <1>12, <2>1, SameKept, RunsSame DEF Closed
<1> QED
  BY <1>3, <1>4, <1>5, <1>6, <1>7, <1>8, <1>9, <1>10, <1>11, <1>12

LEMMA WorkRuns ==
  ASSUME DriverTyped, Targeted, NEW c \in Commands, Request(c), Work(c)
  PROVE  Runs(c)
BY ReachRuns, ServeRuns DEF Work

-----------------------------------------------------------------------------
(* The requests.                                                           *)

OpenersKept == /\ opener' \in [Tabs -> Sessions \cup {None}]
               /\ \A t \in Tabs : opener[t] # None => opener'[t] = opener[t]

\* A request that stays where it is, for a command whose broker may have gone.
Stays(c) ==
  /\ run'[c].at = run[c].at /\ run'[c].tab = run[c].tab /\ run'[c].conn = run[c].conn
  /\ run'[c].method = run[c].method /\ run'[c].param = run[c].param /\ run'[c].ok = run[c].ok

StaysAsked(c) ==
  /\ call'[c].at = call[c].at /\ call'[c].session = call[c].session
  /\ call'[c].method = call[c].method /\ call'[c].param = call[c].param
  /\ call'[c].want = call[c].want
  /\ call[c].at = "handle" => call'[c].broker = call[c].broker

LEMMA RequestKept ==
  ASSUME DriverTyped, AgentTyped, NEW c \in Commands, Request(c),
         ConnsKept, TabsKept, OpenersKept, Stays(c), StaysAsked(c)
  PROVE  Request(c)'
<1>1. /\ call[c].session \in Sessions /\ call[c].session # None
      /\ call[c].want \in Tabs \cup {None} /\ run[c].tab \in Tabs \cup {None}
  BY SessionsAssumption DEF AgentTyped, Calls, DriverTyped, Goroutine
<1>2. Linked(c)'
  BY GoesOn DEF Stays, StaysAsked, Request, Linked, Goes
<1>3. Staged(c)'
  BY DEF Stays, StaysAsked, Request, Staged
<1>4. Opens(c)'
  BY <1>1 DEF Stays, StaysAsked, Request, Opens, OpenersKept
<1>5. Keeps(c)'
  BY <1>1 DEF Stays, StaysAsked, Request, Keeps, Sessional, named, OpenersKept, TabsKept
<1> QED  BY <1>2, <1>3, <1>4, <1>5 DEF Request

\* A request that goes on.
LEMMA RequestGoesOn ==
  ASSUME DriverTyped, AgentTyped, NEW c \in Commands, Request(c),
         ConnsKept, TabsKept, OpenersKept, call' = call,
         run[c].at \notin {"idle", "done"}, NEW at, NEW t, NEW k, Sets(c, at, t, k),
         at \in Stages(run[c].method), at # "lookup",
         at \in {"store", "adopt", "register", "write", "wait"}
           => k \in 1 .. Len(conn') /\ conn'[k].tab = t,
         at \in OnTab \cup {"again", "adopt", "switch", "read", "latest"} => t # None,
         run[c].method = "open" => at = "new" \/ (t # None /\ opener'[t] = call[c].session),
         Sessional(c) => t = call[c].want \/ tab'[call[c].want] = "closed"
  PROVE  Request(c)'
<1>1. /\ call[c].session \in Sessions /\ call[c].session # None
      /\ call[c].want \in Tabs \cup {None}
  BY SessionsAssumption DEF AgentTyped, Calls
<1>2. /\ run'[c].at = at /\ run'[c].tab = t /\ run'[c].conn = k
      /\ run'[c].method = run[c].method
  BY DEF Sets
<1>3. run[c].method \in Methods /\ call[c].method = run[c].method /\ call[c].at = "driver"
  BY DEF Request, Staged
<1>4. at \notin {"idle", "done"}
  BY <1>3, StepsAre
<1>5. Linked(c)'
  BY <1>2 DEF Linked, Goes
<1>6. Staged(c)'
  BY <1>2, <1>3, <1>4 DEF Request, Staged
<1>7. Opens(c)'
  BY <1>2, <1>3 DEF Opens
<1>8. Keeps(c)'
  BY <1>1, <1>2 DEF Request, Keeps, Sessional, named, OpenersKept
<1> QED  BY <1>5, <1>6, <1>7, <1>8 DEF Request

\* A request that returns.
LEMMA RequestReturns ==
  ASSUME DriverTyped, AgentTyped, NEW c \in Commands, Request(c),
         OpenersKept, call' = call,
         run[c].at \notin {"idle", "done"}, run'[c].at = "done", run'[c].tab = run[c].tab,
         run[c].at = "new" => ~run'[c].ok
  PROVE  Request(c)'
<1>1. /\ call[c].session \in Sessions /\ call[c].session # None
      /\ run[c].tab \in Tabs \cup {None}
  BY SessionsAssumption DEF AgentTyped, Calls, DriverTyped, Goroutine
<1>2. Linked(c)'
  BY DEF Linked, OnTab
<1>3. Staged(c)'
  BY DEF Request, Staged
<1>4. Opens(c)'
  BY <1>1 DEF Request, Opens, OpenersKept
<1>5. Keeps(c)'
  BY DEF Keeps
<1> QED  BY <1>2, <1>3, <1>4, <1>5 DEF Request

\* Where a request is tells its method.
LEMMA StagesOf ==
  ASSUME NEW m \in Methods
  PROVE  /\ \A x \in OnTab : x \in Stages(m) =>
              m \in {"open", "page", "switch"} /\ OnTab \subseteq Stages(m)
         /\ "new" \in Stages(m) => m = "open" /\ "dial" \in Stages(m)
         /\ \A x \in {"lookup", "discover", "again", "adopt"} : x \in Stages(m) =>
              m = "page" /\ ({"lookup", "discover", "again", "adopt"} \cup OnTab) \subseteq Stages(m)
         /\ \A x \in {"find", "switch"} : x \in Stages(m) =>
              m = "switch" /\ ({"find", "switch"} \cup OnTab) \subseteq Stages(m)
         /\ \A x \in {"take", "takeAll", "hangUp"} : x \in Stages(m) =>
              m \in {"close", "closeAll"} /\ "hangUp" \in Stages(m)
         /\ \A x \in {"list", "read", "latest"} : x \in Stages(m) =>
              m = "list" /\ {"list", "read", "latest"} \subseteq Stages(m)
<1>1. m \in {"open", "page", "close", "closeAll", "switch", "list"}
  BY StepsAre
<1>2. CASE m = "open"  BY <1>2 DEF Stages, OnTab
<1>3. CASE m = "page"  BY <1>3 DEF Stages, OnTab
<1>4. CASE m = "close"  BY <1>4 DEF Stages, OnTab
<1>5. CASE m = "closeAll"  BY <1>5 DEF Stages, OnTab
<1>6. CASE m = "switch"  BY <1>6 DEF Stages, OnTab
<1>7. CASE m = "list"  BY <1>7 DEF Stages, OnTab
<1> QED  BY <1>1, <1>2, <1>3, <1>4, <1>5, <1>6, <1>7

\* A request that goes on with its tab.
LEMMA SameTabGoesOn ==
  ASSUME DriverTyped, AgentTyped, NEW c \in Commands, Request(c),
         ConnsKept, TabsKept, OpenersKept, call' = call,
         run[c].at \notin {"idle", "done", "new", "lookup"},
         NEW at, NEW k, Sets(c, at, run[c].tab, k),
         at \in Stages(run[c].method), at \notin {"new", "lookup"},
         at \in {"store", "adopt", "register", "write", "wait"}
           => k \in 1 .. Len(conn') /\ conn'[k].tab = run[c].tab,
         at \in OnTab \cup {"again", "adopt", "switch", "read", "latest"} => run[c].tab # None
  PROVE  Request(c)'
<1>1. /\ call[c].session \in Sessions /\ call[c].session # None
      /\ call[c].want \in Tabs \cup {None} /\ run[c].tab \in Tabs \cup {None}
  BY SessionsAssumption DEF AgentTyped, Calls, DriverTyped, Goroutine
<1>2. run[c].method = "open" => run[c].tab # None /\ opener'[run[c].tab] = call[c].session
  BY <1>1 DEF Request, Opens, Staged, OpenersKept
<1>3. Sessional(c) => run[c].tab = call[c].want \/ tab'[call[c].want] = "closed"
  BY <1>1 DEF Request, Keeps, TabsKept
<1> QED  BY <1>2, <1>3, RequestGoesOn

\* The session of a tab is that of the command that opened it.
Signs(c) ==
  opener' = [t \in Tabs |-> IF tab[t] = "unborn" /\ tab'[t] = "open" THEN call[c].session
                                                                     ELSE opener[t]]

LEMMA SignsKept ==
  ASSUME DriverTyped, AgentTyped, Born, NEW c \in Commands, TabsKept, Signs(c)
  PROVE  OpenersKept /\ Born'
<1>1. call[c].session \in Sessions
  BY DEF AgentTyped, Calls
<1>2. OpenersKept
  BY <1>1 DEF OpenersKept, Signs, Born, AgentTyped
<1>3. Born'
  BY DEF Born, Signs, TabsKept
<1> QED  BY <1>2, <1>3

\* The steps on the way to a connection leave their own request as it should be.
LEMMA ReachRequest ==
  ASSUME IInv, NEW c \in Commands, Runs(c), Signs(c), call' = call,
         \/ DialWebSocket(c) \/ Store(c) \/ NewTab(c) \/ Lookup(c) \/ DiscoverTargets(c)
         \/ Again(c) \/ Adopt(c) \/ Find(c) \/ Switch(c)
  PROVE  Request(c)'
<1>1. DriverTyped /\ AgentTyped /\ Targeted /\ Born /\ Request(c)
  BY DEF IInv
<1>2. ConnsKept /\ TabsKept /\ OpenersKept
  BY <1>1, SignsKept DEF Runs
<1>3. run[c] \in Goroutine /\ run[c].tab \in Tabs \cup {None} /\ run[c].conn \in Nat
      /\ active \in Tabs \cup {None} /\ targets \in [Tabs -> Nat]
  BY <1>1 DEF DriverTyped, Goroutine
<1>4. run[c].at \notin {"idle", "done"}
        => run[c].method \in Methods /\ run[c].at \in Stages(run[c].method)
             /\ call[c].method = run[c].method
  BY <1>1 DEF Request, Staged
<1>5. {"dial", "store", "register", "adopt", "again", "discover", "switch"} \subseteq Steps
  BY StepsAre DEF OnTab
<1>6. /\ run[c].at \in OnTab \cup {"again", "adopt", "switch"} => run[c].tab \in Tabs
      /\ run[c].at \in {"store", "adopt"} => Goes(run[c].conn, run[c].tab)
  BY <1>1, <1>3 DEF Request, Linked
<1>7. ASSUME Fails(c), run[c].at \notin {"idle", "done"} PROVE Request(c)'
  BY <1>1, <1>2, <1>7, ReturnsOne, RequestReturns DEF Fails
<1>8. CASE DialWebSocket(c)
  <2>1. run[c].at = "dial" /\ run[c].tab \in Tabs
    BY <1>6, <1>8 DEF DialWebSocket, OnTab
  <2>2. Len(conn) + 1 \in Nat
    BY <1>1, LenProperties DEF DriverTyped
  <2>3. ASSUME Dials(run[c].tab), run' = [run EXCEPT ![c].at = "store", ![c].conn = Len(conn) + 1]
        PROVE  Request(c)'
    <3>1. Sets(c, "store", run[c].tab, Len(conn) + 1)
      BY <1>1, <1>3, <1>5, <2>2, <2>3, SetForms
    <3>2. Len(conn) + 1 \in 1 .. Len(conn') /\ conn'[Len(conn) + 1].tab = run[c].tab
      BY <1>1, <2>1, <2>3, DialsKept
    <3>3. "store" \in Stages(run[c].method)
      BY <1>4, <2>1, StagesOf DEF OnTab
    <3>4. run[c].tab # None
      BY <2>1, TabsAssumption
    <3> QED  BY <1>1, <1>2, <2>1, <3>1, <3>2, <3>3, <3>4, SameTabGoesOn DEF Sets
  <2> QED  BY <1>7, <1>8, <2>1, <2>3 DEF DialWebSocket
<1>9. CASE Store(c)
  <2>1. run[c].at = "store" /\ run[c].tab # None /\ Goes(run[c].conn, run[c].tab)
    BY <1>6, <1>9, TabsAssumption DEF Store, OnTab
  <2>2. Sets(c, "register", run[c].tab, run[c].conn)
    BY <1>1, <1>5, <1>9, MovesSets DEF Store
  <2>3. "register" \in Stages(run[c].method)
    BY <1>4, <2>1, StagesOf DEF OnTab
  <2>4. run[c].conn \in 1 .. Len(conn') /\ conn'[run[c].conn].tab = run[c].tab
    BY <1>1, <1>2, <2>1, GoesOn
  <2> QED  BY <1>1, <1>2, <2>1, <2>2, <2>3, <2>4, SameTabGoesOn DEF Sets
<1>10. CASE NewTab(c)
  <2>1. run[c].at = "new"
    BY <1>10 DEF NewTab
  <2>2. ASSUME NEW t \in Unborn, tab' = [tab EXCEPT ![t] = "open"],
               run' = [run EXCEPT ![c].at = "dial", ![c].tab = t]
        PROVE  Request(c)'
    <3>1. t \in Tabs /\ t # None /\ tab[t] = "unborn" /\ tab'[t] = "open"
      BY <1>1, <2>2, TabsAssumption DEF Unborn, DriverTyped
    <3>2. Sets(c, "dial", t, run[c].conn)
      BY <1>1, <1>3, <1>5, <2>2, <3>1, SetForms
    <3>3. opener'[t] = call[c].session
      BY <3>1 DEF Signs
    <3>4. run[c].method = "open" /\ "dial" \in Stages(run[c].method)
      BY <1>4, <2>1, StagesOf
    <3>5. ~Sessional(c)
      BY <1>4, <2>1, <3>4 DEF Sessional
    <3> QED  BY <1>1, <1>2, <2>1, <3>1, <3>2, <3>3, <3>4, <3>5, RequestGoesOn
  <2>3. ASSUME Fails(c) PROVE Request(c)'
    BY <1>7, <2>1, <2>3
  <2> QED  BY <1>10, <2>2, <2>3 DEF NewTab
<1>11. CASE Lookup(c)
  <2> DEFINE t == Target(c)
  <2>1. run[c].at = "lookup" /\ t \in Tabs \cup {None}
    BY <1>1, <1>3, <1>11 DEF Lookup, Target, DriverTyped, Goroutine
  <2>2. run[c].method = "page" /\ {"register", "discover"} \subseteq Stages(run[c].method)
    BY <1>4, <2>1, StagesOf DEF OnTab
  <2>3. Sessional(c) => t = call[c].want
    BY <1>1, <2>1 DEF Request, Keeps, Target
  <2>4. CASE t # None /\ targets[t] # 0
    <3> DEFINE k == targets[t]
    <3>1. k \in Nat /\ k \in 1 .. Len(conn') /\ conn'[k].tab = t
      BY <1>1, <1>2, <1>3, <2>1, <2>4, GoesOn DEF Targeted
    <3>2. run' = [run EXCEPT ![c].at = "register", ![c].tab = t, ![c].conn = k]
      BY <1>11, <2>4 DEF Lookup
    <3>3. Sets(c, "register", t, k)
      <4> HIDE DEF t, k
      <4> QED  BY <1>1, <1>5, <2>1, <3>1, <3>2, SetForms
    <3> HIDE DEF t, k
    <3> QED  BY <1>1, <1>2, <2>1, <2>2, <2>3, <2>4, <3>1, <3>3, RequestGoesOn
  <2>5. CASE ~(t # None /\ targets[t] # 0)
    <3>1. run' = [run EXCEPT ![c].at = "discover", ![c].tab = t]
      BY <1>11, <2>5 DEF Lookup
    <3>2. Sets(c, "discover", t, run[c].conn)
      <4> HIDE DEF t
      <4> QED  BY <1>1, <1>3, <1>5, <2>1, <3>1, SetForms
    <3> HIDE DEF t
    <3> QED  BY <1>1, <1>2, <2>1, <2>2, <2>3, <3>2, RequestGoesOn DEF OnTab
  <2> QED  BY <2>4, <2>5
<1>12. CASE DiscoverTargets(c)
  <2>1. run[c].at = "discover"
    BY <1>12 DEF DiscoverTargets
  <2>2. run[c].method = "page" /\ "again" \in Stages(run[c].method)
    BY <1>4, <2>1, StagesOf
  <2>3. ASSUME NEW t \in Pages, run[c].tab \in Pages => t = run[c].tab, tab' = tab,
               run' = [run EXCEPT ![c].at = "again", ![c].tab = t]
        PROVE  Request(c)'
    <3>1. t \in Tabs /\ t # None
      BY <2>3, TabsAssumption DEF Pages
    <3>2. Sets(c, "again", t, run[c].conn)
      BY <1>1, <1>3, <1>5, <2>3, <3>1, SetForms
    <3>3. Sessional(c) => t = call[c].want \/ tab'[call[c].want] = "closed"
      <4> SUFFICES ASSUME Sessional(c), t # call[c].want PROVE tab[call[c].want] = "closed"
        BY <2>3
      <4>1. /\ call[c].want \in Tabs /\ opener[call[c].want] # None
            /\ run[c].tab = call[c].want \/ tab[call[c].want] = "closed"
        BY <1>1, <2>1, SessionsAssumption DEF Request, Keeps, AgentTyped, Calls
      <4>2. tab[call[c].want] \in {"open", "closed"}
        BY <1>1, <4>1 DEF Born, DriverTyped
      <4> QED  BY <2>3, <4>1, <4>2 DEF Pages
    <3> QED  BY <1>1, <1>2, <2>1, <2>2, <3>1, <3>2, <3>3, RequestGoesOn DEF OnTab
  <2> QED  BY <1>7, <1>12, <2>1, <2>3 DEF DiscoverTargets, chrome
<1>13. CASE Again(c)
  <2>1. /\ run[c].at = "again" /\ run[c].tab \in Tabs /\ run[c].tab # None
        /\ targets[run[c].tab] \in Nat
    BY <1>3, <1>6, <1>13, TabsAssumption DEF Again
  <2>2. {"adopt", "dial"} \subseteq Stages(run[c].method)
    BY <1>4, <2>1, StagesOf DEF OnTab
  <2>3. CASE targets[run[c].tab] # 0
    <3> DEFINE k == targets[run[c].tab]
    <3>1. run' = [run EXCEPT ![c].at = "adopt", ![c].conn = k]
      BY <1>13, <2>3 DEF Again
    <3>2. Sets(c, "adopt", run[c].tab, k)
      <4> HIDE DEF k
      <4> QED  BY <1>1, <1>3, <1>5, <2>1, <3>1, SetForms DEF k
    <3>3. k \in 1 .. Len(conn') /\ conn'[k].tab = run[c].tab
      BY <1>1, <1>2, <2>1, <2>3, GoesOn DEF Targeted
    <3> HIDE DEF k
    <3> QED  BY <1>1, <1>2, <2>1, <2>2, <3>2, <3>3, SameTabGoesOn DEF Sets
  <2>4. CASE targets[run[c].tab] = 0
    <3>1. Sets(c, "dial", run[c].tab, run[c].conn)
      BY <1>1, <1>5, <1>13, <2>4, MovesSets DEF Again
    <3> QED  BY <1>1, <1>2, <2>1, <2>2, <3>1, SameTabGoesOn DEF Sets
  <2> QED  BY <2>3, <2>4
<1>14. CASE Adopt(c)
  <2>1. run[c].at = "adopt" /\ run[c].tab # None /\ Goes(run[c].conn, run[c].tab)
    BY <1>6, <1>14, TabsAssumption DEF Adopt
  <2>2. Sets(c, "register", run[c].tab, run[c].conn)
    BY <1>1, <1>5, <1>14, MovesSets DEF Adopt
  <2>3. "register" \in Stages(run[c].method)
    BY <1>4, <2>1, StagesOf DEF OnTab
  <2>4. run[c].conn \in 1 .. Len(conn') /\ conn'[run[c].conn].tab = run[c].tab
    BY <1>1, <1>2, <2>1, GoesOn
  <2> QED  BY <1>1, <1>2, <2>1, <2>2, <2>3, <2>4, SameTabGoesOn DEF Sets
<1>15. CASE Find(c)
  <2>1. run[c].at = "find"
    BY <1>15 DEF Find
  <2>2. run[c].method = "switch" /\ "switch" \in Stages(run[c].method) /\ ~Sessional(c)
    BY <1>4, <2>1, StagesOf DEF Sessional
  <2>3. ASSUME run[c].param \in Pages,
               run' = [run EXCEPT ![c].at = "switch", ![c].tab = run[c].param]
        PROVE  Request(c)'
    <3>1. run[c].param \in Tabs /\ run[c].param # None
      BY <2>3, TabsAssumption DEF Pages
    <3>2. Sets(c, "switch", run[c].param, run[c].conn)
      BY <1>1, <1>3, <1>5, <2>3, <3>1, SetForms
    <3> QED  BY <1>1, <1>2, <2>1, <2>2, <3>1, <3>2, RequestGoesOn
  <2> QED  BY <1>7, <1>15, <2>1, <2>3 DEF Find
<1>16. CASE Switch(c)
  <2>1. /\ run[c].at = "switch" /\ run[c].tab \in Tabs /\ run[c].tab # None
        /\ targets[run[c].tab] \in Nat
    BY <1>3, <1>6, <1>16, TabsAssumption DEF Switch
  <2>2. {"register", "dial"} \subseteq Stages(run[c].method)
    BY <1>4, <2>1, StagesOf DEF OnTab
  <2>3. CASE targets[run[c].tab] # 0
    <3> DEFINE k == targets[run[c].tab]
    <3>1. run' = [run EXCEPT ![c].at = "register", ![c].conn = k]
      BY <1>16, <2>3 DEF Switch
    <3>2. Sets(c, "register", run[c].tab, k)
      <4> HIDE DEF k
      <4> QED  BY <1>1, <1>3, <1>5, <2>1, <3>1, SetForms DEF k
    <3>3. k \in 1 .. Len(conn') /\ conn'[k].tab = run[c].tab
      BY <1>1, <1>2, <2>1, <2>3, GoesOn DEF Targeted
    <3> HIDE DEF k
    <3> QED  BY <1>1, <1>2, <2>1, <2>2, <3>2, <3>3, SameTabGoesOn DEF Sets
  <2>4. CASE targets[run[c].tab] = 0
    <3>1. Sets(c, "dial", run[c].tab, run[c].conn)
      BY <1>1, <1>5, <1>16, <2>4, MovesSets DEF Switch
    <3> QED  BY <1>1, <1>2, <2>1, <2>2, <3>1, SameTabGoesOn DEF Sets
  <2> QED  BY <2>3, <2>4
<1> QED
  BY <1>8, <1>9, <1>10, <1>11, <1>12, <1>13, <1>14, <1>15, <1>16

\* A request that returns does so for its tab, and leaves it as it should be.
LEMMA ServeReturns ==
  ASSUME IInv, NEW c \in Commands, Runs(c), OpenersKept, call' = call,
         run[c].at \notin {"idle", "done", "new"}, NEW ok \in BOOLEAN, Returns(c, ok)
  PROVE  Request(c)'
<1>1. DriverTyped /\ AgentTyped /\ Request(c)
  BY DEF IInv
<1>2. run'[c].at = "done" /\ run'[c].tab = run[c].tab
  BY <1>1, ReturnsOne
<1> QED  BY <1>1, <1>2, RequestReturns

\* The other steps of a request leave it as it should be.
LEMMA ServeRequest ==
  ASSUME IInv, NEW c \in Commands, Runs(c), Signs(c), call' = call,
         \/ Register(c) \/ WriteTextMessage(c) \/ Wait(c) \/ List(c) \/ ReadActive(c)
         \/ Latest(c) \/ Take(c) \/ TakeAll(c) \/ HangUp(c) \/ Closed(c)
  PROVE  Request(c)'
<1>1. DriverTyped /\ AgentTyped /\ Targeted /\ Born /\ Request(c)
  BY DEF IInv
<1>2. ConnsKept /\ TabsKept /\ OpenersKept
  BY <1>1, SignsKept DEF Runs
<1>3. run[c] \in Goroutine /\ run[c].tab \in Tabs \cup {None} /\ run[c].conn \in Nat
  BY <1>1 DEF DriverTyped, Goroutine
<1>4. run[c].at \notin {"idle", "done"}
        => run[c].method \in Methods /\ run[c].at \in Stages(run[c].method)
             /\ call[c].method = run[c].method
  BY <1>1 DEF Request, Staged
<1>5. {"write", "wait", "latest", "read", "hangUp"} \subseteq Steps
  BY StepsAre DEF OnTab
<1>6. run[c].at \in {"register", "write", "wait"} =>
        run[c].tab # None /\ Goes(run[c].conn, run[c].tab)
  BY <1>1, <1>3 DEF Request, Linked, OnTab
<1>7. ASSUME NEW ok \in BOOLEAN, Returns(c, ok), run[c].at \notin {"idle", "done", "new"}
      PROVE  Request(c)'
  BY <1>2, <1>7, ServeReturns
<1>8. ASSUME NEW ok \in BOOLEAN, Ends(c, ok), run[c].at \in {"write", "wait"}
      PROVE  Request(c)'
  BY <1>7, <1>8 DEF Ends
<1>9. CASE Register(c)
  <2>1. run[c].at = "register" /\ run[c].tab # None /\ Goes(run[c].conn, run[c].tab)
    BY <1>6, <1>9 DEF Register
  <2>2. run'[c] = [run[c] EXCEPT !.at = "write", !.pending = TRUE]
    BY <1>1, <1>9 DEF Register, DriverTyped
  <2>3. Sets(c, "write", run[c].tab, run[c].conn)
    BY <1>3, <2>2 DEF Sets, Runs, Goroutine
  <2>4. "write" \in Stages(run[c].method)
    BY <1>4, <2>1, StagesOf DEF OnTab
  <2>5. run[c].conn \in 1 .. Len(conn') /\ conn'[run[c].conn].tab = run[c].tab
    BY <1>1, <1>2, <2>1, GoesOn
  <2> QED  BY <1>1, <1>2, <2>1, <2>3, <2>4, <2>5, SameTabGoesOn DEF Sets
<1>10. CASE WriteTextMessage(c)
  <2>1. run[c].at = "write" /\ run[c].tab # None /\ Goes(run[c].conn, run[c].tab)
    BY <1>6, <1>10 DEF WriteTextMessage
  <2>2. ASSUME Moves(c, "wait") PROVE Request(c)'
    <3>1. Sets(c, "wait", run[c].tab, run[c].conn)
      BY <1>1, <1>5, <2>2, MovesSets
    <3>2. "wait" \in Stages(run[c].method)
      BY <1>4, <2>1, StagesOf DEF OnTab
    <3>3. run[c].conn \in 1 .. Len(conn') /\ conn'[run[c].conn].tab = run[c].tab
      BY <1>1, <1>2, <2>1, GoesOn
    <3> QED  BY <1>1, <1>2, <2>1, <3>1, <3>2, <3>3, SameTabGoesOn DEF Sets
  <2> QED  BY <1>8, <1>10, <2>1, <2>2 DEF WriteTextMessage
<1>11. CASE Wait(c)
  BY <1>8, <1>11 DEF Wait
<1>12. CASE List(c)
  <2>1. run[c].at = "list"
    BY <1>12 DEF List
  <2>2. run[c].method = "list" /\ {"latest", "read"} \subseteq Stages(run[c].method) /\ ~Sessional(c)
    BY <1>4, <2>1, StagesOf DEF Sessional
  <2>3. ASSUME NEW t \in Pages, NEW at \in {"latest", "read"},
               run' = [run EXCEPT ![c].at = at, ![c].tab = t]
        PROVE  Request(c)'
    <3>1. t \in Tabs /\ t # None
      BY <2>3, TabsAssumption DEF Pages
    <3>2. Sets(c, at, t, run[c].conn)
      BY <1>1, <1>3, <1>5, <2>3, <3>1, SetForms
    <3> QED  BY <1>1, <1>2, <2>1, <2>2, <2>3, <3>1, <3>2, RequestGoesOn
  <2>4. \A t \in Pages : (IF Pages = {t} THEN "latest" ELSE "read") \in {"latest", "read"}
    OBVIOUS
  <2> QED  BY <1>7, <1>12, <2>1, <2>3, <2>4 DEF List
<1>13. CASE ReadActive(c)
  <2>1. run[c].at = "read" /\ run[c].tab # None
    BY <1>1, <1>13 DEF ReadActive, Request, Linked
  <2>2. "latest" \in Stages(run[c].method)
    BY <1>4, <2>1, StagesOf
  <2>3. ASSUME Moves(c, "latest") PROVE Request(c)'
    <3>1. Sets(c, "latest", run[c].tab, run[c].conn)
      BY <1>1, <1>5, <2>3, MovesSets
    <3> QED  BY <1>1, <1>2, <2>1, <2>2, <3>1, SameTabGoesOn DEF Sets
  <2> QED  BY <1>7, <1>13, <2>1, <2>3 DEF ReadActive
<1>14. CASE Latest(c)
  BY <1>7, <1>14 DEF Latest
<1>15. ASSUME run[c].at \in {"take", "takeAll"}, NEW todo,
              run' = [run EXCEPT ![c].at = "hangUp", ![c].todo = todo]
       PROVE  Request(c)'
  <2>1. Sets(c, "hangUp", run[c].tab, run[c].conn)
    BY <1>1, <1>3, <1>15 DEF Sets, Runs, Goroutine, DriverTyped
  <2>2. "hangUp" \in Stages(run[c].method)
    BY <1>4, <1>15, StagesOf
  <2> QED  BY <1>1, <1>2, <1>15, <2>1, <2>2, SameTabGoesOn DEF Sets, OnTab
<1>16. CASE Take(c)
  BY <1>7, <1>15, <1>16 DEF Take, Fails
<1>17. CASE TakeAll(c)
  BY <1>15, <1>17 DEF TakeAll
<1>18. CASE HangUp(c)
  <2>1. Stays(c) /\ StaysAsked(c)
    BY <1>1, <1>3, <1>18 DEF HangUp, Stays, StaysAsked, Goroutine, DriverTyped
  <2> QED  BY <1>1, <1>2, <2>1, RequestKept
<1>19. CASE Closed(c)
  BY <1>7, <1>19 DEF Closed
<1> QED
  BY <1>9, <1>10, <1>11, <1>12, <1>13, <1>14, <1>16, <1>17, <1>18, <1>19

LEMMA WorkRequest ==
  ASSUME IInv, NEW c \in Commands, Runs(c), Signs(c), call' = call, Work(c)
  PROVE  Request(c)'
BY ReachRequest, ServeRequest DEF Work

-----------------------------------------------------------------------------
(* The steps of the system.                                                *)

LEMMA RecordedKept ==
  ASSUME AgentTyped, Recorded, OpenersKept,
         record' \in [Brokers -> [Sessions -> Tabs \cup {None}]],
         \A b \in Brokers, s \in Sessions : record'[b][s] \in {record[b][s], None}
  PROVE  Recorded'
<1> SUFFICES ASSUME NEW b \in Brokers, NEW s \in Sessions, record'[b][s] # None
             PROVE  opener'[record'[b][s]] = s
  BY DEF Recorded
<1>1. record'[b][s] = record[b][s] /\ record[b][s] \in Tabs
  BY DEF AgentTyped
<1>2. opener[record[b][s]] = s /\ s # None
  BY <1>1, SessionsAssumption DEF Recorded
<1> QED  BY <1>1, <1>2 DEF OpenersKept

LEMMA SameOpeners == ASSUME AgentTyped, Born, TabsKept, UNCHANGED opener PROVE OpenersKept /\ Born'
BY DEF AgentTyped, OpenersKept, Born, TabsKept

\* A step of the daemon.
LEMMA DaemonKeeps ==
  ASSUME IInv, NEW c \in Commands, Daemon(c)
  PROVE  IInv'
<1>1. DriverTyped /\ AgentTyped /\ Targeted /\ Born /\ Recorded /\ Request(c)
  BY DEF IInv
<1>2. Work(c) /\ Signs(c) /\ call' = call /\ record' = record
  BY DEF Daemon, Signs
<1>3. Runs(c)
  BY <1>1, <1>2, WorkRuns
<1>4. OpenersKept /\ Born' /\ ConnsKept /\ TabsKept
  BY <1>1, <1>2, <1>3, SignsKept DEF Runs
<1>5. AgentTyped' /\ Recorded'
  BY <1>1, <1>2, <1>4, RecordedKept DEF AgentTyped, OpenersKept
<1>6. ASSUME NEW d \in Commands PROVE Request(d)'
  <2>1. CASE d = c
    BY <1>2, <1>3, <2>1, WorkRequest
  <2>2. CASE d # c
    <3>1. Stays(d) /\ StaysAsked(d)
      BY <1>2, <1>3, <2>2 DEF Runs, Only, Stays, StaysAsked
    <3> QED  BY <1>1, <1>4, <3>1, RequestKept DEF IInv
  <2> QED  BY <2>1, <2>2
<1> QED  BY <1>3, <1>4, <1>5, <1>6 DEF IInv, Runs

\* A step of Chrome, or of a read pump, moves no request.
LEMMA ChromeKeeps ==
  ASSUME IInv, ConnsKept, TabsKept, DriverTyped', UNCHANGED <<targets, record, call, opener>>,
         \A c \in Commands : Stays(c)
  PROVE  IInv'
<1>1. DriverTyped /\ AgentTyped /\ Targeted /\ Born /\ Recorded
  BY DEF IInv
<1>2. OpenersKept /\ Born'
  BY <1>1, SameOpeners
<1>3. Targeted'
  BY <1>1, GoesOn DEF Targeted, Goes
<1>4. AgentTyped' /\ Recorded'
  BY <1>1 DEF AgentTyped, Recorded
<1>5. \A c \in Commands : Request(c)'
  BY <1>1, <1>2, RequestKept DEF IInv, StaysAsked
<1> QED  BY <1>2, <1>3, <1>4, <1>5 DEF IInv

LEMMA SameRunStays == ASSUME UNCHANGED run PROVE \A c \in Commands : Stays(c)
BY DEF Stays

LEMMA UserCloseKeeps ==
  ASSUME IInv, NEW t \in Tabs, UserCloses(t), UNCHANGED <<record, call, opener>>
  PROVE  IInv'
<1>1. DriverTyped
  BY DEF IInv
<1>2. ConnsKept /\ TabsKept
  BY <1>1, CloseKept DEF UserCloses
<1>3. DriverTyped'
  BY <1>1, <1>2 DEF DriverTyped, ConnsKept, TabsKept, UserCloses
<1> QED  BY <1>2, <1>3, ChromeKeeps, SameRunStays DEF UserCloses

LEMMA AnswerKeeps ==
  ASSUME IInv, NEW c \in Commands, Answer(c), UNCHANGED <<record, call, opener>>
  PROVE  IInv'
<1>1. DriverTyped /\ run[c] \in Goroutine
  BY DEF IInv, DriverTyped
<1> DEFINE n == [run[c] EXCEPT !.pending = FALSE, !.chan = "answer"]
<1>2. n \in Goroutine /\ n.at = run[c].at /\ n.tab = run[c].tab /\ n.conn = run[c].conn
      /\ n.method = run[c].method /\ n.param = run[c].param /\ n.ok = run[c].ok
  BY <1>1 DEF Goroutine
<1>3. run' = [run EXCEPT ![c] = n]
  BY <1>1 DEF Answer, DriverTyped
<1> HIDE DEF n
<1>4. Only(c) /\ run'[c] = n
  BY <1>1, <1>2, <1>3, OneGoroutine
<1>5. \A d \in Commands : Stays(d)
  BY <1>2, <1>4 DEF Only, Stays
<1>6. ConnsKept /\ TabsKept
  BY <1>1, SameKept DEF Answer
<1>7. DriverTyped'
  BY <1>1, <1>4, <1>6 DEF DriverTyped, ConnsKept, TabsKept, Answer, Only
<1> QED  BY <1>5, <1>6, <1>7, ChromeKeeps DEF Answer

LEMMA PumpKeeps ==
  ASSUME IInv, NEW k \in DOMAIN conn, Pump(k), UNCHANGED <<record, call, opener>>
  PROVE  IInv'
<1>1. DriverTyped /\ conn[k] \in Conns
  BY DEF IInv, DriverTyped
<1>2. TabsKept
  BY <1>1 DEF TabsKept, DriverTyped, Pump, PumpEnds, PumpFails
<1>3. CASE PumpEnds(k)
  <2>1. [conn[k] EXCEPT !.closed = TRUE] \in Conns
        /\ [conn[k] EXCEPT !.closed = TRUE].tab = conn[k].tab
    BY <1>1 DEF Conns
  <2>2. conn' = [conn EXCEPT ![k] = [conn[k] EXCEPT !.closed = TRUE]]
    BY <1>3 DEF PumpEnds
  <2>3. ConnsKept
    BY <1>1, <2>1, <2>2, UpdateKept
  <2>4. DriverTyped'
    BY <1>1, <1>2, <1>3, <2>3 DEF DriverTyped, ConnsKept, TabsKept, PumpEnds
  <2> QED  BY <1>2, <1>3, <2>3, <2>4, ChromeKeeps, SameRunStays DEF PumpEnds
<1>4. CASE PumpFails(k)
  <2>1. [conn[k] EXCEPT !.failed = TRUE] \in Conns
        /\ [conn[k] EXCEPT !.failed = TRUE].tab = conn[k].tab
    BY <1>1 DEF Conns
  <2>2. conn' = [conn EXCEPT ![k] = [conn[k] EXCEPT !.failed = TRUE]]
    BY <1>4 DEF PumpFails
  <2>3. ConnsKept
    BY <1>1, <2>1, <2>2, UpdateKept
  <2>4. ASSUME NEW c \in Commands PROVE run'[c] \in Goroutine /\ Stays(c)
    <3>1. run[c] \in Goroutine
      BY <1>1 DEF DriverTyped
    <3>2. run'[c] \in {run[c], [run[c] EXCEPT !.pending = FALSE, !.chan = "error"]}
      BY <1>4 DEF PumpFails
    <3> QED  BY <3>1, <3>2 DEF Goroutine, Stays
  <2>5. run' \in [Commands -> Goroutine]
    BY <1>4, <2>4 DEF PumpFails
  <2>6. DriverTyped'
    BY <1>1, <1>2, <1>4, <2>3, <2>5 DEF DriverTyped, ConnsKept, TabsKept, PumpFails
  <2> QED  BY <1>2, <1>4, <2>3, <2>4, <2>6, ChromeKeeps DEF PumpFails
<1> QED  BY <1>3, <1>4 DEF Pump

\* A step that changes neither the driver nor the records and commands.
LEMMA PathKeeps == ASSUME IInv, UNCHANGED <<driver, record, call, opener>> PROVE IInv'
<1>1. DriverTyped /\ AgentTyped /\ Targeted /\ Born /\ Recorded
  BY DEF IInv
<1>2. DriverTyped' /\ Targeted' /\ ConnsKept /\ TabsKept
  BY <1>1, SameKept DEF DriverTyped, Targeted, Goes, driver, chrome
<1>3. AgentTyped' /\ Recorded' /\ Born' /\ OpenersKept
  BY <1>1, <1>2, SameOpeners DEF AgentTyped, Recorded
<1>4. \A c \in Commands : Stays(c) /\ StaysAsked(c)
  BY SameRunStays DEF StaysAsked, driver
<1>5. \A c \in Commands : Request(c)'
  BY <1>1, <1>2, <1>3, <1>4, RequestKept DEF IInv
<1> QED  BY <1>2, <1>3, <1>5 DEF IInv

\* A step of the commands and brokers: what the commands are, and the records.
LEMMA AgentKeeps ==
  ASSUME IInv, UNCHANGED <<chrome, targets, active, opener>>,
         run' \in [Commands -> Goroutine], call' \in [Commands -> Calls],
         record' \in [Brokers -> [Sessions -> Tabs \cup {None}]], Recorded',
         \A c \in Commands : (Stays(c) /\ StaysAsked(c)) \/ Request(c)'
  PROVE  IInv'
<1>1. DriverTyped /\ AgentTyped /\ Targeted /\ Born
  BY DEF IInv
<1>2. DriverTyped' /\ AgentTyped' /\ Targeted' /\ ConnsKept /\ TabsKept
  BY <1>1, SameKept DEF DriverTyped, AgentTyped, Targeted, Goes, chrome
<1>3. Born' /\ OpenersKept
  BY <1>1, <1>2, SameOpeners
<1>4. \A c \in Commands : Request(c)'
  BY <1>1, <1>2, <1>3, RequestKept DEF IInv
<1> QED  BY <1>2, <1>3, <1>4 DEF IInv

\* A command of which the daemon works on nothing.
LEMMA NotAsked ==
  ASSUME NEW c \in Commands, run'[c].at = "idle", call'[c].at # "driver",
         call'[c].at # "none" => call'[c].method \in Methods,
         call'[c].at = "handle" => call'[c].broker # None
  PROVE  Request(c)'
BY DEF Request, Linked, Staged, Opens, Keeps, OnTab

LEMMA NoCallTyped == NoCall \in Calls
BY SessionsAssumption DEF NoCall, Calls

\* A step of one command that stays in the records as they are.
LEMMA CommandKeeps ==
  ASSUME IInv, NEW c \in Commands, UNCHANGED <<chrome, targets, active, opener, record>>,
         NEW n \in Calls, call' = [call EXCEPT ![c] = n],
         NEW r \in Goroutine, run' = [run EXCEPT ![c] = r], Request(c)'
  PROVE  IInv'
<1>1. DriverTyped /\ AgentTyped /\ Recorded
  BY DEF IInv
<1>2. Only(c)
  BY <1>1, OneGoroutine
<1>3. call' \in [Commands -> Calls] /\ \A d \in Commands \ {c} : call'[d] = call[d]
  BY <1>1 DEF AgentTyped
<1>4. \A d \in Commands : (Stays(d) /\ StaysAsked(d)) \/ Request(d)'
  BY <1>2, <1>3 DEF Only, Stays, StaysAsked
<1> QED  BY <1>1, <1>2, <1>3, <1>4, AgentKeeps DEF AgentTyped, Recorded, Only

\* The same when the daemon is left alone.
LEMMA WaitingKeeps ==
  ASSUME IInv, NEW c \in Commands, UNCHANGED <<driver, opener, record>>, run[c].at = "idle",
         NEW n \in Calls, call' = [call EXCEPT ![c] = n], n.at # "driver",
         n.at # "none" => n.method \in Methods, n.at = "handle" => n.broker # None
  PROVE  IInv'
<1>1. run[c] \in Goroutine /\ run' = [run EXCEPT ![c] = run[c]]
  BY DEF IInv, DriverTyped, driver
<1>2. call'[c] = n /\ run'[c] = run[c]
  BY DEF IInv, AgentTyped, driver
<1>3. Request(c)'
  BY <1>2, NotAsked
<1> QED  BY <1>1, <1>3, CommandKeeps DEF driver

LEMMA AskKeeps ==
  ASSUME IInv, NEW c \in Commands, Ask(c)
  PROVE  IInv'
<1>1. PICK s \in Sessions, m \in Methods, p \in {None} \cup {t \in Named : tab[t] # "unborn"} :
        call' = [call EXCEPT ![c] = [NoCall EXCEPT !.at = "cli", !.session = s, !.method = m,
                                                   !.param = p]]
  BY DEF Ask
<1> DEFINE n == [NoCall EXCEPT !.at = "cli", !.session = s, !.method = m, !.param = p]
<1>2. p \in Tabs \cup {None}
  BY NamedAssumption
<1>3. n \in Calls /\ n.at = "cli" /\ n.method \in Methods
  BY <1>2 DEF NoCall, Calls
<1>4. call' = [call EXCEPT ![c] = n]
  BY <1>1
<1> HIDE DEF n
<1> QED  BY <1>3, <1>4, WaitingKeeps DEF Ask

\* Where a command waits for the daemon, it has nothing there.
LEMMA Waiting ==
  ASSUME IInv, NEW c \in Commands, call[c].at \notin {"none", "driver"}
  PROVE  /\ run[c].at = "idle" /\ call[c].method \in Methods
         /\ call[c].at = "handle" => call[c].broker # None
BY DEF IInv, Request, Staged

LEMMA ReachesKeeps ==
  ASSUME IInv, NEW c \in Commands, call[c].at \in {"cli", "starting"}, IsBrokerAlive,
         Reaches(c), UNCHANGED <<driver, opener, record>>
  PROVE  IInv'
<1> DEFINE n == [call[c] EXCEPT !.at = "handle", !.broker = path]
<1>1. call[c] \in Calls /\ path \in Brokers /\ path # None
  BY SessionsAssumption DEF IInv, AgentTyped, IsBrokerAlive
<1>2. n \in Calls /\ n.at = "handle" /\ n.broker # None /\ n.method = call[c].method
  BY <1>1 DEF Calls
<1>3. call' = [call EXCEPT ![c] = n]
  BY DEF Reaches, IInv, AgentTyped
<1> HIDE DEF n
<1> QED  BY <1>2, <1>3, Waiting, WaitingKeeps

LEMMA OverKeeps ==
  ASSUME IInv, NEW c \in Commands, call[c].at \notin {"none", "driver"}, Over(c),
         UNCHANGED <<driver, opener, record>>
  PROVE  IInv'
<1>1. NoCall.at = "none"
  BY DEF NoCall
<1>2. call' = [call EXCEPT ![c] = NoCall]
  BY DEF Over
<1> QED  BY <1>1, <1>2, NoCallTyped, Waiting, WaitingKeeps

\* What the daemon is asked to do.
LEMMA Dispatched ==
  ASSUME NEW m \in Methods, NEW p \in Tabs \cup {None}
  PROVE  /\ Dispatch(m, p) \in Goroutine
         /\ Dispatch(m, p).at \in Stages(m)
              \cap {"new", "lookup", "take", "takeAll", "find", "list"}
         /\ Dispatch(m, p).at = "lookup" => m = "page"
         /\ m = "open" => Dispatch(m, p).at = "new"
         /\ m = "page" => Dispatch(m, p).at = "lookup"
         /\ Dispatch(m, p).method = m /\ Dispatch(m, p).param = p
<1>1. m \in {"open", "page", "close", "closeAll", "switch", "list"}
  BY StepsAre
<1> DEFINE a == CASE m = "open"   -> "new"
                  [] m = "page"   -> "lookup"
                  [] m = "close"  -> "take"
                  [] m = "closeAll" -> "takeAll"
                  [] m = "switch" -> "find"
                  [] m = "list"   -> "list"
<1>2. /\ a \in {"new", "lookup", "take", "takeAll", "find", "list"}
      /\ a = "lookup" => m = "page"
      /\ m = "open" => a = "new"
      /\ m = "page" => a = "lookup"
  BY <1>1
<1>3. a \in Stages(m)
  <2>1. CASE m = "open" BY <2>1 DEF Stages
  <2>2. CASE m = "page" BY <2>2 DEF Stages
  <2>3. CASE m = "close" BY <2>3 DEF Stages
  <2>4. CASE m = "closeAll" BY <2>4 DEF Stages
  <2>5. CASE m = "switch" BY <2>5 DEF Stages
  <2>6. CASE m = "list" BY <2>6 DEF Stages
  <2> QED  BY <1>1, <2>1, <2>2, <2>3, <2>4, <2>5, <2>6
<1>4. a \in Steps
  BY <1>3, StepsAre
<1>5. Dispatch(m, p) = [Idle EXCEPT !.at = a, !.method = m, !.param = p]
  BY DEF Dispatch
<1> HIDE DEF a
<1>6. ASSUME NEW r \in Goroutine
      PROVE  LET d == [r EXCEPT !.at = a, !.method = m, !.param = p] IN
             d \in Goroutine /\ d.at = a /\ d.method = m /\ d.param = p
  BY <1>4 DEF Goroutine
<1> QED  BY <1>2, <1>3, <1>5, <1>6, IdleTyped

LEMMA DispatchKeeps ==
  ASSUME IInv, NEW c \in Commands, UNCHANGED <<chrome, targets, active, opener, record>>,
         call[c].at \in {"cli", "handle"}, NEW p \in Tabs \cup {None},
         NEW want \in Tabs \cup {None},
         run' = [run EXCEPT ![c] = Dispatch(call[c].method, p)],
         call' = [call EXCEPT ![c].at = "driver", ![c].want = want],
         Sessional(c) => want # None /\ opener[want] = call[c].session /\ p = want
  PROVE  IInv'
<1> DEFINE m == call[c].method
           n == [call[c] EXCEPT !.at = "driver", !.want = want]
           r == Dispatch(m, p)
<1>1. call[c] \in Calls /\ m \in Methods
  BY Waiting DEF IInv, AgentTyped
<1>2. /\ n \in Calls /\ n.at = "driver" /\ n.want = want /\ n.method = m
      /\ n.session = call[c].session /\ n.param = call[c].param
  BY <1>1 DEF Calls
<1>3. call' = [call EXCEPT ![c] = n] /\ call'[c] = n
  BY DEF IInv, AgentTyped
<1>4. /\ r \in Goroutine /\ r.at \in Stages(m) /\ r.method = m /\ r.param = p
      /\ r.at \in {"new", "lookup", "take", "takeAll", "find", "list"}
      /\ m = "open" => r.at = "new"
      /\ m = "page" => r.at = "lookup"
  BY <1>1, Dispatched
<1> HIDE DEF r
<1>5. run' = [run EXCEPT ![c] = r] /\ run'[c] = r
  BY <1>4, OneGoroutine DEF IInv, r
<1> HIDE DEF n
<1>6. Linked(c)'
  BY <1>4, <1>5 DEF Linked, OnTab
<1>7. Staged(c)'
  BY <1>1, <1>2, <1>3, <1>4, <1>5 DEF Staged
<1>8. Opens(c)'
  BY <1>2, <1>3, <1>4, <1>5 DEF Opens
<1>9. Keeps(c)'
  BY <1>2, <1>3, <1>4, <1>5 DEF Keeps, Sessional, named
<1>10. Request(c)'
  BY <1>6, <1>7, <1>8, <1>9 DEF Request
<1> QED  BY <1>2, <1>3, <1>4, <1>5, <1>10, CommandKeeps

LEMMA CliKeeps ==
  ASSUME IInv, NEW c \in Commands, Cli(c)
  PROVE  IInv'
<1>1. call[c] \in Calls /\ call[c].at = "cli" /\ UNCHANGED <<chrome, targets, active, opener, record>>
  BY DEF Cli, IInv, AgentTyped, chrome
<1>2. CASE IsBrokerAlive
  BY <1>1, <1>2, ReachesKeeps DEF Cli, driver
<1>3. CASE ~IsBrokerAlive /\ named(c)
  <2> DEFINE n == [call[c] EXCEPT !.at = "starting"]
  <2>1. n \in Calls /\ n.at = "starting" /\ n.method = call[c].method
    BY <1>1 DEF Calls
  <2>2. call' = [call EXCEPT ![c] = n]
    BY <1>3 DEF Cli, GoesTo
  <2> HIDE DEF n
  <2> QED  BY <1>1, <1>3, <2>1, <2>2, Waiting, WaitingKeeps DEF Cli, driver
<1>4. CASE ~IsBrokerAlive /\ ~named(c)
  <2>1. call[c].want \in Tabs \cup {None} /\ call[c].param \in Tabs \cup {None} /\ ~Sessional(c)
    BY <1>1, <1>4 DEF Calls, Sessional
  <2>2. call' = [call EXCEPT ![c].at = "driver", ![c].want = call[c].want]
    BY <1>1, <1>4 DEF Cli, GoesTo, Calls
  <2>3. run' = [run EXCEPT ![c] = Dispatch(call[c].method, call[c].param)]
    BY <1>4 DEF Cli
  <2> QED  BY <1>1, <2>1, <2>2, <2>3, DispatchKeeps
<1> QED  BY <1>2, <1>3, <1>4

LEMMA StartingKeeps ==
  ASSUME IInv, NEW c \in Commands, Starting(c)
  PROVE  IInv'
BY ReachesKeeps, OverKeeps DEF Starting

LEMMA HandleKeeps ==
  ASSUME IInv, NEW c \in Commands, Handle(c)
  PROVE  IInv'
<1> DEFINE t == SessionTab(c)
           p == IF call[c].method = "open" THEN None
                ELSE IF call[c].param = None THEN t ELSE call[c].param
           want == IF call[c].param = None /\ call[c].method = "page" THEN t ELSE None
<1>1. call[c].at = "handle" /\ call[c].broker # None
      /\ UNCHANGED <<chrome, targets, active, opener, record>>
  BY Waiting DEF Handle
<1>2. call[c] \in Calls /\ call[c].broker \in Brokers /\ call[c].session \in Sessions
      /\ call[c].param \in Tabs \cup {None}
  BY <1>1 DEF IInv, AgentTyped, Calls
<1>3. t \in Tabs \cup {None} /\ (t # None => opener[t] = call[c].session)
  BY <1>2 DEF SessionTab, IInv, AgentTyped, Recorded
<1>4. p \in Tabs \cup {None} /\ want \in Tabs \cup {None}
  BY <1>2, <1>3
<1>5. CASE named(c) /\ t = None /\ call[c].method # "open"
  BY <1>1, <1>5, OverKeeps DEF Handle, driver
<1>6. CASE ~(named(c) /\ t = None /\ call[c].method # "open")
  <2>1. run' = [run EXCEPT ![c] = Dispatch(call[c].method, p)]
    BY <1>6 DEF Handle
  <2>2. call' = [call EXCEPT ![c].at = "driver", ![c].want = want]
    BY <1>6 DEF Handle
  <2>3. Sessional(c) => want # None /\ opener[want] = call[c].session /\ p = want
    BY <1>3, <1>6 DEF Sessional
  <2> HIDE DEF p, want
  <2> QED  BY <1>1, <1>4, <2>1, <2>2, <2>3, DispatchKeeps
<1> QED  BY <1>5, <1>6

\* The answer of the daemon, and what its broker writes down of it.
LEMMA ReplyKeeps ==
  ASSUME IInv, NEW c \in Commands, Reply(c)
  PROVE  IInv'
<1>1. DriverTyped /\ AgentTyped /\ Recorded /\ Request(c)
  BY DEF IInv
<1>2. call[c] \in Calls /\ run[c].tab \in Tabs \cup {None}
  BY <1>1 DEF AgentTyped, DriverTyped, Goroutine
<1>3. /\ run[c].at = "done" /\ UNCHANGED <<chrome, targets, active, opener>>
      /\ run' = [run EXCEPT ![c] = Idle] /\ call' = [call EXCEPT ![c] = NoCall]
  BY DEF Reply, Over
<1>4. Only(c) /\ run'[c] = Idle
  BY <1>1, <1>3, IdleTyped, OneGoroutine
<1>5. /\ call' \in [Commands -> Calls] /\ call'[c] = NoCall
      /\ \A d \in Commands \ {c} : call'[d] = call[d]
  BY <1>1, <1>3, NoCallTyped DEF AgentTyped
<1>6. Request(c)'
  BY <1>4, <1>5, NotAsked DEF NoCall, Idle
<1>7. \A d \in Commands : (Stays(d) /\ StaysAsked(d)) \/ Request(d)'
  BY <1>4, <1>5, <1>6 DEF Only, Stays, StaysAsked
<1>8. record' \in [Brokers -> [Sessions -> Tabs \cup {None}]] /\ Recorded'
  <2>1. CASE record' = record
    BY <1>1, <1>3, <2>1 DEF AgentTyped, Recorded
  <2>2. CASE /\ call[c].broker # None /\ run[c].ok
             /\ record' = [record EXCEPT ![call[c].broker][call[c].session] =
                             IF call[c].method = "open" THEN run[c].tab ELSE None]
    <3> DEFINE x == IF call[c].method = "open" THEN run[c].tab ELSE None
               b == call[c].broker
               s == call[c].session
    <3>1. b \in Brokers /\ s \in Sessions /\ x \in Tabs \cup {None}
      BY <1>2, <2>2 DEF Calls
    <3>2. x # None => opener[x] = s
      BY <1>1, <1>3, <2>2 DEF Request, Opens
    <3>3. record' = [record EXCEPT ![b][s] = x]
      BY <2>2
    <3> HIDE DEF x, b, s
    <3>4. /\ record' \in [Brokers -> [Sessions -> Tabs \cup {None}]]
          /\ \A i \in Brokers, j \in Sessions :
               record'[i][j] = IF i = b /\ j = s THEN x ELSE record[i][j]
      BY <1>1, <3>1, <3>3 DEF AgentTyped
    <3> QED  BY <1>1, <1>3, <3>2, <3>4 DEF Recorded
  <2> QED  BY <2>1, <2>2 DEF Reply, updateSessionState
<1> QED  BY <1>3, <1>4, <1>5, <1>7, <1>8, AgentKeeps DEF Only

\* A broker ends, and its commands with it.
LEMMA EndedKeeps ==
  ASSUME IInv, NEW b \in Brokers, Ended(b)
  PROVE  IInv'
<1>1. DriverTyped /\ AgentTyped /\ Recorded /\ Born
  BY DEF IInv
<1>2. UNCHANGED <<chrome, targets, active, opener, run>>
  BY DEF Ended, driver
<1>3. ASSUME NEW c \in Commands
      PROVE  call'[c] \in Calls /\ ((Stays(c) /\ StaysAsked(c)) \/ Request(c)')
  <2>1. call[c] \in Calls /\ Stays(c)
    BY <1>1, <1>2, SameRunStays DEF AgentTyped
  <2>2. CASE call[c].broker # b
    BY <2>1, <2>2 DEF Ended, StaysAsked
  <2>3. CASE call[c].broker = b /\ call[c].at = "handle"
    <3>1. call'[c] = NoCall /\ run'[c].at = "idle"
      BY <1>2, <2>3, Waiting DEF Ended
    <3> QED  BY <3>1, NoCallTyped, NotAsked DEF NoCall
  <2>4. CASE call[c].broker = b /\ call[c].at # "handle"
    <3>1. call'[c] = [call[c] EXCEPT !.broker = None]
      BY <2>4 DEF Ended
    <3> QED  BY <2>1, <2>4, <3>1 DEF Calls, StaysAsked
  <2> QED  BY <2>2, <2>3, <2>4
<1>4. call' \in [Commands -> Calls]
  BY <1>3 DEF Ended
<1>5. /\ record' \in [Brokers -> [Sessions -> Tabs \cup {None}]]
      /\ \A i \in Brokers, s \in Sessions : record'[i][s] \in {record[i][s], None}
  BY <1>1 DEF Ended, AgentTyped
<1>6. Recorded'
  BY <1>1, <1>2, <1>5, RecordedKept DEF OpenersKept, AgentTyped
<1>7. run' \in [Commands -> Goroutine]
  BY <1>1, <1>2 DEF DriverTyped
<1> QED  BY <1>2, <1>3, <1>4, <1>5, <1>6, <1>7, AgentKeeps

-----------------------------------------------------------------------------
(* The invariant.                                                          *)

LEMMA FreshIInv ==
  ASSUME Fresh, call = [c \in Commands |-> NoCall]
  PROVE  IInv
<1>1. \A c \in Commands : run[c] = Idle /\ call[c] = NoCall
  BY DEF Fresh, DriverInit
<1>2. DriverTyped
  BY <1>1, IdleTyped, TabsAssumption DEF Fresh, DriverInit, DriverTyped
<1>3. AgentTyped
  BY NoCallTyped DEF Fresh, AgentTyped
<1>4. Targeted /\ Born /\ Recorded
  BY DEF Fresh, DriverInit, Targeted, Born, Recorded
<1>5. ASSUME NEW c \in Commands PROVE Request(c)
  BY <1>1 DEF Request, Linked, Staged, Opens, Keeps, OnTab, Idle, NoCall
<1> QED  BY <1>2, <1>3, <1>4, <1>5 DEF IInv

LEMMA OpenedIInv ==
  ASSUME NEW s \in Sessions, NEW t \in Tabs, Opened(s, t), call = [c \in Commands |-> NoCall]
  PROVE  IInv
<1>1. \A c \in Commands : run[c] = Idle /\ call[c] = NoCall
  BY DEF Opened, DriverOf
<1> DEFINE k == [tab |-> t, up |-> TRUE, closed |-> FALSE, failed |-> FALSE]
<1>2. k \in Conns /\ k.tab = t
  BY DEF Conns
<1>3. conn = <<k>>
  BY DEF Opened, DriverOf
<1> HIDE DEF k
<1>4. conn \in Seq(Conns) /\ Len(conn) = 1 /\ conn[1].tab = t
  BY <1>2, <1>3
<1>5. /\ tab = [u \in Tabs |-> IF u \in First \cup {t} THEN "open" ELSE "unborn"]
      /\ targets = [u \in Tabs |-> IF u = t THEN 1 ELSE 0] /\ active = t
      /\ run = [c \in Commands |-> Idle]
      /\ opener = [x \in Tabs |-> IF x = t THEN s ELSE None]
  BY DEF Opened, DriverOf
<1>6. DriverTyped
  BY <1>4, <1>5, IdleTyped DEF DriverTyped
<1>7. /\ record \in [Brokers -> [Sessions -> Tabs \cup {None}]]
      /\ \A b \in Brokers, y \in Sessions : record[b][y] # None => record[b][y] = t /\ y = s
  BY DEF Opened
<1>8. AgentTyped
  BY <1>5, <1>7, NoCallTyped DEF AgentTyped
<1>9. Targeted /\ Born /\ Recorded
  BY <1>4, <1>5, <1>7 DEF Targeted, Goes, Born, Recorded
<1>10. ASSUME NEW c \in Commands PROVE Request(c)
  BY <1>1 DEF Request, Linked, Staged, Opens, Keeps, OnTab, Idle, NoCall
<1> QED  BY <1>6, <1>8, <1>9, <1>10 DEF IInv

LEMMA InitIInv == ASSUME Init PROVE IInv
<1>1. ASSUME NEW s \in Sessions \ {"default"}, NEW t \in Named \ First, Opened(s, t)
      PROVE  IInv
  BY <1>1, OpenedIInv, NamedAssumption DEF Init
<1> QED  BY <1>1, FreshIInv DEF Init

LEMMA NextIInv == ASSUME IInv, [Next]_vars PROVE IInv'
<1>1. CASE UNCHANGED vars
  BY <1>1, PathKeeps DEF vars, agent
<1>2. ASSUME NEW c \in Commands, Ask(c) \/ Cli(c) \/ Starting(c) \/ Handle(c) \/ Reply(c)
      PROVE  IInv'
  BY <1>2, AskKeeps, CliKeeps, StartingKeeps, HandleKeeps, ReplyKeeps
<1>3. ASSUME NEW b \in Brokers, Check(b) \/ Remove(b) \/ Bind(b) \/ Signal(b)
      PROVE  IInv'
  BY <1>3, PathKeeps DEF Check, Remove, Bind, Signal
<1>4. ASSUME NEW b \in Brokers, Exit(b) \/ Kill(b)
      PROVE  IInv'
  BY <1>4, EndedKeeps DEF Exit, Kill
<1>5. CASE Goroutines
  BY <1>5, DaemonKeeps, PumpKeeps DEF Goroutines, agent
<1>6. CASE Stop \/ StopRemoves
  BY <1>6, PathKeeps DEF Stop, StopRemoves
<1>7. CASE User
  BY <1>7, UserCloseKeeps DEF User
<1>8. CASE Chrome
  BY <1>8, AnswerKeeps DEF Chrome, agent
<1> QED  BY <1>1, <1>2, <1>3, <1>4, <1>5, <1>6, <1>7, <1>8 DEF Next

\* Types, and what holds of every request, at every moment.
THEOREM Inductive == Spec => []IInv
<1>1. Init => IInv
  BY InitIInv
<1>2. IInv /\ [Next]_vars => IInv'
  BY NextIInv
<1> QED  BY <1>1, <1>2, PTL DEF Spec

\* The tab that a broker has for a session is one that a command of the session
\* opened, the request of a command goes through a connection to the tab it is for,
\* and a command of a named session that names no tab acts on the session's own tab
\* until that tab is closed: whatever other sessions switch to, open or close, and
\* however brokers end and start (main.go:95, driver.go:318).
THEOREM SessionsStayApart == Spec => []SessionsIsolated
<1>1. IInv => SessionsIsolated
  <2> SUFFICES ASSUME IInv PROVE SessionsIsolated
    OBVIOUS
  <2>1. \A b \in Brokers, s \in Sessions : record[b][s] # None => opener[record[b][s]] = s
    BY DEF IInv, Recorded
  <2>2. ASSUME NEW c \in OnPage PROVE conn[run[c].conn].tab = run[c].tab
    BY DEF OnPage, IInv, Request, Linked, Goes
  <2>3. ASSUME NEW c \in OnPage, Sessional(c)
        PROVE  \/ run[c].tab = call[c].want /\ opener[run[c].tab] = call[c].session
               \/ call[c].want \in Tabs /\ tab[call[c].want] = "closed"
    <3>1. /\ call[c].want # None /\ opener[call[c].want] = call[c].session
          /\ run[c].tab = call[c].want \/ tab[call[c].want] = "closed"
      BY <2>3 DEF OnPage, IInv, Request, Keeps
    <3>2. call[c].want \in Tabs \cup {None}
      BY DEF OnPage, IInv, AgentTyped, Calls
    <3> QED  BY <3>1, <3>2
  <2> QED  BY <2>1, <2>2, <2>3 DEF SessionsIsolated, Sessional
<1> QED  BY <1>1, Inductive, PTL
=============================================================================
