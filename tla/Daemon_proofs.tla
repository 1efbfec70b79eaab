---------------------------- MODULE Daemon_proofs ----------------------------
(***************************************************************************)
(* The daemons take the launch lock as its own module says, so what is     *)
(* proved of the lock holds of them; and while the lock excludes them, a   *)
(* Chrome has one driver.  For any number of daemons, signals and requests.*)
(***************************************************************************)
EXTENDS Daemon, TLAPS

-----------------------------------------------------------------------------
(* The lock by itself (LaunchLock): until it lapses for the first time, it *)
(* stays with the launcher that took it.  What is true until then:         *)

\* No directory has the age at which a waiter takes it for abandoned.
NothingOld == /\ lock # None => ~lock.old
              /\ \A p \in Launchers : ~sawOld[p]

\* The process of every token that a waiter has, or can get, is there.
TokensLive ==
  /\ lock # None /\ lock.owner # None => pc[lock.owner] \notin Ended
  /\ \A p \in Launchers :
       pc[p] = "judge" /\ sawOwner[p] # None => pc[sawOwner[p]] \notin Ended

\* So nobody removes a directory that is not its own ...
NobodyBreaks == \A p \in Launchers : pc[p] \notin {"unlink", "rmdir"}

\* ... and from its mkdir to its rmdir a launcher has the directory it made,
\* with its token in it from the write to the removal.
HoldersOwn ==
  \A p \in Launchers : pc[p] \in Holding =>
    /\ lock # None
    /\ lock.maker = p
    /\ lock.owner = IF pc[p] \in {"write", "reldir"} THEN None ELSE p

Calm  == NothingOld /\ TokensLive /\ NobodyBreaks /\ HoldersOwn
IInv  == LockTypeOK /\ (~lapsed => Calm)

-----------------------------------------------------------------------------

\* The initial state satisfies the invariant.
LEMMA InitIInv == LockInit => IInv
  BY DEF LockInit, IInv, LockTypeOK, Calm, NothingOld, TokensLive, NobodyBreaks, HoldersOwn,
         Waiting, Holding, Ended, Locks

\* A directory is not the absence of one.
LEMMA DirExists ==
  ASSUME NEW o \in Launchers \cup {None}, NEW m \in Launchers, NEW b \in BOOLEAN
  PROVE  Dir(o, m, b) \in Locks /\ Dir(o, m, b) # None
<1>1. Dir(o, m, b) \in Locks
  BY DEF Dir, Locks
<1> QED
  BY <1>1, NoneAssumption

\* What the removal of a token, or of a directory, leaves behind.
LEMMA UnownedTypes ==
  ASSUME LockTypeOK
  PROVE  Unowned \in Locks \cup {None} /\ Emptied \in Locks \cup {None}
<1>1. CASE lock = None \/ lock.owner = None
  BY <1>1 DEF Unowned, Emptied, LockTypeOK
<1>2. CASE ~(lock = None \/ lock.owner = None)
  <2>1. lock.maker \in Launchers
    BY <1>2 DEF LockTypeOK, Locks
  <2> QED BY <1>2, <2>1, DirExists DEF Unowned, Emptied, LockTypeOK
<1> QED BY <1>1, <1>2

\* Every step keeps the types.
LEMMA StepTypes == LockTypeOK /\ [LockNext]_lockVars => LockTypeOK'
<1> SUFFICES ASSUME LockTypeOK, [LockNext]_lockVars PROVE LockTypeOK'
  OBVIOUS
<1> USE NoneAssumption DEF LockTypeOK, Locks, Waiting, Holding, Ended
<1>1. ASSUME NEW p \in Launchers,
             Enter(p) \/ Stat(p) \/ ReadOwner(p) \/ Judge(p) \/ Unlock(p) \/ Compare(p)
      PROVE  LockTypeOK'
  BY <1>1 DEF Enter, Stat, ReadOwner, Judge, Unlock, Compare, Goto
<1>2. ASSUME NEW p \in Launchers, Mkdir(p) \/ WriteOwner(p)
      PROVE  LockTypeOK'
  <2>1. lock' \in Locks \cup {None}
    <3>1. CASE Mkdir(p)
      BY <3>1 DEF Mkdir, Dir
    <3>2. CASE WriteOwner(p) /\ lock = None
      BY <3>2 DEF WriteOwner
    <3>3. CASE WriteOwner(p) /\ lock # None
      <4>1. lock' = Dir(p, lock.maker, lock.old /\ lock.owner # None)
        BY <3>3 DEF WriteOwner
      <4> QED
        BY <3>3, <4>1 DEF Dir
    <3> QED
      BY <1>2, <3>1, <3>2, <3>3
  <2> QED
    BY <1>2, <2>1 DEF Mkdir, WriteOwner, Goto
<1>3. ASSUME NEW p \in Launchers,
             Unlink(p) \/ Rmdir(p) \/ RemoveOwner(p) \/ RemoveDir(p)
      PROVE  LockTypeOK'
  <2>1. lock' \in Locks \cup {None}
    BY <1>3, UnownedTypes DEF Unlink, Rmdir, RemoveOwner, RemoveDir
  <2> QED
    BY <1>3, <2>1 DEF Unlink, Rmdir, RemoveOwner, RemoveDir, Goto
<1>4. ASSUME NEW p \in Launchers, Crash(p) \/ Exit(p)
      PROVE  LockTypeOK'
  <2>1. lapsed' \in BOOLEAN
    BY <1>4 DEF Crash, Exit, Ends
  <2> QED BY <1>4, <2>1 DEF Crash, Exit, Ends, Goto
<1>5. CASE Age
  <2>1. lock' \in Locks
    BY <1>5, DirExists DEF Age
  <2> QED BY <1>5, <2>1 DEF Age
<1>6. ASSUME NEW p \in Launchers, AgeSeen(p)
      PROVE  LockTypeOK'
  BY <1>6 DEF AgeSeen
<1>7. CASE UNCHANGED lockVars
  BY <1>7 DEF lockVars
<1> QED
  BY <1>1, <1>2, <1>3, <1>4, <1>5, <1>6, <1>7 DEF LockNext, Acquire, Release

\* A lock that has lapsed has lapsed for good.
LEMMA StepLapsed == [LockNext]_lockVars /\ ~lapsed' => ~lapsed
  BY DEF LockNext, Acquire, Release, Enter, Mkdir, WriteOwner, Stat, ReadOwner, Judge, Unlink,
         Rmdir, Unlock, Compare, RemoveOwner, RemoveDir, Crash, Exit, Ends, Age, AgeSeen,
         lockVars

\* A process that ends without a lapse is not the one of a token.
LEMMA EndsUnknown ==
  ASSUME LockTypeOK, ~lapsed', NEW p \in Launchers, NEW how, Ends(p, how)
  PROVE  /\ lock # None => lock.owner # p
         /\ \A q \in Launchers : pc[q] = "judge" => sawOwner[q] # p
<1>1. p \notin Tokens
  BY DEF Ends
<1> QED BY <1>1 DEF Tokens

\* Until the lock lapses no waiter takes it for stale and no launcher touches a
\* directory but its own.
LEMMA StepCalm ==
  ASSUME IInv, [LockNext]_lockVars, ~lapsed' PROVE Calm'
<1> USE NoneAssumption
    DEF IInv, LockTypeOK, Locks, Waiting, Holding, Ended, Calm,
        NothingOld, TokensLive, NobodyBreaks, HoldersOwn
<1>1. NothingOld /\ TokensLive /\ NobodyBreaks /\ HoldersOwn
  BY StepLapsed
<1>3. ASSUME NEW p \in Launchers, Enter(p)
      PROVE  Calm'
  BY <1>1, <1>3 DEF Enter, Goto
<1>4. ASSUME NEW p \in Launchers, Mkdir(p)
      PROVE  Calm'
  <2>1. lock = None /\ lock' = Dir(None, p, FALSE) /\ lock' \in Locks
    BY <1>4, DirExists DEF Mkdir
  <2>2. pc' = [pc EXCEPT ![p] = "write"] /\ pc[p] = "try" /\ UNCHANGED <<sawOld, sawOwner>>
    BY <1>4 DEF Mkdir, Goto
  <2>3. ASSUME NEW q \in Launchers, pc'[q] \in Holding PROVE q = p
    BY <1>1, <2>1, <2>2, <2>3
  <2>4. NothingOld' /\ NobodyBreaks' /\ HoldersOwn'
    BY <1>1, <2>1, <2>2, <2>3 DEF Dir
  <2>5. TokensLive'
    BY <1>1, <2>1, <2>2 DEF Dir
  <2> QED
    BY <2>4, <2>5
<1>5. ASSUME NEW p \in Launchers, WriteOwner(p)
      PROVE  Calm'
  <2>1. lock # None /\ lock.maker = p /\ ~lock.old /\ pc[p] = "write"
    BY <1>1, <1>5 DEF WriteOwner
  <2>2. lock' = Dir(p, p, FALSE) /\ lock' # None
    <3>1. lock' = Dir(p, p, FALSE)
      BY <1>5, <2>1 DEF WriteOwner
    <3>2. Dir(p, p, FALSE) # None
      BY DirExists
    <3> QED BY <3>1, <3>2
  <2>3. pc' = [pc EXCEPT ![p] = "held"] /\ UNCHANGED <<sawOld, sawOwner>>
    BY <1>5 DEF WriteOwner, Goto
  <2>4. NothingOld' /\ NobodyBreaks' /\ TokensLive'
    BY <1>1, <2>1, <2>2, <2>3 DEF Dir
  <2>5. ASSUME NEW q \in Launchers, pc'[q] \in Holding PROVE q = p
    BY <1>1, <2>1, <2>3, <2>5
  <2>6. HoldersOwn'
    BY <2>2, <2>3, <2>5 DEF Dir
  <2> QED
    BY <2>4, <2>6
<1>6. ASSUME NEW p \in Launchers, Stat(p)
      PROVE  Calm'
  <2>1. ~lock.old /\ sawOld' = [sawOld EXCEPT ![p] = lock.old]
    BY <1>1, <1>6 DEF Stat
  <2> QED
    BY <1>1, <1>6, <2>1 DEF Stat, Goto
<1>7. ASSUME NEW p \in Launchers, ReadOwner(p)
      PROVE  Calm'
  BY <1>1, <1>7 DEF ReadOwner, Goto
<1>8. ASSUME NEW p \in Launchers, Judge(p)
      PROVE  Calm'
  BY <1>1, <1>8 DEF Judge, Stale, Goto
<1>9. ASSUME NEW p \in Launchers, Unlink(p) \/ Rmdir(p)
      PROVE  FALSE
  BY <1>1, <1>9 DEF Unlink, Rmdir
<1>10. ASSUME NEW p \in Launchers, Unlock(p) \/ Compare(p)
       PROVE  Calm'
  BY <1>1, <1>10 DEF Unlock, Compare, Goto
<1>11. ASSUME NEW p \in Launchers, RemoveOwner(p)
       PROVE  Calm'
  <2>1. lock # None /\ lock.maker = p /\ lock.owner = p /\ pc[p] = "relfile"
    BY <1>1, <1>11 DEF RemoveOwner
  <2>2. lock' = Dir(None, p, FALSE) /\ lock' # None
    <3>1. lock' = Dir(None, p, FALSE)
      BY <1>11, <2>1 DEF RemoveOwner, Unowned
    <3>2. Dir(None, p, FALSE) # None
      BY DirExists
    <3> QED BY <3>1, <3>2
  <2>3. pc' = [pc EXCEPT ![p] = "reldir"] /\ UNCHANGED <<sawOld, sawOwner>>
    BY <1>11 DEF RemoveOwner, Goto
  <2>4. NothingOld' /\ NobodyBreaks' /\ TokensLive'
    BY <1>1, <2>1, <2>2, <2>3 DEF Dir
  <2>5. ASSUME NEW q \in Launchers, pc'[q] \in Holding PROVE q = p
    BY <1>1, <2>1, <2>3, <2>5
  <2>6. HoldersOwn'
    BY <2>2, <2>3, <2>5 DEF Dir
  <2> QED
    BY <2>4, <2>6
<1>12. ASSUME NEW p \in Launchers, RemoveDir(p)
       PROVE  Calm'
  BY <1>1, <1>12 DEF RemoveDir, Emptied, Goto
<1>13. ASSUME NEW p \in Launchers, NEW how \in Ended, Ends(p, how)
       PROVE  Calm'
  <2>1. /\ lock # None => lock.owner # p
        /\ \A q \in Launchers : pc[q] = "judge" => sawOwner[q] # p
    BY <1>13, EndsUnknown
  <2> QED BY <1>1, <1>13, <2>1 DEF Ends, Goto
<1>14. ASSUME Age \/ \E p \in Launchers : AgeSeen(p)
       PROVE  FALSE
  BY <1>14 DEF Age, AgeSeen
<1>15. CASE UNCHANGED lockVars
  BY <1>1, <1>15 DEF lockVars
<1> QED
  BY <1>3, <1>4, <1>5, <1>6, <1>7, <1>8, <1>9, <1>10, <1>11, <1>12, <1>13, <1>14, <1>15
     DEF LockNext, Acquire, Release, Crash, Exit

-----------------------------------------------------------------------------

\* The lock, its owner and its waiters have their types in every state.
THEOREM LockTypes == LockSpec => []LockTypeOK
<1>1. LockInit => LockTypeOK
  BY InitIInv DEF IInv
<1> QED
  BY <1>1, StepTypes, PTL DEF LockSpec

\* No waiter takes the lock from under a launcher that is alive, whatever was
\* killed before or after its launch: until a lock lapses for the first time, by
\* the age at which launcher.go:388 breaks it or by the end of its holder, the
\* launcher that took it (:367-369) finds its token in it when it releases it.
THEOREM LockKept == LockSpec => []KeptFromTheLiving
<1>1. IInv /\ [LockNext]_lockVars => IInv'
  BY StepTypes, StepCalm DEF IInv
<1>2. IInv => KeptFromTheLiving
  BY DEF IInv, Calm, HoldersOwn, KeptFromTheLiving, HolderKeepsLock, Holding
<1> QED
  BY InitIInv, <1>1, <1>2, PTL DEF LockSpec

\* So that until then two launchers never hold it together (launcher.go:348).
COROLLARY LockExcludes == LockSpec => [](~lapsed => Exclusive)
<1>1. KeptFromTheLiving => (~lapsed => Exclusive)
  BY DEF KeptFromTheLiving, HolderKeepsLock, Exclusive
<1> QED
  BY LockKept, <1>1, PTL

-----------------------------------------------------------------------------
(* The daemons.                                                            *)

\* A request does not touch the lock.
LEMMA RequestLeavesLock ==
  ASSUME NEW r \in Requests, Request(r)
  PROVE  UNCHANGED lockVars
BY DEF Request, StopStaleDaemon, Drained, Check, Status, Dial, Ready, GiveUp

\* What a daemon does to the lock is to enter, to take it, or to release it, and
\* to end.
LEMMA GoLocks ==
  ASSUME NEW d \in Launchers, Go(d)
  PROVE  Enter(d) \/ Acquire(d) \/ Unlock(d) \/ Release(d) \/ Exit(d) \/ UNCHANGED lockVars
<1>1. CASE ResolveProxyListener(d) \/ UseExtension(d) \/ Listen(d) \/ Shutdown(d)
             \/ CloseServer(d) \/ CloseChrome(d) \/ CloseProxy(d)
  BY <1>1 DEF ResolveProxyListener, UseExtension, Listen, Shutdown, CloseServer,
              CloseChrome, CloseProxy
<1>2. CASE UseChrome(d)
  BY <1>2 DEF UseChrome
<1>3. CASE Launching(d)
  BY <1>3 DEF Launching, NoLock, Adopt, KillStale, Start, StartFails, Found,
              NotFound, Record, Launched
<1>4. CASE Locking(d)
  BY <1>4 DEF Locking
<1> QED
  BY <1>1, <1>2, <1>3, <1>4 DEF Go

\* Every step of the system is a step of one launcher, or leaves the lock alone.
LEMMA DaemonStep == [Next]_vars => [LockNext]_lockVars
<1> SUFFICES ASSUME [Next]_vars
             PROVE  LockNext \/ UNCHANGED lockVars
  BY DEF lockVars
<1>1. ASSUME NEW r \in Requests, Request(r)
      PROVE  UNCHANGED lockVars
  BY <1>1, RequestLeavesLock
<1>2. ASSUME NEW d \in Launchers, Go(d)
      PROVE  LockNext \/ UNCHANGED lockVars
  BY <1>2, GoLocks DEF LockNext
<1>3. ASSUME NEW d \in Launchers, ContextKills(d) \/ Signal(d) \/ Killed(d) \/ AgingSeen(d)
      PROVE  LockNext \/ UNCHANGED lockVars
  BY <1>3 DEF ContextKills, Signal, Killed, AgingSeen, LockNext
<1>4. CASE ChromeReady \/ Aging
  BY <1>4 DEF ChromeReady, Aging, LockNext
<1>5. CASE UNCHANGED vars
  BY <1>5 DEF vars
<1> QED
  BY <1>1, <1>2, <1>3, <1>4, <1>5 DEF Next

\* The daemons implement the lock, which is there for them to launch one Chrome
\* (launcher.go:133-137).
THEOREM DaemonsUseLock == Spec => LockSpec
<1>1. Init => LockInit
  BY DEF Init
<1> QED
  BY <1>1, DaemonStep, PTL DEF Spec, LockSpec

\* Until a launch lock lapses, nobody takes it from under a daemon that holds it,
\* while it adopts, kills or starts a Chrome (launcher.go:133-206).
THEOREM DaemonKeepsLock == Spec => []KeptFromTheLiving
BY DaemonsUseLock, LockKept, PTL

\* Nor do two daemons look for a Chrome, kill it or start it at a time until
\* then: they never hold the lock together (launcher.go:137-206).
COROLLARY DaemonsExclude == Spec => [](~lapsed => Exclusive)
BY DaemonsUseLock, LockExcludes, PTL

-----------------------------------------------------------------------------
(* Who drives the Chrome.                                                  *)

\* The daemons that have not started a Chrome yet.
Before == {"none", "bind", "driver", "lock", "start"}

\* A daemon has a port from its binding to its end, and shares it with nobody;
\* its ephemeral port is nobody's until it binds.
PortsApart ==
  /\ \A d \in Launchers : proxy[d] = None <=> at[d] \in {"none", "bind", "gone", "dead"}
  /\ \A d, e \in Launchers : proxy[d] # None /\ proxy[d] = proxy[e] => d = e
  /\ \A d \in Launchers : at[d] \in {"none", "bind"}
       => portFile # d /\ \A e \in Launchers : proxy[e] # d

\* It holds the lock while it starts, awaits and records a Chrome.
StartsLocked == \A d \in Launchers : at[d] \in {"start", "await", "record"} => pc[d] = "held"

\* A request starts its daemon at most once.
StartedOnce ==
  \A r \in Requests : ask[r] \in {"idle", "drain", "check", "status", "dial"} => at[r] = "none"

Progress == StartsLocked /\ StartedOnce
Base     == TypeOK /\ PortsApart /\ Progress

\* A daemon has a browser when it has found one, ...
FoundLast ==
  \A d \in Launchers : /\ browser[d] # None => at[d] \notin Before \cup {"await"}
                       /\ \A e \in Launchers : browser[e] = d => at[d] \notin Before \cup {"await"}

\* ... the Chrome that runs is of a daemon that drives it, still awaits it, or was
\* killed, ...
StarterDrives ==
  chrome # None => /\ at[chrome.by] \notin Before \cup {"proxy", "gone"}
                   /\ at[chrome.by] \notin {"await", "dead"} => browser[chrome.by] = chrome.by

\* ... while a daemon holds the lock to start one, there is no other, ...
OnlyOwn ==
  \A d \in Launchers :
    /\ at[d] = "start" => chrome = None
    /\ at[d] \in {"await", "record"} => chrome = None \/ chrome.by = d
    /\ at[d] = "record" => \A e \in Launchers : browser[e] = d <=> e = d

\* ... and a daemon that drives it has the recorded port, or is about to record
\* its own.
RecordedPort ==
  \A d \in Drivers : at[d] = "record" \/ portFile = proxy[d]

Driving == FoundLast /\ StarterDrives /\ OnlyOwn /\ RecordedPort

\* The recorded port is the one that the Chrome was started with, from the moment that
\* its starter has recorded it; before, it is the starter's.
PortOfChrome ==
  chrome # None => chrome.port = IF at[chrome.by] \in {"await", "record"}
                                 THEN proxy[chrome.by] ELSE portFile

\* Every step of the system keeps its types: those of the lock are its own, and the
\* others are set by one action each.
LEMMA StepDaemonTypes ==
  TypeOK /\ PortsApart /\ LockTypeOK' /\ [Next]_vars => TypeOK'
<1> SUFFICES ASSUME TypeOK, PortsApart, LockTypeOK', [Next]_vars PROVE TypeOK'
  OBVIOUS
<1> USE DEF TypeOK, Step, Asking
<1>1. ASSUME NEW r \in Requests, Request(r) PROVE TypeOK'
  <2>1. CASE StopStaleDaemon(r) \/ Drained(r)
    BY <1>1, <2>1 DEF StopStaleDaemon, Drained, Live
  <2>2. CASE Check(r) \/ Status(r) \/ Ready(r) \/ GiveUp(r)
    BY <1>1, <2>2 DEF Check, Status, Ready, GiveUp
  <2>3. CASE Dial(r)
    BY <1>1, <2>3 DEF Dial, Requests
  <2> QED BY <1>1, <2>1, <2>2, <2>3 DEF Request
<1>2. ASSUME NEW d \in Launchers, Go(d) PROVE TypeOK'
  <2>1. CASE ResolveProxyListener(d) \/ CloseProxy(d)
    BY <1>2, <2>1 DEF ResolveProxyListener, CloseProxy
  <2>2. CASE UseExtension(d) \/ UseChrome(d) \/ NoLock(d) \/ StartFails(d) \/ Launched(d)
    BY <1>2, <2>2 DEF UseExtension, UseChrome, NoLock, StartFails, Launched
  <2>3. CASE Adopt(d) \/ Found(d)
    BY <1>2, <2>3 DEF Adopt, Adoptable, Found, Chromes
  <2>4. CASE KillStale(d) \/ NotFound(d) \/ CloseChrome(d)
    BY <1>2, <2>4 DEF KillStale, NotFound, CloseChrome, WithoutChromeOf
  <2>5. CASE Start(d)
    <3>1. proxy[d] \in Launchers
      BY <2>5 DEF Start, PortsApart
    <3> QED BY <1>2, <2>5, <3>1 DEF Start, Chromes
  <2>6. CASE Record(d) \/ Listen(d) \/ Shutdown(d) \/ CloseServer(d)
    BY <1>2, <2>6 DEF Record, Listen, Shutdown, CloseServer
  <2>7. CASE Locking(d)
    BY <2>7 DEF Locking, daemonVars
  <2> QED
    BY <1>2, <2>1, <2>2, <2>3, <2>4, <2>5, <2>6, <2>7 DEF Go, Launching
<1>3. ASSUME NEW d \in Launchers, ContextKills(d) \/ Signal(d) \/ Killed(d)
                           \/ AgingSeen(d)
      PROVE  TypeOK'
  BY <1>3 DEF ContextKills, Signal, Killed, AgingSeen, daemonVars
<1>4. CASE ChromeReady \/ Aging
  BY <1>4 DEF ChromeReady, Aging, daemonVars, Chromes
<1>5. CASE UNCHANGED vars
  BY <1>5 DEF vars, daemonVars
<1> QED
  BY <1>1, <1>2, <1>3, <1>4, <1>5 DEF Next

\* Ports are bound one at a time: the recorded one when nobody has it, or the
\* daemon's own, which nobody can have before it binds.
LEMMA StepPorts ==
  TypeOK /\ PortsApart /\ StartedOnce /\ [Next]_vars => PortsApart'
<1> SUFFICES ASSUME TypeOK, PortsApart, StartedOnce, [Next]_vars PROVE PortsApart'
  OBVIOUS
<1> USE NoneAssumption DEF TypeOK, PortsApart, Step, Asking
<1>1. ASSUME NEW r \in Requests, Request(r) PROVE PortsApart'
  <2>1. CASE Dial(r)
    BY <1>1, <2>1 DEF Dial, Requests, StartedOnce
  <2>2. CASE StopStaleDaemon(r) \/ Drained(r) \/ Check(r) \/ Status(r) \/ Ready(r) \/ GiveUp(r)
    BY <2>2 DEF StopStaleDaemon, Drained, Check, Status, Ready, GiveUp
  <2> QED BY <1>1, <2>1, <2>2 DEF Request
<1>2. ASSUME NEW d \in Launchers, Go(d) PROVE PortsApart'
  <2>1. CASE ResolveProxyListener(d)
    <3> DEFINE port == IF portFile # None /\ \A e \in Launchers : proxy[e] # portFile
                         THEN portFile ELSE d
    <3>1. /\ port \in Launchers /\ \A e \in Launchers : proxy[e] # port
          /\ at[d] = "bind" /\ at' = [at EXCEPT ![d] = "driver"]
          /\ proxy' = [proxy EXCEPT ![d] = port] /\ UNCHANGED portFile
      BY <2>1 DEF ResolveProxyListener
    <3>2. ASSUME NEW e \in Launchers, at'[e] \in {"none", "bind"} PROVE port # e
      BY <3>1, <3>2
    <3> HIDE DEF port
    <3> QED BY <3>1, <3>2
  <2>2. CASE Record(d)
    BY <2>2 DEF Record
  <2>3. CASE CloseProxy(d)
    BY <2>3 DEF CloseProxy
  <2>4. CASE UseExtension(d) \/ UseChrome(d) \/ NoLock(d) \/ StartFails(d) \/ Launched(d)
             \/ Adopt(d) \/ Found(d) \/ KillStale(d)
    BY <2>4 DEF UseExtension, UseChrome, NoLock, StartFails, Launched, Adopt, Found, KillStale
  <2>5. CASE NotFound(d) \/ CloseChrome(d) \/ Start(d) \/ Listen(d) \/ Shutdown(d)
             \/ CloseServer(d)
    BY <2>5 DEF NotFound, CloseChrome, Start, Listen, Shutdown, CloseServer
  <2>6. CASE Locking(d)
    BY <2>6 DEF Locking, daemonVars
  <2> QED
    BY <1>2, <2>1, <2>2, <2>3, <2>4, <2>5, <2>6 DEF Go, Launching
<1>3. ASSUME NEW d \in Launchers, ContextKills(d) \/ Signal(d) \/ AgingSeen(d) PROVE PortsApart'
  BY <1>3 DEF ContextKills, Signal, AgingSeen, daemonVars
<1>4. ASSUME NEW d \in Launchers, Killed(d) PROVE PortsApart'
  BY <1>4 DEF Killed, Running
<1>5. CASE ChromeReady \/ Aging
  BY <1>5 DEF ChromeReady, Aging, daemonVars
<1>6. CASE UNCHANGED vars
  BY <1>6 DEF vars, daemonVars
<1> QED
  BY <1>1, <1>2, <1>3, <1>4, <1>5, <1>6 DEF Next

\* A launcher that holds the lock has it until it unlocks it or is killed.
LEMMA StepLocked ==
  Progress /\ TypeOK /\ [Next]_vars => Progress'
<1> SUFFICES ASSUME Progress, TypeOK, [Next]_vars PROVE Progress'
  OBVIOUS
<1> USE DEF TypeOK, LockTypeOK, Progress, StartsLocked,
           StartedOnce, Requests, Step, Asking, lockVars
<1>1. ASSUME NEW r \in Requests, Request(r) PROVE Progress'
  <2>1. CASE Dial(r)
    BY <1>1, <2>1 DEF Dial, Requests
  <2>2. CASE StopStaleDaemon(r) \/ Drained(r) \/ Check(r) \/ Status(r) \/ Ready(r) \/ GiveUp(r)
    BY <2>2 DEF StopStaleDaemon, Drained, Check, Status, Ready, GiveUp
  <2> QED BY <1>1, <2>1, <2>2 DEF Request
<1>2. ASSUME NEW d \in Launchers, Go(d) PROVE Progress'
  <2>1. CASE Adopt(d) \/ StartFails(d) \/ NotFound(d) \/ Record(d) \/ UseChrome(d)
    BY <2>1 DEF Adopt, StartFails, NotFound, Record, UseChrome, Unlock, Enter, Goto
  <2>2. CASE NoLock(d) \/ KillStale(d) \/ Start(d) \/ Found(d) \/ Launched(d)
    BY <2>2 DEF NoLock, KillStale, Start, Found, Launched
  <2>3. CASE ResolveProxyListener(d) \/ UseExtension(d) \/ Listen(d) \/ Shutdown(d)
             \/ CloseServer(d) \/ CloseChrome(d)
    BY <2>3 DEF ResolveProxyListener, UseExtension, Listen, Shutdown, CloseServer, CloseChrome
  <2>4. CASE CloseProxy(d)
    <3>1. /\ at' = [at EXCEPT ![d] = "gone"] /\ at[d] = "proxy"
          /\ pc' = [pc EXCEPT ![d] = "gone"] /\ UNCHANGED ask
      BY <2>4 DEF CloseProxy, Exit, Ends, Goto
    <3> QED BY <3>1
  <2>5. CASE Locking(d)
    <3>1. pc[d] # "held" /\ \E next : Goto(d, next)
      <4>1. CASE Acquire(d)
        BY <4>1 DEF Acquire, Mkdir, WriteOwner, Stat, ReadOwner, Judge, Unlink, Rmdir
      <4>2. CASE Release(d)
        BY <4>2 DEF Release, Compare, RemoveOwner, RemoveDir
      <4> QED BY <2>5, <4>1, <4>2 DEF Locking
    <3>2. UNCHANGED <<at, ask>>
      BY <2>5 DEF Locking, daemonVars
    <3> QED BY <3>1, <3>2 DEF Goto
  <2> QED
    BY <1>2, <2>1, <2>2, <2>3, <2>4, <2>5 DEF Go, Launching
<1>3. ASSUME NEW d \in Launchers, ContextKills(d) \/ Signal(d) \/ Killed(d) \/ AgingSeen(d)
      PROVE  Progress'
  BY <1>3 DEF ContextKills, Signal, Killed, Running, Crash, Ends, AgingSeen, AgeSeen,
              daemonVars, Goto
<1>4. CASE ChromeReady \/ Aging
  BY <1>4 DEF ChromeReady, Aging, Age, daemonVars
<1>5. CASE UNCHANGED vars
  BY <1>5 DEF vars, daemonVars
<1> QED
  BY <1>1, <1>2, <1>3, <1>4, <1>5 DEF Next

\* The steps that leave alone who drives what, and only take a daemon on.
LEMMA DrivingStays ==
  ASSUME Base, Driving, UNCHANGED <<browser, proxy, portFile>>,
         chrome' \in {chrome, None},
         \A d \in Launchers :
           \/ at'[d] = at[d]
           \/ at[d] = "none" /\ at'[d] = "bind"
           \/ at[d] = "driver" /\ at'[d] = "lock"
           \/ at[d] = "start" /\ at'[d] = "unlock"
           \/ at[d] = "await" /\ at'[d] = "unlock" /\ chrome' = None
           \/ at[d] = "lock" /\ at'[d] \in {"proxy", "unlock"}
           \/ at[d] = "lock" /\ at'[d] = "start" /\ chrome' = None
           \/ at[d] = "unlock" /\ at'[d] = IF browser[d] = None THEN "proxy" ELSE "listen"
           \/ at[d] = "listen" /\ at'[d] \in {"serving", "server"}
           \/ at[d] = "serving" /\ at'[d] = "server"
           \/ at[d] = "server" /\ at'[d] = "chrome"
           \/ at[d] = "chrome" /\ at'[d] = "proxy" /\ (chrome' # None => chrome.by # d)
  PROVE  Driving'
<1> USE NoneAssumption, NamesAssumption DEF Base, TypeOK, Driving, Before, Chromes
<1>1. FoundLast'
  BY DEF FoundLast
<1>2. StarterDrives'
  BY DEF StarterDrives
<1>3. OnlyOwn'
  BY DEF OnlyOwn
<1>4. RecordedPort'
  BY DEF RecordedPort, Drivers, Running, FoundLast
<1> QED BY <1>1, <1>2, <1>3, <1>4

\* Every step keeps who drives what, taken by daemons of which one holds the lock.
LEMMA StepDriving ==
  Base /\ Exclusive /\ Driving /\ [Next]_vars => Driving'
<1> SUFFICES ASSUME Base, Exclusive, Driving, [Next]_vars PROVE Driving'
  OBVIOUS
<1> USE NoneAssumption, NamesAssumption
    DEF Base, TypeOK, Driving, Before, Chromes, Step
<1>1. ASSUME NEW r \in Requests, Request(r) PROVE Driving'
  <2>1. CASE Dial(r)
    BY <2>1, DrivingStays DEF Dial, Requests, Asking, Progress, StartedOnce
  <2>2. CASE StopStaleDaemon(r) \/ Drained(r) \/ Check(r) \/ Status(r) \/ Ready(r) \/ GiveUp(r)
    BY <2>2, DrivingStays DEF StopStaleDaemon, Drained, Check, Status, Ready, GiveUp
  <2> QED BY <1>1, <2>1, <2>2 DEF Request
<1>2. ASSUME NEW d \in Launchers, Go(d) PROVE Driving'
  <2>1. CASE ResolveProxyListener(d)
    <3>1. \A e \in Launchers : e # d => proxy'[e] = proxy[e]
      BY <2>1 DEF ResolveProxyListener
    <3>2. browser[d] = None /\ at[d] = "bind" /\ at'[d] = "driver"
          /\ UNCHANGED <<browser, chrome, portFile>>
          /\ \A e \in Launchers : e # d => at'[e] = at[e]
      BY <2>1 DEF ResolveProxyListener, FoundLast
    <3>3. FoundLast' /\ StarterDrives' /\ OnlyOwn'
      BY <3>2 DEF FoundLast, StarterDrives, OnlyOwn
    <3>4. RecordedPort'
      BY <3>1, <3>2 DEF RecordedPort, Drivers, Running, StarterDrives
    <3> QED BY <3>3, <3>4
  <2>2. CASE UseExtension(d)
    <3>1. FoundLast' /\ StarterDrives' /\ OnlyOwn'
      BY <2>2 DEF UseExtension, FoundLast, StarterDrives, OnlyOwn
    <3>2. RecordedPort'
      BY <2>2 DEF UseExtension, RecordedPort, Drivers, Running, StarterDrives
    <3> QED BY <3>1, <3>2
  <2>3. CASE UseChrome(d) \/ NoLock(d) \/ StartFails(d) \/ Launched(d) \/ KillStale(d)
             \/ Shutdown(d) \/ CloseServer(d) \/ Listen(d)
    BY <2>3, DrivingStays
    DEF UseChrome, NoLock, StartFails, Launched, KillStale, Shutdown, CloseServer, Listen
  <2>4. CASE NotFound(d) \/ CloseChrome(d)
    BY <2>4, DrivingStays
    DEF NotFound, CloseChrome, WithoutChromeOf, OnlyOwn, StarterDrives
  <2>5. CASE Locking(d)
    BY <2>5, DrivingStays DEF Locking, daemonVars
  <2>6. CASE Adopt(d)
    <3>1. /\ chrome # None /\ portFile = proxy[d] /\ at[d] = "lock" /\ pc[d] = "held"
          /\ browser' = [browser EXCEPT ![d] = chrome.by]
          /\ at' = [at EXCEPT ![d] = "unlock"] /\ UNCHANGED <<proxy, chrome, portFile>>
      BY <2>6 DEF Adopt, Adoptable
    <3>2. \A e \in Launchers : at[e] \notin {"start", "await", "record"}
      BY <3>1 DEF Exclusive, Progress, StartsLocked
    <3>3. FoundLast'
      BY <3>1, <3>2 DEF FoundLast, StarterDrives
    <3>4. StarterDrives' /\ OnlyOwn'
      BY <3>1, <3>2 DEF StarterDrives, OnlyOwn
    <3>5. RecordedPort'
      BY <3>1, <3>2 DEF RecordedPort, Drivers, Running
    <3> QED BY <3>3, <3>4, <3>5
  <2>7. CASE Start(d)
    <3>1. /\ chrome = None /\ at[d] = "start" /\ at' = [at EXCEPT ![d] = "await"]
          /\ chrome' = [by |-> d, port |-> proxy[d], ready |-> FALSE]
          /\ UNCHANGED <<browser, proxy, portFile>>
      BY <2>7 DEF Start, OnlyOwn
    <3>2. \A e \in Launchers : at[e] \in {"start", "await", "record"} => e = d
      BY <3>1 DEF Exclusive, Progress, StartsLocked
    <3>3. FoundLast' /\ StarterDrives' /\ OnlyOwn'
      BY <3>1, <3>2 DEF FoundLast, StarterDrives, OnlyOwn
    <3>4. \A e \in Launchers : browser[e] # d
      BY <3>1 DEF FoundLast
    <3>5. RecordedPort'
      BY <3>1, <3>4 DEF RecordedPort, Drivers, Running
    <3> QED BY <3>3, <3>5
  <2>8. CASE Found(d)
    <3>1. /\ chrome # None /\ chrome.by = d /\ at[d] = "await"
          /\ at' = [at EXCEPT ![d] = "record"]
          /\ browser' = [browser EXCEPT ![d] = d] /\ UNCHANGED <<proxy, chrome, portFile>>
      BY <2>8 DEF Found, OnlyOwn
    <3>2. \A e \in Launchers : browser[e] # d
      BY <3>1 DEF FoundLast
    <3>3. FoundLast' /\ StarterDrives' /\ OnlyOwn'
      BY <3>1, <3>2 DEF FoundLast, StarterDrives, OnlyOwn
    <3>4. RecordedPort'
      BY <3>1, <3>2 DEF RecordedPort, Drivers, Running
    <3> QED BY <3>3, <3>4
  <2>9. CASE Record(d)
    <3>1. /\ at[d] = "record" /\ at' = [at EXCEPT ![d] = "unlock"]
          /\ portFile' = proxy[d] /\ UNCHANGED <<browser, proxy, chrome>>
      BY <2>9 DEF Record
    <3>2. FoundLast' /\ StarterDrives' /\ OnlyOwn'
      BY <3>1 DEF FoundLast, StarterDrives, OnlyOwn
    <3>3. Drivers' \subseteq {d}
      BY <3>1 DEF OnlyOwn, Drivers, Running
    <3> QED BY <3>1, <3>2, <3>3 DEF RecordedPort
  <2>10. CASE CloseProxy(d)
    <3>1. FoundLast' /\ StarterDrives' /\ OnlyOwn'
      BY <2>10 DEF CloseProxy, FoundLast, StarterDrives, OnlyOwn
    <3>2. RecordedPort'
      BY <2>10 DEF CloseProxy, RecordedPort, Drivers, Running, StarterDrives
    <3> QED BY <3>1, <3>2
  <2> QED
    BY <1>2, <2>1, <2>2, <2>3, <2>4, <2>5, <2>6, <2>7, <2>8, <2>9, <2>10 DEF Go, Launching
<1>3. ASSUME NEW d \in Launchers, ContextKills(d) \/ Signal(d) \/ AgingSeen(d) PROVE Driving'
  BY <1>3, DrivingStays DEF ContextKills, Signal, AgingSeen, daemonVars
<1>4. ASSUME NEW d \in Launchers, Killed(d) PROVE Driving'
  <2>1. FoundLast' /\ StarterDrives' /\ OnlyOwn'
    BY <1>4 DEF Killed, FoundLast, StarterDrives, OnlyOwn
  <2>2. RecordedPort'
    BY <1>4 DEF Killed, RecordedPort, Drivers, Running
  <2> QED BY <2>1, <2>2
<1>5. CASE ChromeReady
  <2>1. chrome # None /\ chrome'.by = chrome.by /\ chrome'.port = chrome.port /\ chrome' # None
        /\ UNCHANGED <<at, browser, proxy, portFile>>
    BY <1>5 DEF ChromeReady
  <2> QED
    BY <2>1
    DEF FoundLast, StarterDrives, OnlyOwn, RecordedPort, Drivers, Running
<1>6. CASE Aging
  BY <1>6, DrivingStays DEF Aging, daemonVars
<1>7. CASE UNCHANGED vars
  BY <1>7, DrivingStays DEF vars, daemonVars
<1> QED
  BY <1>1, <1>2, <1>3, <1>4, <1>5, <1>6, <1>7 DEF Next

\* Every step keeps the port of the Chrome, unless a daemon is killed that holds the lock.
LEMMA StepPort ==
  ASSUME Base, Driving, PortOfChrome, HolderKeepsLock, ~lapsed', [Next]_vars
  PROVE  PortOfChrome'
<1> USE NoneAssumption, NamesAssumption
    DEF Base, TypeOK, Driving, Before, Chromes, Step, PortOfChrome, StarterDrives
<1>1. ASSUME NEW r \in Requests, Request(r) PROVE PortOfChrome'
  <2>1. UNCHANGED <<proxy, chrome, portFile>>
        /\ \A d \in Launchers : at'[d] = at[d] \/ (at[d] = "none" /\ at'[d] = "bind")
    BY <1>1 DEF Request, StopStaleDaemon, Drained, Check, Status, Dial, Ready, GiveUp,
                Requests, Asking, Progress, StartedOnce
  <2> QED BY <2>1
<1>2. ASSUME NEW d \in Launchers, Go(d) PROVE PortOfChrome'
  <2>1. CASE ResolveProxyListener(d) \/ CloseProxy(d)
    BY <2>1 DEF ResolveProxyListener, CloseProxy
  <2>2. CASE UseExtension(d) \/ UseChrome(d) \/ NoLock(d) \/ StartFails(d) \/ Launched(d)
             \/ Adopt(d) \/ KillStale(d) \/ Shutdown(d) \/ CloseServer(d) \/ Listen(d)
    BY <2>2
    DEF UseExtension, UseChrome, NoLock, StartFails, Launched, Adopt, KillStale, Shutdown,
        CloseServer, Listen
  <2>3. CASE NotFound(d) \/ CloseChrome(d)
    BY <2>3 DEF NotFound, CloseChrome, WithoutChromeOf, OnlyOwn
  <2>4. CASE Locking(d)
    BY <2>4 DEF Locking, daemonVars
  <2>5. CASE Start(d)
    BY <2>5 DEF Start, OnlyOwn
  <2>6. CASE Found(d)
    BY <2>6 DEF Found, OnlyOwn
  <2>7. CASE Record(d)
    BY <2>7 DEF Record, OnlyOwn
  <2> QED
    BY <1>2, <2>1, <2>2, <2>3, <2>4, <2>5, <2>6, <2>7 DEF Go, Launching
<1>3. ASSUME NEW d \in Launchers, ContextKills(d) \/ Signal(d) \/ AgingSeen(d)
      PROVE  PortOfChrome'
  BY <1>3 DEF ContextKills, Signal, AgingSeen, daemonVars
<1>4. ASSUME NEW d \in Launchers, Killed(d) PROVE PortOfChrome'
  <2>1. at[d] \notin {"await", "record"}
    <3> SUFFICES ASSUME at[d] \in {"await", "record"} PROVE FALSE
      OBVIOUS
    <3>1. lock # None /\ lock.owner = d
      BY DEF Progress, StartsLocked, HolderKeepsLock
    <3>2. Ends(d, "dead")
      BY <1>4 DEF Killed, Crash
    <3> QED BY <3>1, <3>2, EndsUnknown
  <2>2. at' = [at EXCEPT ![d] = "dead"] /\ proxy' = [proxy EXCEPT ![d] = None]
        /\ UNCHANGED <<chrome, portFile>>
    BY <1>4 DEF Killed
  <2> QED BY <2>1, <2>2
<1>5. CASE ChromeReady
  <2>1. chrome # None /\ chrome'.by = chrome.by /\ chrome'.port = chrome.port
        /\ UNCHANGED <<at, proxy, portFile>>
    BY <1>5 DEF ChromeReady
  <2> QED BY <2>1
<1>6. CASE Aging \/ UNCHANGED vars
  BY <1>6 DEF Aging, vars, daemonVars
<1> QED
  BY <1>1, <1>2, <1>3, <1>4, <1>5, <1>6 DEF Next

\* Under this invariant a Chrome has one driver: two that have the recorded port are
\* the same, and one that is about to record its port has started the Chrome itself.
LEMMA DrivingSuffices ==
  ASSUME Base, Driving
  PROVE  OneDriver /\ (PortOfChrome => OwnProxy)
<1> USE NoneAssumption, NamesAssumption
    DEF Base, TypeOK, Driving, Before, Chromes, Drivers, Running
<1>1. ASSUME NEW d \in Drivers, NEW e \in Drivers PROVE d = e
  <2>1. proxy[d] # None /\ proxy[e] # None
    BY DEF PortsApart, FoundLast
  <2>2. CASE at[d] # "record" /\ at[e] # "record"
    BY <2>1, <2>2 DEF RecordedPort, PortsApart
  <2>3. CASE at[d] = "record" \/ at[e] = "record"
    BY <2>3 DEF OnlyOwn
  <2> QED BY <2>2, <2>3
<1>2. chrome # None => at[chrome.by] # "gone"
  BY DEF StarterDrives
<1>3. ASSUME PortOfChrome, NEW d \in Drivers PROVE chrome.port = proxy[d]
  <2>1. CASE at[d] = "record"
    BY <1>3, <2>1 DEF OnlyOwn, PortOfChrome
  <2>2. CASE at[d] # "record"
    <3>1. at[chrome.by] \notin {"await", "record"}
      BY <2>2 DEF FoundLast, OnlyOwn
    <3> QED BY <1>3, <2>2, <3>1 DEF RecordedPort, PortOfChrome
  <2> QED BY <2>1, <2>2
<1> QED BY <1>1, <1>2, <1>3 DEF OneDriver, OwnProxy

-----------------------------------------------------------------------------

\* Nothing runs at first, or a daemon of an older version with its own Chrome.
LEMMA InitDaemon == Init => Base /\ Driving
<1> SUFFICES ASSUME Init PROVE Base /\ Driving
  OBVIOUS
<1> USE NoneAssumption, NamesAssumption, OldAssumption DEF Init, Requests
<1>1. LockTypeOK
  BY DEF LockInit, LockTypeOK, Waiting, Holding
<1>2. CASE /\ at = [d \in Launchers |-> IF d \in Old THEN "gone" ELSE "none"]
           /\ proxy = [d \in Launchers |-> None] /\ browser = [d \in Launchers |-> None]
           /\ chrome = None /\ portFile = None /\ rpc = None
  <2>1. Base
    BY <1>1, <1>2 DEF Base, TypeOK, PortsApart, Progress, StartsLocked, StartedOnce
  <2>2. Driving
    BY <1>2
    DEF Driving, FoundLast, StarterDrives, OnlyOwn, RecordedPort, Drivers, Before
  <2> QED BY <2>1, <2>2
<1>3. ASSUME NEW o \in Old,
             at = [d \in Launchers |-> IF d = o THEN "serving" ELSE
                                       IF d \in Old THEN "gone" ELSE "none"],
             proxy = [d \in Launchers |-> IF d = o THEN o ELSE None],
             browser = [d \in Launchers |-> IF d = o THEN o ELSE None],
             chrome = [by |-> o, port |-> o, ready |-> TRUE],
             portFile = o, rpc = o
      PROVE  Base /\ Driving
  <2>1. TypeOK
    BY <1>1, <1>3 DEF TypeOK, Chromes
  <2>2. PortsApart /\ Progress
    BY <1>3 DEF PortsApart, Progress, StartsLocked, StartedOnce
  <2>3. Driving
    BY <1>3
    DEF Driving, FoundLast, StarterDrives, OnlyOwn, RecordedPort, Drivers, Running,
        Before
  <2> QED BY <2>1, <2>2, <2>3 DEF Base
<1> QED BY <1>2, <1>3

\* Every step of the system is a typed step of the lock and keeps the base.
LEMMA BaseInvariant == Spec => []Base
<1>1. Base /\ LockTypeOK' /\ [Next]_vars => Base'
  BY StepDaemonTypes, StepPorts, StepLocked DEF Base, Progress
<1> QED
  BY InitDaemon, <1>1, DaemonsUseLock, LockTypes, PTL DEF Spec

\* The variables of the daemons keep their types: a Chrome is started with a port that
\* is bound, and no daemon binds twice (main.go:90-140, proxy.go:47-60).
THEOREM DaemonTypes == Spec => []TypeOK
BY BaseInvariant, PTL DEF Base

\* Whoever is killed and however long launches take: as long as the lock does what it
\* is for, and no two daemons hold it together, a Chrome has one driver and ends with
\* the daemon that started it (launcher.go:133-206).
THEOREM LockGivesOneDriver == Spec /\ []Exclusive => []OneDriver
<1>1. Base /\ Exclusive /\ Driving /\ [Next]_vars => Driving'
  BY StepDriving
<1>2. Base /\ Driving => OneDriver
  BY DrivingSuffices
<1> QED
  BY InitDaemon, BaseInvariant, <1>1, <1>2, PTL DEF Spec

\* Until a launch lock lapses, a Chrome is driven by one daemon, with the proxy that this
\* daemon has bound, and ends with it unless it was killed - even a Chrome that was
\* taken over from a killed daemon (launcher.go:139-140).
THEOREM OneDriverPerChrome == Spec => []ChromeIsDriven
<1> DEFINE Inv == ~lapsed => Driving /\ PortOfChrome
<1>1. Init => Inv
  <2>1. Init => PortOfChrome
    BY NoneAssumption, OldAssumption DEF Init, PortOfChrome
  <2> QED BY <2>1, InitDaemon
<1>2. Base /\ KeptFromTheLiving /\ (~lapsed => Exclusive) /\ Inv /\ [Next]_vars => Inv'
  <2> SUFFICES ASSUME Base, KeptFromTheLiving, ~lapsed => Exclusive, Inv, [Next]_vars, ~lapsed'
               PROVE  Driving' /\ PortOfChrome'
    OBVIOUS
  <2>1. ~lapsed
    BY DaemonStep, StepLapsed
  <2> QED BY <2>1, StepDriving, StepPort DEF KeptFromTheLiving
<1>3. Base /\ Inv => ChromeIsDriven
  BY DrivingSuffices DEF ChromeIsDriven
<1> QED
  BY <1>1, <1>2, <1>3, BaseInvariant, DaemonKeepsLock, DaemonsExclude, PTL DEF Spec
=============================================================================
