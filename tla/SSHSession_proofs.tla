------------------------- MODULE SSHSession_proofs -------------------------
(***************************************************************************)
(* Proofs about SSHSession, for any number of Connects, hosts and probes.  *)
(*                                                                         *)
(* The inductive invariant IInv says how the goroutines queue up behind    *)
(* each other (Queue), what of a finished attempt may still be there       *)
(* (Children), and how the published status is tied to the latest session  *)
(* and to the two ways it can be called off (Shown).                       *)
(***************************************************************************)
EXTENDS SSHSession, TLAPS

\* A session past its wait has only finished sessions before it; the sessions
\* not yet asked for are idle.
Queue ==
  /\ \A s, t \in Sessions :
       t < s /\ pc[s] \notin {"idle", "wait"} => pc[t] = "done"
  /\ \A s \in Sessions : pc[s] = "idle" <=> s > latest

\* A child exists inside run and only there, and so does a count of failed probes,
\* which stays below its limit while the session serves.
Children ==
  \A s \in Sessions :
    /\ child[s] # "none" <=> pc[s] \in ChildPcs
    /\ failures[s] # 0 => pc[s] \in {"serving", "ending"}
    /\ pc[s] = "serving" => failures[s] < ProbeFailureLimit

\* The status speaks of the latest session or of none.  A session that is
\* still shown can have been cancelled by the end of the native host alone;
\* one that is shown as disconnected was cancelled, or has returned.
Shown ==
  /\ status.sid \in {0, latest}
  /\ status.state # "disconnected" =>
       /\ latest # 0 /\ status.sid = latest
       /\ cancelled[latest] => hostDone
  /\ status.state = "disconnected" => status.sid = 0 \/ cancelled[latest]
  /\ closed => status.state = "disconnected"

\* Close has returned only after the latest session.
Returned == closeDone => closed /\ (latest # 0 => pc[latest] = "done")

IInv ==
  /\ TypeOK
  /\ Queue
  /\ Children
  /\ Shown
  /\ Returned
  /\ ConnectedIsCurrent
  /\ NoSignInAfterAuthentication
  /\ ActiveHostFollows

-----------------------------------------------------------------------------

LEMMA InitIInv == Init => IInv
<1> SUFFICES ASSUME Init PROVE IInv
  OBVIOUS
<1>1. 0 \in 0..MaxSessions
  BY SessionAssumption
<1>2. status \in Status
  BY <1>1, Zenon DEF Init, Status, States, Links
<1>3. TypeOK
  <2>1. /\ pc \in [Sessions -> Pcs]
        /\ result \in [Sessions -> Results]
        /\ stdout \in [Sessions -> Lines]
        /\ orphan \in [Sessions -> Lines]
        /\ failures \in [Sessions -> 0..ProbeFailureLimit]
    BY ProbeAssumption DEF Init, Lines, Results, Pcs
  <2> QED BY <1>1, <1>2, <2>1 DEF Init, TypeOK
<1>4. Queue /\ Children /\ Returned
  BY SessionAssumption, ProbeAssumption
  DEF Init, Queue, Children, Returned, Sessions, ChildPcs
<1>5. Shown /\ ConnectedIsCurrent /\ NoSignInAfterAuthentication
        /\ ActiveHostFollows
  BY DEF Init, Shown, ConnectedIsCurrent, NoSignInAfterAuthentication,
         ActiveHostFollows
<1> QED BY <1>3, <1>4, <1>5 DEF IInv

-----------------------------------------------------------------------------
(* Types.  A step that changes the status keeps its type by first-order    *)
(* reasoning about records; the rest is a matter of functions and ranges.  *)

LEMMA StepTypes == TypeOK /\ Children /\ [Next]_vars => TypeOK'
<1> SUFFICES ASSUME TypeOK, Children, [Next]_vars PROVE TypeOK'
  OBVIOUS
<1>0. /\ 0 \in 0..MaxSessions
      /\ {"disconnected", "connecting", "connected"} \subseteq States
      /\ {"none", "live", "dead"} \subseteq Links
      /\ FALSE \in BOOLEAN /\ TRUE \in BOOLEAN
      /\ status \in Status
  BY SessionAssumption DEF States, Links, TypeOK
<1> USE SessionAssumption, HostAssumption, ProbeAssumption
    DEF Lines, Results, Pcs, ChildPcs, shared, calls, local
<1>1. ASSUME NEW h \in Hosts, ConnectAgain(h) PROVE TypeOK'
  BY <1>1 DEF ConnectAgain, TypeOK
<1>2. ASSUME NEW h \in Hosts, ConnectNew(h) PROVE TypeOK'
  <2>1. latest + 1 \in 0..MaxSessions
    BY <1>2 DEF ConnectNew, TypeOK
  <2>2. status' \in Status
    BY <1>0, <1>2, <2>1, Zenon DEF ConnectNew, Status
  <2>3. cancelled' \in [Sessions -> BOOLEAN]
    BY <1>2 DEF ConnectNew, CancelLatest, TypeOK
  <2>4. pc' \in [Sessions -> Pcs]
    BY <1>2 DEF ConnectNew, TypeOK
  <2> QED BY <1>2, <2>1, <2>2, <2>3, <2>4 DEF ConnectNew, TypeOK
<1>3. CASE Disconnect
  <2>1. status' \in Status
    BY <1>0, <1>3, Zenon DEF Disconnect, Status
  <2> QED BY <1>3, <2>1 DEF Disconnect, CancelLatest, ForgetHost, TypeOK
<1>4. CASE Close
  <2>1. status' \in Status
    BY <1>0, <1>4, Zenon DEF Close, Status
  <2> QED BY <1>4, <2>1 DEF Close, CancelLatest, ForgetHost, TypeOK
<1>5. CASE CloseReturn
  BY <1>5 DEF CloseReturn, TypeOK
<1>12. CASE HostSignal
  <2>1. cancelled' \in [Sessions -> BOOLEAN]
    BY <1>12 DEF HostSignal, TypeOK
  <2> QED BY <1>12, <2>1 DEF HostSignal, TypeOK
<1>6. ASSUME NEW s \in Sessions, Goroutine(s) PROVE TypeOK'
  <2>1. CASE WaitPrevious(s)
    BY <2>1 DEF WaitPrevious, TypeOK
  <2>9. CASE Enter(s)
    BY <2>9 DEF Enter, TypeOK
  <2>5. CASE Loop(s)
    <3>1. CASE cancelled[s]
      <4>1. Finish(s) /\ UNCHANGED <<shared, calls, wake, child, timer,
                                     failures, stdout, orphan>>
        BY <2>5, <3>1 DEF Loop
      <4> QED BY <4>1 DEF Finish, TypeOK
    <3>2. CASE ~cancelled[s]
      BY <2>5, <3>2 DEF Loop, TypeOK
    <3> QED BY <3>1, <3>2
  <2>2. CASE ResultIgnored(s)
    BY <2>2 DEF ResultIgnored, Finish, TypeOK
  <2>10. CASE BackoffCancelled(s)
    BY <2>10 DEF BackoffCancelled, Finish, TypeOK
  <2>6. CASE BackoffOver(s)
    BY <2>6 DEF BackoffOver, TypeOK
  <2>3. CASE ResultStops(s)
    <3>1. (status.error \/ result[s] # "nil") \in BOOLEAN
            /\ (result[s] = "signin") \in BOOLEAN
      OBVIOUS
    <3>2. status' \in Status
      BY <1>0, <2>3, <3>1, Zenon DEF ResultStops, Status
    <3> QED BY <2>3, <3>2 DEF ResultStops, Finish, ForgetHost, TypeOK
  <2>4. CASE ResultRetries(s)
    <3>1. (status.error \/ result[s] # "nil") \in BOOLEAN
      OBVIOUS
    <3>2. status' \in Status
      BY <1>0, <2>4, <3>1, Zenon DEF ResultRetries, Status
    <3> QED BY <2>4, <3>2 DEF ResultRetries, TypeOK
  <2> QED BY <1>6, <2>1, <2>2, <2>3, <2>4, <2>5, <2>6, <2>9, <2>10 DEF Goroutine
<1>7. ASSUME NEW s \in Sessions, Attempt(s) PROVE TypeOK'
  <2>1. CASE SetupFails(s) \/ StartChild(s) \/ Ready(s) \/ NotReady(s)
    BY <2>1 DEF SetupFails, StartChild, Ready, NotReady, Return, TypeOK
  <2>2. CASE completeSignIn(s)
    <3>1. status' \in Status
      BY <1>0, <2>2, Zenon DEF completeSignIn, Status
    <3> QED BY <2>2, <3>1 DEF completeSignIn, TypeOK
  <2>3. CASE Forward(s) \/ ForwardFails(s) \/ PublishRefused(s)
               \/ ServingEnds(s)
    BY <2>3
    DEF Forward, ForwardFails, PublishRefused, ServingEnds, Return, TypeOK
  <2>4. CASE Publish(s)
    <3>1. status' \in Status
      BY <1>0, <2>4, Zenon DEF Publish, Status
    <3>2. status.host \in Hosts \cup {NoHost}
      BY <1>0, Zenon DEF Status
    <3> QED BY <2>4, <3>1, <3>2 DEF Publish, TypeOK, Sessions
  <2>5. CASE Reap(s)
    BY <2>5 DEF Reap, TypeOK
  <2> QED BY <1>7, <2>1, <2>2, <2>3, <2>4, <2>5 DEF Attempt
<1>8. ASSUME NEW s \in Sessions, Probe(s) PROVE TypeOK'
  BY <1>8 DEF Probe, ProbeOK, ProbeFails, Return, Children, TypeOK
<1>9. ASSUME NEW s \in Sessions, Readers(s) PROVE TypeOK'
  <2>1. CASE TakeSignIn(s) \/ StdoutLine(s)
    BY <2>1 DEF TakeSignIn, StdoutLine, TypeOK
  <2>2. ASSUME NEW tag \in Links, setSignInURL(s, tag)
        PROVE  status' \in Status
                 /\ timer' \in [Sessions -> {"setup", "signalled", "signin"}]
    <3>1. status' \in Status
      BY <1>0, <2>2, Zenon DEF setSignInURL, Status
    <3> QED BY <2>2, <3>1 DEF setSignInURL, Signal, TypeOK
  <2>3. ASSUME NEW signals \in BOOLEAN, setAuthWait(s, signals)
        PROVE  status' \in Status
                 /\ timer' \in [Sessions -> {"setup", "signalled", "signin"}]
    <3>1. status' \in Status
      BY <1>0, <2>3, Zenon DEF setAuthWait, Status
    <3> QED BY <2>3, <3>1 DEF setAuthWait, Signal, TypeOK
  <2>4. CASE StderrLine(s) \/ StdoutNote(s) \/ OrphanNote(s)
    <3>1. status' \in Status
            /\ timer' \in [Sessions -> {"setup", "signalled", "signin"}]
      BY <1>0, <2>2, <2>3, <2>4 DEF StderrLine, StdoutNote, OrphanNote
    <3>2. /\ stdout' \in [Sessions -> Lines]
          /\ orphan' \in [Sessions -> Lines]
      BY <2>4 DEF StderrLine, StdoutNote, OrphanNote, TypeOK
    <3>3. UNCHANGED <<signedIn, upstream, controlPath, activeHost, calls, pc,
                      cancelled, wake, ever, result, child, failures>>
      BY <2>4 DEF StderrLine, StdoutNote, OrphanNote
    <3> QED BY <3>1, <3>2, <3>3 DEF TypeOK
  <2> QED BY <1>9, <2>1, <2>4 DEF Readers
<1>10. ASSUME NEW s \in Sessions, ChildExits(s) PROVE TypeOK'
  BY <1>10 DEF ChildExits, TypeOK
<1>11. CASE UNCHANGED vars
  BY <1>11 DEF vars, TypeOK
<1> QED
  BY <1>1, <1>2, <1>3, <1>4, <1>5, <1>6, <1>7, <1>8, <1>9, <1>10, <1>11,
     <1>12
  DEF Next, Requests

-----------------------------------------------------------------------------
(* The queue of goroutines and what an attempt may leave behind.           *)

LEMMA StepQueue == TypeOK /\ Queue /\ [Next]_vars => Queue'
<1> SUFFICES ASSUME TypeOK, Queue, [Next]_vars PROVE Queue'
  OBVIOUS
<1> USE SessionAssumption DEF TypeOK, Queue, Sessions, calls, local
<1>1. ASSUME NEW h \in Hosts, ConnectNew(h) PROVE Queue'
  BY <1>1 DEF ConnectNew
<1>2. ASSUME NEW s \in Sessions, WaitPrevious(s) PROVE Queue'
  <2>1. pc[s] = "wait" /\ pc' = [pc EXCEPT ![s] = "loop"] /\ latest' = latest
    BY <1>2 DEF WaitPrevious
  <2>2. ASSUME NEW t \in Sessions, t < s PROVE pc[t] = "done"
    <3>1. s - 1 \in Sessions /\ pc[s - 1] = "done"
      BY <1>2, <2>2 DEF WaitPrevious
    <3>2. t = s - 1 \/ t < s - 1
      BY <2>2
    <3> QED BY <3>1, <3>2
  <2> QED BY <2>1, <2>2
<1>3. ASSUME NEW s \in Sessions, pc[s] \notin {"idle", "wait", "done"},
             NEW next, next \notin {"idle", "wait"},
             pc' = [pc EXCEPT ![s] = next], latest' = latest
      PROVE  Queue'
  BY <1>3
<1>4. CASE UNCHANGED <<pc, latest>>
  BY <1>4
<1>5. ASSUME NEW s \in Sessions, Goroutine(s) PROVE Queue'
  <2>1. CASE WaitPrevious(s)
    BY <1>2, <2>1
  <2>2. CASE Loop(s) \/ Enter(s)
    <3>1. /\ pc[s] \in {"loop", "enter"} /\ latest' = latest
          /\ \E next \in {"done", "enter", "setup"} :
               pc' = [pc EXCEPT ![s] = next]
      BY <2>2 DEF Loop, Enter, Finish
    <3> QED BY <1>3, <3>1
  <2>3. CASE ResultIgnored(s) \/ ResultStops(s) \/ ResultRetries(s)
    BY <1>3, <2>3 DEF ResultIgnored, ResultStops, ResultRetries, Finish
  <2>4. CASE BackoffCancelled(s) \/ BackoffOver(s)
    BY <1>3, <2>4 DEF BackoffCancelled, BackoffOver, Finish
  <2> QED BY <1>5, <2>1, <2>2, <2>3, <2>4 DEF Goroutine
<1>6. ASSUME NEW s \in Sessions, Attempt(s) PROVE Queue'
  <2>1. CASE SetupFails(s) \/ StartChild(s) \/ Ready(s) \/ completeSignIn(s)
    BY <1>3, <2>1 DEF SetupFails, StartChild, Ready, completeSignIn
  <2>2. CASE NotReady(s) \/ ForwardFails(s) \/ PublishRefused(s)
               \/ ServingEnds(s)
    BY <1>3, <2>2 DEF NotReady, ForwardFails, PublishRefused, ServingEnds, Return
  <2>3. CASE Forward(s) \/ Publish(s) \/ Reap(s)
    BY <1>3, <2>3 DEF Forward, Publish, Reap
  <2> QED BY <1>6, <2>1, <2>2, <2>3 DEF Attempt
<1>7. ASSUME NEW s \in Sessions, Probe(s) PROVE Queue'
  BY <1>3, <1>4, <1>7 DEF Probe, ProbeOK, ProbeFails, Return
<1>8. ASSUME NEW s \in Sessions, Readers(s) \/ ChildExits(s) PROVE Queue'
  BY <1>4, <1>8
  DEF Readers, TakeSignIn, StderrLine, StdoutLine, StdoutNote, OrphanNote,
      ChildExits
<1>9. CASE Requests
  BY <1>1, <1>4, <1>9
  DEF Requests, ConnectAgain, Disconnect, Close, CloseReturn, HostSignal
<1>10. CASE UNCHANGED vars
  BY <1>4, <1>10 DEF vars
<1> QED BY <1>5, <1>6, <1>7, <1>8, <1>9, <1>10 DEF Next

LEMMA StepChildren == TypeOK /\ Queue /\ Children /\ [Next]_vars => Children'
<1> SUFFICES ASSUME TypeOK, Queue, Children, [Next]_vars PROVE Children'
  OBVIOUS
<1> USE ProbeAssumption DEF TypeOK, Children, ChildPcs, calls, local
\* A step that only moves the goroutine, and not out of the part that child
\* and failures belong to.
<1>1. ASSUME NEW s \in Sessions, NEW next,
             pc' = [pc EXCEPT ![s] = next],
             UNCHANGED <<child, failures>>,
             next = "serving" => failures[s] = 0,
             pc[s] \in ChildPcs <=> next \in ChildPcs,
             failures[s] # 0 => next \in {"serving", "ending"}
      PROVE  Children'
  BY <1>1
<1>2. CASE UNCHANGED <<pc, child, failures>>
  BY <1>2
<1>3. ASSUME NEW s \in Sessions, Goroutine(s) PROVE Children'
  <2>1. /\ pc[s] \notin ChildPcs
        /\ UNCHANGED <<child, failures>>
        /\ \E next \in {"loop", "done", "enter", "setup", "backoff"} :
             pc' = [pc EXCEPT ![s] = next]
    <3>1. CASE WaitPrevious(s) \/ Loop(s) \/ Enter(s)
      BY <3>1 DEF WaitPrevious, Loop, Enter, Finish
    <3>2. CASE ResultIgnored(s) \/ ResultStops(s) \/ ResultRetries(s)
      BY <3>2 DEF ResultIgnored, ResultStops, ResultRetries, Finish
    <3>3. CASE BackoffCancelled(s) \/ BackoffOver(s)
      BY <3>3 DEF BackoffCancelled, BackoffOver, Finish
    <3> QED BY <1>3, <3>1, <3>2, <3>3 DEF Goroutine
  <2> QED BY <1>1, <2>1
<1>4. ASSUME NEW s \in Sessions, Attempt(s) PROVE Children'
  <2>1. CASE SetupFails(s)
    BY <1>1, <2>1 DEF SetupFails
  <2>2. CASE StartChild(s)
    BY <2>2 DEF StartChild
  <2>3. CASE Ready(s) \/ completeSignIn(s) \/ Forward(s) \/ Publish(s)
    BY <1>1, <2>3 DEF Ready, completeSignIn, Forward, Publish
  <2>4. CASE NotReady(s) \/ ForwardFails(s) \/ PublishRefused(s)
               \/ ServingEnds(s)
    BY <1>1, <2>4 DEF NotReady, ForwardFails, PublishRefused, ServingEnds, Return
  <2>5. CASE Reap(s)
    BY <2>5 DEF Reap
  <2> QED BY <1>4, <2>1, <2>2, <2>3, <2>4, <2>5 DEF Attempt
<1>5. ASSUME NEW s \in Sessions, Probe(s) PROVE Children'
  BY <1>5 DEF Probe, ProbeOK, ProbeFails, Return
<1>6. ASSUME NEW s \in Sessions, Readers(s) PROVE Children'
  BY <1>2, <1>6
  DEF Readers, TakeSignIn, StderrLine, StdoutLine, StdoutNote, OrphanNote
<1>7. ASSUME NEW s \in Sessions, ChildExits(s) PROVE Children'
  BY <1>7 DEF ChildExits
<1>8. ASSUME NEW h \in Hosts, ConnectNew(h) PROVE Children'
  <2>1. latest + 1 \in Sessions /\ pc[latest + 1] = "idle"
    BY <1>8, SessionAssumption DEF ConnectNew, Queue, Sessions
  <2> QED BY <1>1, <1>8, <2>1 DEF ConnectNew
<1>9. CASE Requests
  BY <1>2, <1>8, <1>9
  DEF Requests, ConnectAgain, Disconnect, Close, CloseReturn, HostSignal
<1>10. CASE UNCHANGED vars
  BY <1>2, <1>10 DEF vars
<1> QED BY <1>3, <1>4, <1>5, <1>6, <1>7, <1>9, <1>10 DEF Next

-----------------------------------------------------------------------------
(* The status and the session it speaks of.                                *)

LEMMA StepShown ==
  TypeOK /\ Queue /\ Shown /\ ConnectedIsCurrent /\ [Next]_vars
    => Shown' /\ ConnectedIsCurrent'
<1> SUFFICES ASSUME TypeOK, Queue, Shown, ConnectedIsCurrent, [Next]_vars
             PROVE  Shown' /\ ConnectedIsCurrent'
  OBVIOUS
<1> USE SessionAssumption DEF Sessions
<1>0. /\ latest \in 0..MaxSessions /\ status \in Status
      /\ pc \in [Sessions -> Pcs] /\ cancelled \in [Sessions -> BOOLEAN]
      /\ upstream \in 0..MaxSessions /\ controlPath \in 0..MaxSessions
  BY DEF TypeOK
\* A step that leaves the status alone, and a goroutine that has nothing to
\* do with a connection, or was cancelled.
<1>1. ASSUME UNCHANGED <<status, upstream, controlPath, calls>>,
             \A s \in Sessions : cancelled'[s] = cancelled[s]
                                   \/ s # latest \/ hostDone
                                   \/ status.state = "disconnected",
             \A s \in Sessions : cancelled[s] => cancelled'[s],
             \A s \in Sessions : pc'[s] = pc[s] \/ s # latest \/ hostDone
                                   \/ status.state # "connected"
                                   \/ pc'[s] \in {"serving", "ending", "ended"}
      PROVE  Shown' /\ ConnectedIsCurrent'
  BY <1>0, <1>1 DEF Shown, ConnectedIsCurrent, calls
<1>2. ASSUME NEW h \in Hosts, ConnectNew(h)
      PROVE  Shown' /\ ConnectedIsCurrent'
  <2>1. /\ status'.state = "connecting" /\ status'.sid = latest'
        /\ latest' = latest + 1 /\ upstream' = 0
        /\ closed' = FALSE /\ hostDone' = hostDone
        /\ cancelled'[latest'] = hostDone
    BY <1>0, <1>2 DEF ConnectNew, CancelLatest, TypeOK
  <2> QED BY <1>0, <2>1 DEF Shown, ConnectedIsCurrent
<1>3. CASE Disconnect
  <2>1. /\ status'.state = "disconnected" /\ status'.sid = 0
        /\ upstream' = 0 /\ UNCHANGED calls
        /\ \A s \in Sessions : cancelled[s] => cancelled'[s]
    BY <1>0, <1>3 DEF Disconnect, CancelLatest, Status
  <2> QED BY <1>0, <2>1 DEF Shown, ConnectedIsCurrent, calls
<1>4. CASE Close
  <2>1. /\ status'.state = "disconnected" /\ status'.sid = status.sid
        /\ upstream' = 0 /\ latest' = latest
    <3>1. /\ status' = [status EXCEPT !.state = "disconnected",
                                      !.link = "none", !.auth = FALSE]
          /\ upstream' = 0 /\ latest' = latest
      BY <1>4 DEF Close
    <3> QED BY <1>0, <3>1 DEF Status
  <2>2. latest # 0 => cancelled'[latest]
    <3> SUFFICES ASSUME latest # 0 PROVE cancelled'[latest]
      OBVIOUS
    <3>1. latest \in Sessions
      BY <1>0
    <3>2. cancelled' = [s \in Sessions |-> cancelled[s] \/ s = latest]
      BY <1>4 DEF Close, CancelLatest
    <3> QED BY <3>1, <3>2, Zenon
  <2> QED BY <1>0, <2>1, <2>2 DEF Shown, ConnectedIsCurrent
<1>5. CASE HostSignal
  <2>1. /\ UNCHANGED <<status, upstream, controlPath, latest, closed, pc>>
        /\ hostDone' = TRUE
        /\ \A s \in Sessions : cancelled[s] => cancelled'[s]
    BY <1>0, <1>5 DEF HostSignal, shared
  <2> QED BY <1>0, <2>1 DEF Shown, ConnectedIsCurrent
<1>6. ASSUME NEW s \in Sessions, Goroutine(s)
      PROVE  Shown' /\ ConnectedIsCurrent'
  <2>1. CASE WaitPrevious(s) \/ Loop(s) \/ Enter(s) \/ BackoffCancelled(s)
               \/ BackoffOver(s)
    <3>1. /\ UNCHANGED <<status, upstream, controlPath, calls>>
          /\ pc[s] \in {"wait", "loop", "enter", "backoff"}
          /\ \E next \in Pcs : pc' = [pc EXCEPT ![s] = next]
          /\ cancelled' = cancelled
      BY <1>0, <2>1
      DEF WaitPrevious, Loop, Enter, BackoffCancelled, BackoffOver, Finish,
          shared, Pcs
    <3> QED BY <1>0, <1>1, <3>1 DEF ConnectedIsCurrent
  <2>2. CASE ResultIgnored(s)
    <3>1. /\ UNCHANGED <<status, upstream, controlPath, calls>>
          /\ cancelled[s] \/ status.sid # s
          /\ pc' = [pc EXCEPT ![s] = "done"]
          /\ cancelled' = [cancelled EXCEPT ![s] = TRUE]
      BY <2>2 DEF ResultIgnored, Finish, Owns, shared
    <3>2. s # latest \/ status.state = "disconnected" \/ hostDone
      BY <1>0, <3>1 DEF Shown
    <3> QED BY <1>0, <1>1, <3>1, <3>2
  <2>3. CASE ResultStops(s)
    <3>1. /\ status'.state = "disconnected" /\ status'.sid = status.sid
          /\ upstream' = 0 /\ UNCHANGED calls
          /\ ~cancelled[s] /\ status.sid = s
      BY <1>0, <2>3 DEF ResultStops, Owns, Status
    <3>2. s = latest /\ cancelled'[s]
      BY <1>0, <2>3, <3>1 DEF ResultStops, Finish, Shown
    <3> QED BY <1>0, <3>1, <3>2 DEF Shown, ConnectedIsCurrent, calls
  <2>4. CASE ResultRetries(s)
    <3>1. /\ status'.state = "connecting" /\ status'.sid = status.sid
          /\ upstream' = 0 /\ UNCHANGED <<calls, cancelled>>
          /\ ~cancelled[s] /\ status.sid = s
      BY <1>0, <2>4 DEF ResultRetries, Owns, Status
    <3> QED BY <1>0, <3>1 DEF Shown, ConnectedIsCurrent, calls
  <2> QED BY <1>6, <2>1, <2>2, <2>3, <2>4 DEF Goroutine
<1>7. ASSUME NEW s \in Sessions, Attempt(s)
      PROVE  Shown' /\ ConnectedIsCurrent'
  <2>1. CASE SetupFails(s) \/ StartChild(s) \/ Ready(s) \/ NotReady(s)
               \/ Forward(s) \/ ForwardFails(s) \/ PublishRefused(s)
    <3>1. /\ UNCHANGED <<status, upstream, controlPath, calls, cancelled>>
          /\ pc[s] \in {"setup", "ssh", "forward", "publish"}
          /\ \E next \in Pcs : pc' = [pc EXCEPT ![s] = next]
      BY <2>1
      DEF SetupFails, StartChild, Ready, NotReady, Forward, ForwardFails,
          PublishRefused, Return, shared, Pcs, ChildPcs
    <3> QED BY <1>0, <1>1, <3>1 DEF ConnectedIsCurrent
  <2>2. CASE ServingEnds(s) \/ Reap(s)
    <3>1. /\ UNCHANGED <<status, upstream, controlPath, calls, cancelled>>
          /\ \E next \in {"ending", "ended"} : pc' = [pc EXCEPT ![s] = next]
      BY <2>2 DEF ServingEnds, Reap, Return, shared
    <3> QED BY <1>0, <1>1, <3>1
  <2>3. CASE completeSignIn(s)
    <3>1. /\ status'.state = status.state /\ status'.sid = status.sid
          /\ UNCHANGED <<upstream, controlPath, calls, cancelled>>
          /\ pc[s] = "signin" /\ pc' = [pc EXCEPT ![s] = "forward"]
      BY <1>0, <2>3 DEF completeSignIn, Status
    <3> QED BY <1>0, <3>1 DEF Shown, ConnectedIsCurrent, calls
  <2>4. CASE Publish(s)
    <3>1. /\ status'.state = "connected" /\ status'.sid = status.sid
          /\ upstream' = s /\ controlPath' = s
          /\ UNCHANGED <<calls, cancelled>>
          /\ pc' = [pc EXCEPT ![s] = "serving"]
          /\ ~cancelled[s] /\ status.sid = s
      BY <1>0, <2>4 DEF Publish, Owns, Status
    <3> QED BY <1>0, <3>1 DEF Shown, ConnectedIsCurrent, calls
  <2> QED BY <1>7, <2>1, <2>2, <2>3, <2>4 DEF Attempt
<1>8. ASSUME NEW s \in Sessions, Probe(s)
      PROVE  Shown' /\ ConnectedIsCurrent'
  <2>1. /\ UNCHANGED <<status, upstream, controlPath, calls, cancelled>>
        /\ pc' = pc \/ pc' = [pc EXCEPT ![s] = "ending"]
    BY <1>8 DEF Probe, ProbeOK, ProbeFails, Return, shared
  <2> QED BY <1>0, <1>1, <2>1
<1>9. ASSUME NEW s \in Sessions, Readers(s)
      PROVE  Shown' /\ ConnectedIsCurrent'
  <2>1. /\ status'.state = status.state /\ status'.sid = status.sid
        /\ UNCHANGED <<upstream, controlPath, calls, cancelled, pc>>
    BY <1>0, <1>9
    DEF Readers, TakeSignIn, StderrLine, StdoutLine, StdoutNote, OrphanNote,
        setSignInURL, setAuthWait, Status, shared
  <2> QED BY <1>0, <2>1 DEF Shown, ConnectedIsCurrent, calls
<1>10. CASE UNCHANGED <<shared, calls, pc, cancelled>>
  BY <1>0, <1>1, <1>10 DEF shared
<1>11. ASSUME NEW s \in Sessions, ChildExits(s)
       PROVE  Shown' /\ ConnectedIsCurrent'
  BY <1>10, <1>11 DEF ChildExits
<1>12. CASE CloseReturn
  BY <1>0, <1>12
  DEF CloseReturn, Shown, ConnectedIsCurrent, shared, local
<1>13. CASE UNCHANGED vars
  BY <1>10, <1>13 DEF vars, local
<1>14. ASSUME NEW h \in Hosts, ConnectAgain(h)
       PROVE  Shown' /\ ConnectedIsCurrent'
  BY <1>10, <1>14 DEF ConnectAgain
<1> QED
  BY <1>2, <1>3, <1>4, <1>5, <1>6, <1>7, <1>8, <1>9, <1>11, <1>12, <1>13,
     <1>14
  DEF Next, Requests

LEMMA StepReturned == IInv /\ [Next]_vars => Returned'
<1> SUFFICES ASSUME IInv, [Next]_vars, ~Returned' PROVE FALSE
  OBVIOUS
<1>0. /\ latest \in 0..MaxSessions /\ pc \in [Sessions -> Pcs]
      /\ Returned /\ Queue
  BY DEF IInv, TypeOK
<1>1. CASE CloseReturn
  BY <1>1 DEF CloseReturn, Returned, local
<1>2. ASSUME closeDone' = closeDone, closed => closed' = closed,
             closed => latest' = latest,
             \A s \in Sessions : pc[s] = "done" => pc'[s] = "done"
      PROVE  FALSE
  BY <1>0, <1>2, SessionAssumption DEF Returned, Sessions
<1>3. ASSUME NEW s \in Sessions, UNCHANGED calls, pc[s] # "done",
             NEW next, pc' = [pc EXCEPT ![s] = next]
      PROVE  FALSE
  BY <1>0, <1>2, <1>3 DEF calls
<1>4. CASE UNCHANGED <<calls, pc>>
  BY <1>2, <1>4 DEF calls
<1>5. CASE Requests
  <2>1. ASSUME NEW h \in Hosts, ConnectNew(h) PROVE FALSE
    BY <1>0, <1>2, <2>1 DEF ConnectNew, Returned
  <2>2. CASE Close \/ HostSignal
    BY <1>2, <2>2 DEF Close, HostSignal
  <2> QED BY <1>1, <1>4, <1>5, <2>1, <2>2 DEF Requests, ConnectAgain, Disconnect
<1>6. ASSUME NEW s \in Sessions, Goroutine(s) PROVE FALSE
  <2>1. CASE WaitPrevious(s) \/ Loop(s) \/ Enter(s)
    BY <1>3, <2>1 DEF WaitPrevious, Loop, Enter, Finish
  <2>2. CASE ResultIgnored(s) \/ ResultStops(s) \/ ResultRetries(s)
    BY <1>3, <2>2 DEF ResultIgnored, ResultStops, ResultRetries, Finish
  <2>3. CASE BackoffCancelled(s) \/ BackoffOver(s)
    BY <1>3, <2>3 DEF BackoffCancelled, BackoffOver, Finish
  <2> QED BY <1>6, <2>1, <2>2, <2>3 DEF Goroutine
<1>7. ASSUME NEW s \in Sessions, Attempt(s) PROVE FALSE
  <2>1. CASE SetupFails(s) \/ StartChild(s) \/ Ready(s) \/ completeSignIn(s)
    BY <1>3, <2>1 DEF SetupFails, StartChild, Ready, completeSignIn
  <2>2. CASE NotReady(s) \/ ForwardFails(s) \/ PublishRefused(s)
               \/ ServingEnds(s)
    BY <1>3, <2>2 DEF NotReady, ForwardFails, PublishRefused, ServingEnds, Return
  <2>3. CASE Forward(s) \/ Publish(s) \/ Reap(s)
    BY <1>3, <2>3 DEF Forward, Publish, Reap
  <2> QED BY <1>7, <2>1, <2>2, <2>3 DEF Attempt
<1>8. ASSUME NEW s \in Sessions, Probe(s) PROVE FALSE
  BY <1>3, <1>4, <1>8 DEF Probe, ProbeOK, ProbeFails, Return
<1>9. ASSUME NEW s \in Sessions, Readers(s) \/ ChildExits(s) PROVE FALSE
  BY <1>4, <1>9
  DEF Readers, TakeSignIn, StderrLine, StdoutLine, StdoutNote, OrphanNote,
      ChildExits
<1>10. CASE UNCHANGED vars
  BY <1>4, <1>10 DEF vars, local
<1> QED BY <1>5, <1>6, <1>7, <1>8, <1>9, <1>10 DEF Next

\* Nothing asks for a sign-in once signedIn is set, and the active_host file
\* is cleared with the status.
LEMMA StepSignInAndHost ==
  IInv /\ [Next]_vars => NoSignInAfterAuthentication' /\ ActiveHostFollows'
<1> SUFFICES ASSUME IInv, [Next]_vars
             PROVE  NoSignInAfterAuthentication' /\ ActiveHostFollows'
  OBVIOUS
<1> USE DEF NoSignInAfterAuthentication, ActiveHostFollows, shared
<1>0. /\ NoSignInAfterAuthentication /\ ActiveHostFollows
      /\ status \in Status
  BY DEF IInv, TypeOK
<1>1. CASE UNCHANGED shared
  BY <1>0, <1>1
<1>2. CASE Requests
  <2>1. ASSUME NEW h \in Hosts, ConnectNew(h)
        PROVE  NoSignInAfterAuthentication' /\ ActiveHostFollows'
    BY <2>1 DEF ConnectNew
  <2>2. CASE Disconnect
    BY <1>0, <2>2 DEF Disconnect, ForgetHost, Status
  <2>3. CASE Close
    BY <1>0, <2>3 DEF Close, ForgetHost, Status
  <2> QED BY <1>1, <1>2, <2>1, <2>2, <2>3
          DEF Requests, ConnectAgain, CloseReturn, HostSignal
<1>3. ASSUME NEW s \in Sessions, Goroutine(s)
      PROVE  NoSignInAfterAuthentication' /\ ActiveHostFollows'
  <2>1. CASE ResultStops(s)
    BY <1>0, <2>1 DEF ResultStops, ForgetHost, Status
  <2>2. CASE ResultRetries(s)
    BY <1>0, <2>2 DEF ResultRetries, Status
  <2>3. CASE Enter(s)
    BY <1>0, <2>3 DEF Enter
  <2> QED BY <1>1, <1>3, <2>1, <2>2, <2>3
          DEF Goroutine, WaitPrevious, Loop, ResultIgnored, BackoffCancelled,
              BackoffOver
<1>4. ASSUME NEW s \in Sessions, Attempt(s)
      PROVE  NoSignInAfterAuthentication' /\ ActiveHostFollows'
  <2>1. CASE completeSignIn(s)
    BY <1>0, <2>1 DEF completeSignIn, Status
  <2>2. CASE Publish(s)
    BY <1>0, <2>2 DEF Publish, Status
  <2> QED BY <1>1, <1>4, <2>1, <2>2
          DEF Attempt, SetupFails, StartChild, Ready, NotReady, Forward,
              ForwardFails, PublishRefused, ServingEnds, Reap
<1>5. ASSUME NEW s \in Sessions, Readers(s)
      PROVE  NoSignInAfterAuthentication' /\ ActiveHostFollows'
  <2>1. CASE TakeSignIn(s) \/ StdoutLine(s)
    BY <1>1, <2>1 DEF TakeSignIn, StdoutLine
  <2>2. CASE StderrLine(s) \/ StdoutNote(s) \/ OrphanNote(s)
    BY <1>0, <2>2
    DEF StderrLine, StdoutNote, OrphanNote, setSignInURL, setAuthWait,
        Accepts, Status
  <2> QED BY <1>5, <2>1, <2>2 DEF Readers
<1>6. ASSUME NEW s \in Sessions, Probe(s) \/ ChildExits(s)
      PROVE  NoSignInAfterAuthentication' /\ ActiveHostFollows'
  BY <1>1, <1>6 DEF Probe, ProbeOK, ProbeFails, ChildExits
<1>7. CASE UNCHANGED vars
  BY <1>1, <1>7 DEF vars
<1> QED BY <1>2, <1>3, <1>4, <1>5, <1>6, <1>7 DEF Next

-----------------------------------------------------------------------------
(* The theorems.                                                           *)

LEMMA Inductive == Spec => []IInv
<1>1. IInv /\ [Next]_vars => IInv'
  BY StepTypes, StepQueue, StepChildren, StepShown, StepReturned,
     StepSignInAndHost DEF IInv
<1> QED BY InitIInv, <1>1, PTL DEF Spec

\* The variables of the session keep their types (TypeOK), whatever number of
\* sessions, hosts and probes there are.
THEOREM TypeCorrect == Spec => []TypeOK
<1>1. IInv => TypeOK
  BY DEF IInv
<1> QED BY Inductive, <1>1, PTL

\* No two sessions have an SSH child at the same time (the reaping order of
\* ssh_session.go:182-185).
THEOREM ChildrenExclude == Spec => []OneChild
<1>1. IInv => OneChild
  <2> SUFFICES ASSUME IInv, NEW s \in Sessions, NEW t \in Sessions,
                      child[s] # "none", child[t] # "none", s < t
               PROVE  FALSE
    BY DEF OneChild, Sessions
  <2>1. pc[s] \in ChildPcs /\ pc[t] \in ChildPcs
    BY DEF IInv, Children
  <2> QED BY <2>1 DEF IInv, Queue, ChildPcs
<1> QED BY Inductive, <1>1, PTL

\* What is shown as connected is the latest session, its upstream and its
\* control master, with a goroutine that will take it back.
THEOREM ConnectedOwned == Spec => []ConnectedIsCurrent
<1>1. IInv => ConnectedIsCurrent
  BY DEF IInv
<1> QED BY Inductive, <1>1, PTL

\* After SSH authentication the status never asks for a sign-in again in the
\* same attempt (ssh_session.go:92-94).
THEOREM SignInOver == Spec => []NoSignInAfterAuthentication
<1>1. IInv => NoSignInAfterAuthentication
  BY DEF IInv
<1> QED BY Inductive, <1>1, PTL

\* The active_host file never names the host that is shown as disconnected.
THEOREM ActiveHostCleared == Spec => []ActiveHostFollows
<1>1. IInv => ActiveHostFollows
  BY DEF IInv
<1> QED BY Inductive, <1>1, PTL

\* Everything a status request reports is true of the process.
THEOREM StatusTrue == Spec => []StatusIsTrue
<1>1. ConnectedIsCurrent /\ NoSignInAfterAuthentication /\ ActiveHostFollows
        => StatusIsTrue
  BY DEF StatusIsTrue
<1> QED BY ConnectedOwned, SignInOver, ActiveHostCleared, <1>1, PTL

\* Close waits for the latest session alone, and yet no session is left when
\* it returns.
THEOREM CloseReaps == Spec => []CloseReapsAll
<1>1. IInv => CloseReapsAll
  <2> SUFFICES ASSUME IInv, closeDone, NEW s \in Sessions
               PROVE  pc[s] \in {"idle", "done"} /\ child[s] = "none"
    BY DEF CloseReapsAll
  <2>1. latest \in 0..MaxSessions /\ pc[s] \in Pcs
    BY DEF IInv, TypeOK
  <2>2. pc[s] \in {"idle", "done"}
    BY <2>1, SessionAssumption DEF IInv, Returned, Queue, Sessions
  <2> QED BY <2>2 DEF IInv, Children, ChildPcs
<1> QED BY Inductive, <1>1, PTL

-----------------------------------------------------------------------------
(* Action properties and the contract.                                     *)

\* A helper that says disconnected stays so until a new session is asked for.
THEOREM DisconnectedLasts == Spec => DisconnectedSticks
<1>1. ASSUME IInv, [Next]_vars, status.state = "disconnected",
             status'.state # "disconnected"
      PROVE  latest' = latest + 1 /\ ~closed
  <2> USE <1>1
  <2>0. /\ status \in Status /\ Shown
        /\ latest \in 0..MaxSessions
    BY DEF IInv, TypeOK
  <2>1. ~UNCHANGED status
    OBVIOUS
  <2>2. ASSUME NEW h \in Hosts, ConnectNew(h)
        PROVE  latest' = latest + 1 /\ ~closed
    BY <2>2 DEF ConnectNew
  <2>3. CASE Disconnect \/ Close
    BY <2>0, <2>3 DEF Disconnect, Close, Status
  <2>4. ASSUME NEW s \in Sessions, ResultStops(s) PROVE FALSE
    BY <2>0, <2>4 DEF ResultStops, Status
  <2>5. ASSUME NEW s \in Sessions, completeSignIn(s) PROVE FALSE
    BY <2>0, <2>5 DEF completeSignIn, Status
  <2>6. ASSUME NEW s \in Sessions, Readers(s) PROVE FALSE
    BY <2>0, <2>1, <2>6
    DEF Readers, TakeSignIn, StderrLine, StdoutLine, StdoutNote, OrphanNote,
        setSignInURL, setAuthWait, Accepts, Status, shared
  <2>7. ASSUME NEW s \in Sessions, ResultRetries(s) \/ Publish(s) PROVE FALSE
    BY <2>0, <2>7 DEF ResultRetries, Publish, Owns, Shown, Sessions
  <2> QED
    BY <2>1, <2>2, <2>3, <2>4, <2>5, <2>6, <2>7
    DEF Next, Requests, ConnectAgain, CloseReturn, HostSignal, Goroutine,
        WaitPrevious, Loop, Enter, ResultIgnored, BackoffCancelled,
        BackoffOver, Attempt, SetupFails, StartChild, Ready, NotReady,
        Forward, ForwardFails, PublishRefused, ServingEnds, Reap, Probe,
        ProbeOK, ProbeFails, ChildExits, vars, shared
<1>2. IInv /\ [Next]_vars
        => [status.state = "disconnected" /\ status'.state # "disconnected"
              => latest' = latest + 1 /\ ~closed]_vars
  BY <1>1
<1> QED BY Inductive, <1>2, PTL DEF Spec, DisconnectedSticks

\* The goroutine of a session that was disconnected, closed or superseded
\* changes nothing of what is published.
THEOREM StaleIsSilent == Spec => StaleSessionSilent
<1> DEFINE Silent ==
      /\ upstream' = upstream /\ controlPath' = controlPath
      /\ activeHost' = activeHost
      /\ status'.state = status.state /\ status'.error = status.error
      /\ status'.signInRequired = status.signInRequired
<1>1. ASSUME IInv, [Next]_vars, NEW s \in Sessions,
             pc[s] # "idle", pc'[s] # pc[s], status.sid # s \/ closed
      PROVE  Silent
  <2>0. /\ latest \in 0..MaxSessions /\ pc \in [Sessions -> Pcs]
        /\ status \in Status /\ Shown /\ Queue
    BY <1>1 DEF IInv, TypeOK
  <2>1. ~Owns(s)
    BY <1>1, <2>0 DEF Owns, Shown, Sessions
  <2>2. CASE UNCHANGED shared
    BY <2>2 DEF shared
  <2>3. ASSUME NEW t \in Sessions, NEW next, pc' = [pc EXCEPT ![t] = next]
        PROVE  t = s
    BY <1>1, <2>0, <2>3
  <2>4. ASSUME NEW t \in Sessions, Goroutine(t) PROVE Silent
    <3>1. CASE ResultStops(t) \/ ResultRetries(t)
      BY <2>1, <2>3, <3>1 DEF ResultStops, ResultRetries, Finish
    <3>2. CASE Enter(t)
      BY <3>2 DEF Enter
    <3> QED BY <2>2, <2>4, <3>1, <3>2
            DEF Goroutine, WaitPrevious, Loop, ResultIgnored,
                BackoffCancelled, BackoffOver
  <2>5. ASSUME NEW t \in Sessions, Attempt(t) PROVE Silent
    <3>1. CASE Publish(t)
      BY <2>1, <2>3, <3>1 DEF Publish
    <3>2. CASE completeSignIn(t)
      <4>1. CASE status.sid = t
        <5>1. status' = [status EXCEPT !.link = "none", !.auth = FALSE]
          BY <3>2, <4>1 DEF completeSignIn
        <5>2. /\ status'.state = status.state
              /\ status'.error = status.error
              /\ status'.signInRequired = status.signInRequired
          BY <2>0, <5>1 DEF Status
        <5> QED BY <3>2, <5>2 DEF completeSignIn
      <4>2. CASE status.sid # t
        BY <3>2, <4>2 DEF completeSignIn
      <4> QED BY <4>1, <4>2
    <3> QED BY <2>2, <2>5, <3>1, <3>2
            DEF Attempt, SetupFails, StartChild, Ready, NotReady, Forward,
                ForwardFails, PublishRefused, ServingEnds, Reap
  <2>6. ASSUME NEW t \in Sessions, Probe(t) PROVE Silent
    BY <2>2, <2>6 DEF Probe, ProbeOK, ProbeFails
  <2>7. pc' # pc
    BY <1>1
  <2>8. ASSUME NEW t \in Sessions, Readers(t) \/ ChildExits(t) PROVE FALSE
    BY <2>7, <2>8
    DEF Readers, TakeSignIn, StderrLine, StdoutLine, StdoutNote, OrphanNote,
        ChildExits
  <2>9. ASSUME NEW h \in Hosts, ConnectNew(h) PROVE FALSE
    <3>1. latest + 1 \in Sessions /\ latest + 1 > latest
      BY <2>0, <2>9, SessionAssumption DEF ConnectNew, Sessions
    <3>2. pc[latest + 1] = "idle"
      BY <2>0, <3>1 DEF Queue
    <3> QED BY <1>1, <2>3, <2>9, <3>1, <3>2 DEF ConnectNew
  <2> QED
    BY <1>1, <2>4, <2>5, <2>6, <2>7, <2>8, <2>9
    DEF Next, Requests, ConnectAgain, Disconnect, Close, CloseReturn,
        HostSignal, vars, local
<1>2. IInv /\ [Next]_vars
        => [\A s \in Sessions :
              pc[s] # "idle" /\ pc'[s] # pc[s] /\ (status.sid # s \/ closed)
                => Silent]_vars
  BY <1>1
<1> QED BY Inductive, <1>2, PTL DEF Spec, StaleSessionSilent

-----------------------------------------------------------------------------
(* The refinement.  Let Turn(s) be that s has left its wait, and Held(s)   *)
(* that it has a child.                                                    *)

\* Steps that touch neither the status, nor the queue, nor a child stutter.
LEMMA ContractStutters ==
  ASSUME status'.state = status.state, status'.sid = status.sid,
         latest' = latest, child' = child,
         \A s \in Sessions : pc'[s] \in {"idle", "wait"}
                               <=> pc[s] \in {"idle", "wait"}
  PROVE  UNCHANGED Contract!rvars
BY DEF Contract!rvars

\* The sessions are served in order and one at a time, and the status speaks
\* of the right one: the helper implements RemoteSession.
THEOREM HelperKeepsContract == Spec => KeepsContract
<1>1. Init => Contract!Init
  BY SessionAssumption DEF Init, Contract!Init, Sessions
<1>2. ASSUME IInv, IInv', [Next]_vars
      PROVE  [Contract!Next]_(Contract!rvars)
  <2> DEFINE Turn == {s \in Sessions : pc[s] \notin {"idle", "wait"}}
             Held == {s \in Sessions : child[s] # "none"}
             Owner == IF status.state = "disconnected" THEN {}
                                                       ELSE {status.sid}
             Goal == Contract!Next \/ UNCHANGED Contract!rvars
  <2>0. /\ status \in Status /\ Shown /\ Queue /\ Children
        /\ latest \in 0..MaxSessions
        /\ pc \in [Sessions -> Pcs]
        /\ child \in [Sessions -> {"none", "alive", "exited"}]
    BY <1>2 DEF IInv, TypeOK
  <2> SUFFICES Goal
    OBVIOUS
  <2>1. ASSUME UNCHANGED status, UNCHANGED latest, UNCHANGED child,
               NEW s \in Sessions, pc[s] \notin {"idle", "wait"},
               NEW next \in Pcs \ {"idle", "wait"},
               pc' = [pc EXCEPT ![s] = next]
        PROVE  Goal
    <3>1. \A t \in Sessions : pc'[t] \in {"idle", "wait"}
                                <=> pc[t] \in {"idle", "wait"}
      BY <2>0, <2>1
    <3> QED BY <2>1, <3>1, ContractStutters
  <2>2. ASSUME NEW h \in Hosts, ConnectNew(h) PROVE Goal
    <3>1. latest + 1 \in Sessions /\ latest + 1 \notin 1..latest
      BY <2>0, <2>2, SessionAssumption DEF ConnectNew, Sessions
    <3>2. \A t \in 1..latest : t < latest + 1
      BY <2>0
    <3>3. 1..latest' = (1..latest) \cup {latest + 1}
      BY <2>0, <2>2 DEF ConnectNew
    <3>4. status'.state = "connecting" /\ status'.sid = latest + 1
      BY <2>2 DEF ConnectNew
    <3>5. \A t \in Sessions : pc'[t] \in {"idle", "wait"}
                                <=> pc[t] \in {"idle", "wait"}
      <4>1. pc[latest + 1] = "idle"
        BY <2>0, <3>1 DEF Queue
      <4> QED BY <2>0, <2>2, <3>1, <4>1 DEF ConnectNew
    <3>6. Turn' = Turn /\ Held' = Held
      BY <2>2, <3>5 DEF ConnectNew
    <3>7. Contract!Ask
      BY <3>1, <3>2, <3>3, <3>4, <3>6 DEF Contract!Ask
    <3> QED BY <3>7 DEF Contract!Next
  <2>3. ASSUME NEW s \in Sessions, WaitPrevious(s) PROVE Goal
    <3>1. /\ s \in 1..latest
          /\ \A t \in Sessions : t < s => pc[t] = "done"
      <4>1. s <= latest
        BY <2>0, <2>3 DEF WaitPrevious, Queue, Sessions
      <4>2. ASSUME s > 1 PROVE \A t \in Sessions : t < s => pc[t] = "done"
        <5>1. s - 1 \in Sessions /\ pc[s - 1] = "done"
          BY <2>3, <4>2, SessionAssumption DEF WaitPrevious, Sessions
        <5>2. ASSUME NEW t \in Sessions, t < s PROVE pc[t] = "done"
          <6>1. t < s - 1 \/ t = s - 1
            BY <5>2 DEF Sessions
          <6> QED BY <2>0, <5>1, <6>1 DEF Queue
        <5> QED BY <5>2
      <4> QED BY <4>1, <4>2 DEF Sessions
    <3>2. s \notin Turn /\ Turn' = Turn \cup {s}
      BY <2>0, <2>3 DEF WaitPrevious
    <3>3. Held = {}
      <4>1. ASSUME NEW t \in Sessions, pc[t] \in ChildPcs PROVE FALSE
        <5>1. t < s \/ t = s \/ s < t
          BY DEF Sessions
        <5>2. t # s
          BY <2>3, <4>1 DEF WaitPrevious, ChildPcs
        <5>3. ~ t < s
          BY <3>1, <4>1 DEF ChildPcs
        <5>4. ~ s < t
          BY <2>0, <2>3, <4>1 DEF Queue, WaitPrevious, ChildPcs
        <5> QED BY <5>1, <5>2, <5>3, <5>4
      <4> QED BY <2>0, <4>1 DEF Children
    <3>4. \A t \in Sessions : t < s => t \in Turn
      BY <3>1
    <3>5. /\ UNCHANGED <<status, latest>> /\ Held' = Held
      BY <2>3 DEF WaitPrevious, shared, calls
    <3>6. Contract!Admit
      BY <3>1, <3>2, <3>3, <3>4, <3>5 DEF Contract!Admit
    <3> QED BY <3>6 DEF Contract!Next
  <2>4. ASSUME NEW s \in Sessions, pc[s] \notin {"idle", "wait", "done"}
        PROVE  /\ \A t \in Turn : t <= s
               /\ \A t \in Sessions \ {s} : child[t] = "none"
    <3>1. ASSUME NEW t \in Sessions, t < s PROVE child[t] = "none"
      BY <2>0, <2>4, <3>1 DEF Queue, Children, ChildPcs
    <3>2. ASSUME NEW t \in Sessions, s < t PROVE t \notin Turn
      BY <2>0, <2>4, <3>2 DEF Queue
    <3>3. ASSUME NEW t \in Sessions, s < t PROVE child[t] = "none"
      BY <2>0, <3>2, <3>3 DEF Children, ChildPcs
    <3> QED BY <3>1, <3>2, <3>3 DEF Sessions
  <2>5. ASSUME NEW s \in Sessions, StartChild(s) PROVE Goal
    <3>1. child[s] = "none"
      BY <2>0, <2>5 DEF StartChild, Children, ChildPcs
    <3>2. Held = {} /\ s \in Turn /\ \A t \in Turn : t <= s
      BY <2>4, <2>5, <3>1 DEF StartChild
    <3>3. Held' = {s} /\ Turn' = Turn
      BY <2>0, <2>5, <3>2 DEF StartChild
    <3>4. UNCHANGED <<status, latest>>
      BY <2>5 DEF StartChild, shared, calls
    <3>5. Contract!Take
      BY <3>2, <3>3, <3>4 DEF Contract!Take
    <3> QED BY <3>5 DEF Contract!Next
  <2>6. ASSUME NEW s \in Sessions, Reap(s) PROVE Goal
    <3>1. s \in Held
      BY <2>0, <2>6 DEF Reap, Children, ChildPcs
    <3>2. Held' = {} /\ Turn' = Turn
      BY <2>0, <2>4, <2>6 DEF Reap
    <3>3. UNCHANGED <<status, latest>>
      BY <2>6 DEF Reap, shared, calls
    <3>4. Contract!Release
      BY <3>1, <3>2, <3>3 DEF Contract!Release
    <3> QED BY <3>4 DEF Contract!Next
  <2>7. ASSUME NEW s \in Sessions, ChildExits(s) PROVE Goal
    <3>1. Held' = Held /\ Turn' = Turn
      BY <2>0, <2>7 DEF ChildExits
    <3> QED BY <2>7, <3>1 DEF ChildExits, Contract!rvars, shared, calls
  <2>8. ASSUME NEW s \in Sessions, Publish(s) PROVE Goal
    <3>1. Turn' = Turn /\ UNCHANGED <<latest, child>>
      BY <2>0, <2>8 DEF Publish, calls
    <3>2. status'.state = "connected" /\ status'.sid = status.sid
      BY <2>0, <2>8 DEF Publish, Status
    <3>3. status.state # "disconnected" /\ Owner = {s} /\ Held = {s}
      <4>1. status.sid = s /\ ~cancelled[s] /\ pc[s] = "publish"
        BY <2>8 DEF Publish, Owns
      <4>2. child[s] # "none"
        BY <2>0, <4>1 DEF Children, ChildPcs
      <4>3. Held = {s}
        BY <2>4, <4>1, <4>2
      <4>4. status.state # "disconnected"
        BY <2>0, <4>1 DEF Shown, Sessions
      <4> QED BY <4>1, <4>3, <4>4
    <3>4. CASE status.state = "connecting"
      <4>1. Contract!Establish
        BY <3>1, <3>2, <3>3, <3>4 DEF Contract!Establish
      <4> QED BY <4>1 DEF Contract!Next
    <3>5. CASE status.state = "connected"
      BY <3>1, <3>2, <3>5 DEF Contract!rvars
    <3> QED BY <2>0, <3>3, <3>4, <3>5 DEF Status, States
  <2>9. ASSUME NEW s \in Sessions, ResultRetries(s) PROVE Goal
    <3>1. Turn' = Turn /\ UNCHANGED <<latest, child>>
      BY <2>0, <2>9 DEF ResultRetries, calls
    <3>2. status'.state = "connecting" /\ status'.sid = status.sid
      BY <2>0, <2>9 DEF ResultRetries, Status
    <3>3. status.state # "disconnected" /\ Held = {}
      <4>1. status.sid = s /\ ~cancelled[s] /\ pc[s] = "ended"
        BY <2>9 DEF ResultRetries, Owns
      <4>2. child[s] = "none"
        BY <2>0, <4>1 DEF Children, ChildPcs
      <4>3. Held = {}
        BY <2>4, <4>1, <4>2
      <4>4. status.state # "disconnected"
        BY <2>0, <4>1 DEF Shown, Sessions
      <4> QED BY <4>3, <4>4
    <3>4. CASE status.state = "connected"
      <4>1. Contract!Lose
        BY <3>1, <3>2, <3>3, <3>4 DEF Contract!Lose
      <4> QED BY <4>1 DEF Contract!Next
    <3>5. CASE status.state = "connecting"
      BY <3>1, <3>2, <3>5 DEF Contract!rvars
    <3> QED BY <2>0, <3>3, <3>4, <3>5 DEF Status, States
  <2>10. ASSUME status'.state = "disconnected", latest' = latest,
                child' = child, Turn' = Turn
         PROVE  Goal
    <3>1. CASE status.state = "disconnected"
      BY <2>10, <3>1 DEF Contract!rvars
    <3>2. CASE status.state # "disconnected"
      <4>1. Contract!Quit
        BY <2>10, <3>2 DEF Contract!Quit
      <4> QED BY <4>1 DEF Contract!Next
    <3> QED BY <3>1, <3>2
  <2>11. CASE Disconnect \/ Close
    BY <2>0, <2>10, <2>11 DEF Disconnect, Close, Status, calls
  <2>12. ASSUME NEW s \in Sessions, ResultStops(s) PROVE Goal
    <3>1. Turn' = Turn
      BY <2>0, <2>12 DEF ResultStops, Finish
    <3>2. status'.state = "disconnected"
      BY <2>0, <2>12 DEF ResultStops, Status
    <3> QED BY <2>10, <2>12, <3>1, <3>2 DEF ResultStops, calls
  <2>13. ASSUME NEW s \in Sessions, completeSignIn(s) PROVE Goal
    <3>1. status'.state = status.state /\ status'.sid = status.sid
      <4>1. CASE status' = [status EXCEPT !.link = "none", !.auth = FALSE]
        BY <2>0, <4>1 DEF Status
      <4> QED BY <2>13, <4>1 DEF completeSignIn
    <3>2. Turn' = Turn
      BY <2>0, <2>13 DEF completeSignIn
    <3> QED BY <2>13, <3>1, <3>2 DEF completeSignIn, Contract!rvars, calls
  <2>14. ASSUME NEW s \in Sessions, Readers(s) PROVE Goal
    <3>1. status'.state = status.state /\ status'.sid = status.sid
      BY <2>0, <2>14
      DEF Readers, TakeSignIn, StderrLine, StdoutLine, StdoutNote, OrphanNote,
          setSignInURL, setAuthWait, Status, shared
    <3>2. UNCHANGED <<pc, latest, child>>
      BY <2>14
      DEF Readers, TakeSignIn, StderrLine, StdoutLine, StdoutNote, OrphanNote,
          calls
    <3> QED BY <3>1, <3>2 DEF Contract!rvars
  <2>15. CASE CloseReturn \/ HostSignal \/ UNCHANGED vars
    BY <2>15 DEF CloseReturn, HostSignal, vars, shared, calls, local,
                 Contract!rvars
  <2>16. ASSUME NEW h \in Hosts, ConnectAgain(h) PROVE Goal
    BY <2>16 DEF ConnectAgain, shared, calls, Contract!rvars
  <2>17. ASSUME NEW s \in Sessions,
                \/ Loop(s) \/ Enter(s) \/ ResultIgnored(s)
                \/ BackoffCancelled(s) \/ BackoffOver(s)
         PROVE  Goal
    BY <2>1, <2>17
    DEF Loop, Enter, ResultIgnored, BackoffCancelled, BackoffOver, Finish,
        Pcs, shared, calls
  <2>18. ASSUME NEW s \in Sessions,
                \/ SetupFails(s) \/ Ready(s) \/ NotReady(s) \/ Forward(s)
                \/ ForwardFails(s) \/ PublishRefused(s) \/ ServingEnds(s)
         PROVE  Goal
    BY <2>1, <2>18
    DEF SetupFails, Ready, NotReady, Forward, ForwardFails, PublishRefused,
        ServingEnds, Return, Pcs, ChildPcs, shared, calls
  <2>19. ASSUME NEW s \in Sessions, Probe(s) PROVE Goal
    <3>1. CASE UNCHANGED pc
      BY <2>19, <3>1 DEF Probe, ProbeOK, ProbeFails, Return, shared, calls,
                         Contract!rvars
    <3> QED BY <2>1, <2>19, <3>1
            DEF Probe, ProbeOK, ProbeFails, Return, Pcs, ChildPcs, shared,
                calls
  <2> QED
    BY <1>2, <2>2, <2>3, <2>5, <2>6, <2>7, <2>8, <2>9, <2>11, <2>12, <2>13,
       <2>14, <2>15, <2>16, <2>17, <2>18, <2>19
    DEF Next, Requests, Goroutine, Attempt
<1> QED BY Inductive, <1>1, <1>2, PTL DEF Spec, KeepsContract, Contract!Spec
=============================================================================
