-------------------------- MODULE RemoteRoute_proofs --------------------------
(***************************************************************************)
(* Theorems about RemoteRoute, for any hosts, ports, requests, challenges  *)
(* and helpers, whatever Chrome refuses and others control.                *)
(***************************************************************************)
EXTENDS RemoteRoute, TLAPS

Started(i) == mut[i].pc \notin {"none", "asked"}
Active(i)  == mut[i].pc \notin {"none", "asked", "done"}

\* Requests run one at a time and in the order in which they were made, in a
\* worker that is ready; a request waits for a reply only while it runs.
Serial ==
  /\ \A i \in Ids : Started(i) => \A j \in 1..i-1 : mut[j].pc = "done"
  /\ \A i \in Ids : Active(i) => worker = "ready"
  /\ \A i \in Ids : mut[i].pc = "none" <=> i > asked
  /\ \A i \in Ids : call[i] # "idle" => Active(i)
  /\ \A i \in Ids : mut[i].pc # "done" => by <= i

\* The revision counts the requests that have started and the ports lost.
Counted ==
  \E n \in 0..asked :
    /\ n # 0 => Started(n)
    /\ \A i \in Ids : Started(i) => i <= n
    /\ revision <= n + helper.gen - (IF port THEN 1 ELSE 0)

\* What a request has made sure of before each of its steps.
Prepared ==
  \A i \in Ids :
    /\ mut[i].pc = "apply" => route # None
    /\ mut[i].pc = "remove" => ours = None
    /\ mut[i].pc = "clear" => mut[i].op = "off" \/ mut[i].turnOff
    /\ mut[i].pc = "verify" => route = None

\* A session that was begun has its host and its port.
OfSession(v) == v.state # "disconnected" => v.host \in Hosts /\ v.port \in Ports

\* A reply that was not lost is of the helper behind the open port, and so is
\* one that a request keeps, as long as the revision is the request's.
OfHelper(v) == port /\ v.gen = helper.gen /\ v.legacy = helper.legacy

Replies ==
  /\ port => helper.gen # 0
  /\ OfSession(helper)
  /\ \A p \in Ids \cup {0} :
       call[p] = "back" => got[p] \in Snapshots /\ OfSession(got[p]) /\ OfHelper(got[p])

OnWire ==
  /\ \A i \in Ids : mut[i].op = "connect" => mut[i].host \in Hosts
  /\ \A p \in Ids \cup {0} : wire[p].op # "none" => port
  /\ \A p \in Ids \cup {0} : wire[p].op = "connect" => wire[p].host \in Hosts /\ ~helper.legacy

Revised ==
  /\ \A i \in Ids : mut[i].rev <= revision
  /\ \A i \in Ids : mut[i].pc \in {"level", "store"} =>
       /\ got[i] \in Snapshots /\ OfSession(got[i]) /\ got[i].state = "connected"
       /\ call[i] = "idle"
       /\ mut[i].rev = revision => OfHelper(got[i])
  /\ \A i \in Ids : mut[i].pc = "migrate" =>
       /\ mut[i].op = "connect"
       /\ mut[i].rev = revision => port /\ ~helper.legacy

FromHelper == Replies /\ OnWire /\ Revised

\* The credentials are given once to a web request that goes on.
GivenOnce == \A r \in Challenges : r \notin attempts => given[r] = 0

IInv == /\ TypeOK /\ Serial /\ Counted /\ Prepared /\ FromHelper /\ GivenOnce
        /\ ActiveProxyIsStored /\ StatusIsOfThisHelper

-----------------------------------------------------------------------------
(* What the parts of the steps do.                                         *)

\* The types, for the proofs: each with what a function of it returns.
LEMMA Types ==
  ASSUME TypeOK
  PROVE  /\ mut \in [Ids -> Requests] /\ \A i \in Ids : mut[i] \in Requests
         /\ call \in [Ids \cup {0} -> {"idle", "sent", "back", "failed"}]
         /\ got \in [Ids \cup {0} -> Snapshots \cup {None}]
         /\ wire \in [Ids \cup {0} -> NativeCalls]
         /\ revision \in Nat /\ helper \in HelperStates(0..MaxHelpers)
         /\ ssh \in Statuses /\ creds \in Credentials \cup {None}
         /\ \A i \in Ids : i \in Nat \ {0} /\ i \in Ids \cup {0}
         /\ poll \in [pc : {"idle", "status", "old"}, rev : Nat]
BY BoundAssumption DEF TypeOK, WorkerTypes, CallTypes, HelperTypes, Ids

\* A request goes on: only its place changes.
LEMMA Going ==
  ASSUME TypeOK, NEW i \in Ids, NEW pc \in Pcs, Goto(i, pc)
  PROVE  /\ mut' \in [Ids -> Requests] /\ mut'[i].pc = pc
         /\ mut'[i].op = mut[i].op /\ mut'[i].host = mut[i].host /\ mut'[i].rev = mut[i].rev
         /\ mut'[i].turnOff = mut[i].turnOff
         /\ \A j \in Ids \ {i} : mut'[j] = mut[j]
<1> DEFINE to == [mut[i] EXCEPT !.pc = pc]
<1>1. mut \in [Ids -> Requests] /\ mut[i] \in Requests
  BY Types
<1>2. /\ to \in Requests /\ to.pc = pc /\ to.op = mut[i].op /\ to.host = mut[i].host
      /\ to.rev = mut[i].rev /\ to.turnOff = mut[i].turnOff
  BY <1>1 DEF Requests
<1>3. mut' = [mut EXCEPT ![i] = to]
  BY DEF Goto
<1> HIDE DEF to
<1> QED BY <1>1, <1>2, <1>3

\* A request starts: it is given the next revision.
LEMMA Beginning ==
  ASSUME TypeOK, NEW i \in Ids, NEW pc \in Pcs, Begin(i, pc)
  PROVE  /\ mut' \in [Ids -> Requests] /\ mut'[i].pc = pc
         /\ mut'[i].op = mut[i].op /\ mut'[i].host = mut[i].host /\ mut'[i].rev = revision + 1
         /\ mut'[i].turnOff = mut[i].turnOff
         /\ \A j \in Ids \ {i} : mut'[j] = mut[j]
<1> DEFINE to == [mut[i] EXCEPT !.pc = pc, !.rev = revision + 1]
<1>1. mut \in [Ids -> Requests] /\ mut[i] \in Requests /\ revision + 1 \in Nat
  BY Types
<1>2. /\ to \in Requests /\ to.pc = pc /\ to.op = mut[i].op /\ to.host = mut[i].host
      /\ to.rev = revision + 1 /\ to.turnOff = mut[i].turnOff
  BY <1>1 DEF Requests
<1>3. mut' = [mut EXCEPT ![i] = to]
  BY DEF Begin
<1> HIDE DEF to
<1> QED BY <1>1, <1>2, <1>3

\* The record of no request.
LEMMA NoRequestTypes ==
  LET done == [NoRequest EXCEPT !.pc = "done"]
  IN  /\ done \in Requests /\ NoRequest \in Requests /\ NoRequest.pc = "none"
      /\ done.pc = "done" /\ done.op = "none" /\ done.rev = 0
<1>1. 0 \in 0..MaxSessions
  BY BoundAssumption
<1>2. NoRequest \in Requests /\ NoRequest.pc = "none"
  BY <1>1 DEF NoRequest, Requests, Pcs
<1>3. NoRequest.op = "none" /\ NoRequest.rev = 0
  BY DEF NoRequest
<1>4. [NoRequest EXCEPT !.pc = "done"] \in Requests
  BY <1>2 DEF Requests, Pcs
<1>5. /\ [NoRequest EXCEPT !.pc = "done"].pc = "done"
      /\ [NoRequest EXCEPT !.pc = "done"].op = "none"
      /\ [NoRequest EXCEPT !.pc = "done"].rev = 0
  BY <1>2, <1>3 DEF Requests
<1> QED BY <1>2, <1>4, <1>5

\* A request ends, and waits for nothing.
LEMMA Ending ==
  ASSUME TypeOK, NEW i \in Ids, End(i)
  PROVE  /\ mut' \in [Ids -> Requests] /\ mut'[i].pc = "done" /\ mut'[i].op = "none"
         /\ mut'[i].rev = 0
         /\ \A j \in Ids \ {i} : mut'[j] = mut[j]
         /\ call' \in [Ids \cup {0} -> {"idle", "sent", "back", "failed"}]
         /\ got' \in [Ids \cup {0} -> Snapshots \cup {None}]
         /\ call'[i] = "idle" /\ got'[i] = None
         /\ \A p \in (Ids \cup {0}) \ {i} : call'[p] = call[p] /\ got'[p] = got[p]
BY Types, NoRequestTypes DEF End

\* A request to the helper is refused at once, or is on its way.
LEMMA Requesting ==
  ASSUME TypeOK, NEW p \in Ids \cup {0}, NEW op \in {"status", "connect", "disconnect"},
         NEW h \in Hosts \cup {None}, NEW pt \in Ports \cup {None}, nativeRequest(p, op, h, pt)
  PROVE  /\ call' \in [Ids \cup {0} -> {"idle", "sent", "back", "failed"}]
         /\ wire' \in [Ids \cup {0} -> NativeCalls]
         /\ call'[p] \in {"sent", "failed"}
         /\ wire'[p] = IF port THEN [op |-> op, host |-> h, port |-> pt] ELSE wire[p]
         /\ \A q \in (Ids \cup {0}) \ {p} : call'[q] = call[q] /\ wire'[q] = wire[q]
<1> DEFINE w == [op |-> op, host |-> h, port |-> pt]
<1>1. w \in NativeCalls
  BY DEF NativeCalls
<1>2. /\ port => call' = [call EXCEPT ![p] = "sent"] /\ wire' = [wire EXCEPT ![p] = w]
      /\ ~port => call' = [call EXCEPT ![p] = "failed"] /\ wire' = wire
  BY DEF nativeRequest
<1>3. /\ call \in [Ids \cup {0} -> {"idle", "sent", "back", "failed"}]
      /\ wire \in [Ids \cup {0} -> NativeCalls]
  BY Types
<1> HIDE DEF w
<1>4. ASSUME port
      PROVE  /\ call' \in [Ids \cup {0} -> {"idle", "sent", "back", "failed"}]
             /\ call'[p] = "sent" /\ \A q \in (Ids \cup {0}) \ {p} : call'[q] = call[q]
  BY <1>2, <1>3, <1>4
<1>5. ASSUME port
      PROVE  /\ wire' \in [Ids \cup {0} -> NativeCalls]
             /\ wire'[p] = w /\ \A q \in (Ids \cup {0}) \ {p} : wire'[q] = wire[q]
  BY <1>1, <1>2, <1>3, <1>5
<1>6. ASSUME ~port
      PROVE  /\ call' \in [Ids \cup {0} -> {"idle", "sent", "back", "failed"}]
             /\ call'[p] = "failed" /\ \A q \in (Ids \cup {0}) \ {p} : call'[q] = call[q]
             /\ wire' = wire
  BY <1>2, <1>3, <1>6
<1>7. wire'[p] = IF port THEN w ELSE wire[p]
  BY <1>5, <1>6
<1> QED BY <1>3, <1>4, <1>5, <1>6, <1>7 DEF w

\* An accepted status is a status, and so is one that is not accepted.
LEMMA Accepting ==
  ASSUME TypeOK, NEW v \in Snapshots, NEW rev, acceptSSH(v, rev)
  PROVE  ssh' \in Statuses /\ creds' \in Credentials \cup {None}
<1>1. CASE rev = revision
  <2>1. [state |-> v.state, host |-> v.host, port |-> v.port] \in Statuses
    BY DEF Snapshots, HelperStates, Statuses
  <2>2. [gen |-> v.gen, rev |-> rev] \in Credentials
    BY <1>1, Types DEF Snapshots, HelperStates, Credentials
  <2> QED BY <1>1, <2>1, <2>2 DEF acceptSSH
<1>2. CASE rev # revision
  BY <1>2, Types DEF acceptSSH
<1> QED BY <1>1, <1>2

-----------------------------------------------------------------------------
(* The steps of a request.                                                 *)

Procs == Ids \cup {0}

\* What every step of a request does, and what it leaves alone.
Moves(i) ==
  /\ worker = "ready" /\ UNCHANGED <<worker, asked, poll, helperVars, authVars, other>>
  /\ Active(i) \/ (mut[i].pc = "asked" /\ MayRun(i))
  /\ mut' \in [Ids -> Requests] /\ mut'[i].pc \notin {"none", "asked"}
  /\ \A j \in Ids \ {i} : mut'[j] = mut[j]
  /\ call' \in [Procs -> {"idle", "sent", "back", "failed"}]
  /\ got' \in [Procs -> Snapshots \cup {None}]
  /\ wire' \in [Procs -> NativeCalls]
  /\ \A p \in Procs \ {i} : call'[p] = call[p] /\ got'[p] = got[p] /\ wire'[p] = wire[p]
  /\ got'[i] \in {got[i], None}
  /\ call'[i] = "back" => call[i] = "back" /\ got'[i] = got[i]
  /\ mut'[i].pc = "done" => call'[i] = "idle" /\ mut'[i].op = "none" /\ mut'[i].rev = 0
  /\ mut'[i].pc # "done" => mut'[i].op = mut[i].op /\ mut'[i].host = mut[i].host
  /\ by' \in {by, i}
  /\ \/ /\ Active(i) /\ revision' = revision
        /\ mut'[i].pc # "done" => mut'[i].rev = mut[i].rev
     \/ /\ mut[i].pc = "asked" /\ revision' = revision + 1
        /\ mut'[i].pc # "done" => mut'[i].rev = revision + 1
        /\ creds' = None /\ UNCHANGED <<ssh, ours, stored, route>>

\* The cases of a step: a request goes on, with or without its reply, asks the
\* helper for something, or ends.
LEMMA MovesOn ==
  ASSUME TypeOK, NEW i \in Ids, Active(i), worker = "ready", UNCHANGED <<revision, wire>>,
         UNCHANGED <<worker, asked, poll, helperVars, authVars, other>>, by' \in {by, i},
         \/ /\ \E pc \in Pcs \ {"none", "asked", "done"} : Goto(i, pc)
            /\ \/ UNCHANGED <<call, got>>
               \/ call' = [call EXCEPT ![i] = "idle"]
                    /\ (UNCHANGED got \/ got' = [got EXCEPT ![i] = None])
         \/ End(i)
  PROVE  Moves(i)
<1>1. CASE \E pc \in Pcs \ {"none", "asked", "done"} : Goto(i, pc)
  <2>1. PICK pc \in Pcs \ {"none", "asked", "done"} : Goto(i, pc)
    BY <1>1
  <2>2. /\ mut' \in [Ids -> Requests] /\ mut'[i].pc = pc
        /\ mut'[i].op = mut[i].op /\ mut'[i].host = mut[i].host /\ mut'[i].rev = mut[i].rev
        /\ \A j \in Ids \ {i} : mut'[j] = mut[j]
    BY <2>1, Going
  <2>3. CASE UNCHANGED <<call, got>>
    BY <2>2, <2>3, Types DEF Moves, Procs
  <2>4. CASE /\ call' = [call EXCEPT ![i] = "idle"]
             /\ UNCHANGED got \/ got' = [got EXCEPT ![i] = None]
    <3>1. /\ call' \in [Procs -> {"idle", "sent", "back", "failed"}]
          /\ got' \in [Procs -> Snapshots \cup {None}]
          /\ \A p \in Procs \ {i} : call'[p] = call[p] /\ got'[p] = got[p]
          /\ call'[i] = "idle" /\ got'[i] \in {got[i], None}
      BY <2>4, Types DEF Procs
    <3> QED BY <2>2, <3>1, Types DEF Moves, Procs
  <2>5. CASE End(i)
    BY <2>2, <2>5, Ending
  <2> QED BY <2>3, <2>4, <2>5
<1>2. CASE End(i)
  BY <1>2, Ending, Types DEF Moves, Procs
<1> QED BY <1>1, <1>2

LEMMA MovesAsking ==
  ASSUME TypeOK, NEW i \in Ids, Active(i), worker = "ready", UNCHANGED <<revision, got>>,
         UNCHANGED <<worker, asked, poll, helperVars, authVars, other>>, by' \in {by, i},
         NEW pc \in Pcs \ {"none", "asked", "done"}, Goto(i, pc),
         NEW op \in {"status", "connect", "disconnect"},
         NEW h \in Hosts \cup {None}, NEW pt \in Ports \cup {None}, nativeRequest(i, op, h, pt)
  PROVE  Moves(i)
<1>1. i \in Ids \cup {0}
  OBVIOUS
<1>2. /\ mut' \in [Ids -> Requests] /\ mut'[i].pc = pc
      /\ mut'[i].op = mut[i].op /\ mut'[i].host = mut[i].host /\ mut'[i].rev = mut[i].rev
      /\ \A j \in Ids \ {i} : mut'[j] = mut[j]
  BY Going
<1>3. /\ call' \in [Ids \cup {0} -> {"idle", "sent", "back", "failed"}]
      /\ wire' \in [Ids \cup {0} -> NativeCalls]
      /\ call'[i] \in {"sent", "failed"}
      /\ \A q \in (Ids \cup {0}) \ {i} : call'[q] = call[q] /\ wire'[q] = wire[q]
  BY <1>1, Requesting
<1> QED BY <1>2, <1>3, Types DEF Moves, Procs

LEMMA StartMoves ==
  ASSUME TypeOK, NEW i \in Ids, Start(i), \A j \in Ids : mut[j].op = "connect" => mut[j].host \in Hosts
  PROVE  Moves(i)
<1>1. /\ worker = "ready" /\ mut[i].pc = "asked" /\ MayRun(i)
      /\ revision' = revision + 1 /\ creds' = None
      /\ UNCHANGED <<ssh, ours, stored, route, by>>
      /\ UNCHANGED <<worker, asked, poll, helperVars, authVars, other>>
  BY DEF Start, At, chromeVars
<1>2. ASSUME NEW pc \in Pcs \ {"none", "asked", "done"}, Begin(i, pc), UNCHANGED rpcs
      PROVE  Moves(i)
  <2>1. /\ mut' \in [Ids -> Requests] /\ mut'[i].pc = pc
        /\ mut'[i].op = mut[i].op /\ mut'[i].host = mut[i].host /\ mut'[i].rev = revision + 1
        /\ \A j \in Ids \ {i} : mut'[j] = mut[j]
    BY <1>2, Beginning
  <2>2. UNCHANGED <<call, got, wire>>
    BY <1>2 DEF rpcs
  <2> QED BY <1>1, <1>2, <2>1, <2>2, Types DEF Moves, Procs
<1>3. ASSUME NEW pc \in Pcs \ {"none", "asked", "done"}, Begin(i, pc), UNCHANGED got,
             NEW op \in {"status", "disconnect"}, nativeRequest(i, op, None, None)
      PROVE  Moves(i)
  <2>1. /\ mut' \in [Ids -> Requests] /\ mut'[i].pc = pc
        /\ mut'[i].op = mut[i].op /\ mut'[i].host = mut[i].host /\ mut'[i].rev = revision + 1
        /\ \A j \in Ids \ {i} : mut'[j] = mut[j]
    BY <1>3, Beginning
  <2>2. /\ i \in Ids \cup {0} /\ op \in {"status", "connect", "disconnect"}
        /\ None \in Hosts \cup {None} /\ None \in Ports \cup {None}
    OBVIOUS
  <2>3. /\ call' \in [Ids \cup {0} -> {"idle", "sent", "back", "failed"}]
        /\ wire' \in [Ids \cup {0} -> NativeCalls]
        /\ call'[i] \in {"sent", "failed"}
        /\ \A q \in (Ids \cup {0}) \ {i} : call'[q] = call[q] /\ wire'[q] = wire[q]
    BY <1>3, <2>2, Requesting
  <2> QED BY <1>1, <1>3, <2>1, <2>3, Types DEF Moves, Procs
<1>4. ASSUME End(i), UNCHANGED wire PROVE Moves(i)
  BY <1>1, <1>4, Ending, Types DEF Moves, Procs
<1>5. CASE mut[i].op = "off"
  BY <1>2, <1>5 DEF Start, Pcs
<1>6. CASE mut[i].op = "disconnect"
  BY <1>3, <1>6 DEF Start, Pcs
<1>7. CASE mut[i].op \notin {"off", "disconnect"}
  <2>1. CASE mut[i].op = "connect" /\ route # None /\ route.host # mut[i].host
    BY <1>4, <1>7, <2>1 DEF Start
  <2>2. CASE ~(mut[i].op = "connect" /\ route # None /\ route.host # mut[i].host)
    BY <1>3, <1>7, <2>2 DEF Start, Pcs
  <2> QED BY <2>1, <2>2
<1> QED BY <1>5, <1>6, <1>7

\* Every step of a request is one of those.
LEMMA MutationMoves ==
  ASSUME TypeOK, Serial, FromHelper, NEW i \in Ids, Mutation(i)
  PROVE  Moves(i)
<1>1. CASE Start(i)
  BY <1>1, StartMoves DEF FromHelper, OnWire
<1>2. CASE CallFailed(i)
  <2>1. Active(i)
    BY <1>2 DEF CallFailed, Serial
  <2> QED BY <1>2, <2>1, MovesOn DEF CallFailed, chromeVars, memory
<1>3. /\ None \in Hosts \cup {None} /\ None \in Ports \cup {None}
      /\ \A pc \in {"level", "store", "apply", "remove", "migrate", "consent", "clear", "verify",
                    "reply", "old"} : pc \in Pcs \ {"none", "asked", "done"}
  BY DEF Pcs
<1>4. CASE OldHelper(i)
  <2>1. Active(i) /\ UNCHANGED revision
    BY <1>4 DEF OldHelper, Active, memory
  <2> QED BY <1>3, <1>4, <2>1, MovesAsking DEF OldHelper, chromeVars
<1>5. CASE OldHelperMigrates(i)
  <2>1. Active(i) /\ UNCHANGED revision
    BY <1>5 DEF OldHelperMigrates, At, Active, memory
  <2> QED BY <1>5, <2>1, MovesOn DEF OldHelperMigrates, At
<1>6. CASE EnableVerified(i)
  <2>1. Active(i) /\ UNCHANGED revision
    BY <1>6 DEF EnableVerified, Returned, At, Active, memory
  <2> QED BY <1>3, <1>6, <2>1, MovesOn DEF EnableVerified, Returned, At, chromeVars
<1>7. CASE EnableLevel(i)
  <2>1. Active(i) /\ UNCHANGED revision
    BY <1>7 DEF EnableLevel, At, Active, memory
  <2> QED BY <1>3, <1>7, <2>1, MovesOn DEF EnableLevel, At, chromeVars
<1>8. CASE EnableStore(i)
  <2>1. Active(i)
    BY <1>8 DEF EnableStore, At, Active
  <2> QED BY <1>3, <1>8, <2>1, MovesOn DEF EnableStore, At
<1>9. CASE EnableApply(i)
  <2>1. Active(i) /\ UNCHANGED revision
    BY <1>9 DEF EnableApply, At, Active, memory
  <2> QED BY <1>9, <2>1, MovesOn DEF EnableApply, At
<1>10. CASE Clear(i)
  <2>1. Active(i) /\ UNCHANGED revision
    BY <1>10 DEF Clear, At, Active, memory
  <2> QED BY <1>3, <1>10, <2>1, MovesOn DEF Clear, At
<1>11. CASE Remove(i)
  <2>1. Active(i)
    BY <1>11 DEF Remove, At, Active
  <2>2. CASE End(i) /\ UNCHANGED wire
    BY <1>11, <2>1, <2>2, MovesOn DEF Remove, At
  <2>3. CASE Goto(i, "verify") /\ nativeRequest(i, "status", None, None) /\ UNCHANGED got
    BY <1>3, <1>11, <2>1, <2>3, MovesAsking DEF Remove, At
  <2> QED BY <1>11, <2>2, <2>3 DEF Remove
<1>12. CASE ConnectVerified(i)
  <2>1. Active(i) /\ UNCHANGED revision
    BY <1>12 DEF ConnectVerified, Returned, At, Active, memory
  <2> QED BY <1>3, <1>12, <2>1, MovesOn DEF ConnectVerified, Returned, At, chromeVars
<1>13. CASE ConnectSend(i)
  <2>1. Active(i) /\ UNCHANGED <<revision, by>>
    BY <1>13 DEF ConnectSend, At, Active, memory
  <2>2. CASE End(i) /\ UNCHANGED wire
    BY <1>13, <2>1, <2>2, MovesOn DEF ConnectSend, At
  <2>3. CASE /\ Goto(i, "reply") /\ UNCHANGED got
             /\ nativeRequest(i, "connect", mut[i].host, IF route = None THEN None ELSE route.port)
    <3>1. mut[i].host \in Hosts \cup {None}
      BY Types DEF Requests
    <3>2. (IF route = None THEN None ELSE route.port) \in Ports \cup {None}
      BY DEF TypeOK, ChromeTypes, Routes
    <3> DEFINE pt == IF route = None THEN None ELSE route.port
    <3> HIDE DEF pt
    <3>3. pt \in Ports \cup {None} /\ nativeRequest(i, "connect", mut[i].host, pt)
      BY <2>3, <3>2 DEF pt
    <3> QED BY <1>3, <1>13, <2>1, <2>3, <3>1, <3>3, MovesAsking DEF ConnectSend, At
  <2> QED BY <1>13, <2>2, <2>3 DEF ConnectSend
<1>14. CASE ReplyAccepted(i)
  <2>1. Active(i)
    BY <1>14 DEF ReplyAccepted, At, Active
  <2> QED BY <1>14, <2>1, MovesOn DEF ReplyAccepted, At, chromeVars
<1>15. CASE SignInVerified(i)
  <2>1. Active(i)
    BY <1>15 DEF SignInVerified, Returned, At, Active
  <2> QED BY <1>3, <1>15, <2>1, MovesOn DEF SignInVerified, Returned, At, chromeVars
<1>16. CASE SignInConsent(i)
  <2>1. Active(i) /\ worker = "ready"
        /\ UNCHANGED <<revision, by, worker, asked, poll, helperVars, authVars, other>>
    BY <1>16 DEF SignInConsent, At, Active, memory, chromeVars
  <2>2. CASE End(i) /\ UNCHANGED wire
    BY <2>1, <2>2, MovesOn
  <2>3. CASE Goto(i, "clear") /\ UNCHANGED rpcs
    BY <1>3, <2>1, <2>3, MovesOn DEF rpcs
  <2>4. CASE Goto(i, "verify") /\ nativeRequest(i, "status", None, None) /\ UNCHANGED got
    BY <1>3, <2>1, <2>4, MovesAsking
  <2> QED BY <1>16, <2>2, <2>3, <2>4 DEF SignInConsent
<1>17. CASE SignInOpen(i)
  <2>1. Active(i)
    BY <1>17 DEF SignInOpen, Returned, At, Active
  <2> QED BY <1>17, <2>1, MovesOn DEF SignInOpen, Returned, At, chromeVars
<1> QED BY <1>1, <1>2, <1>4, <1>5, <1>6, <1>7, <1>8, <1>9, <1>10, <1>11, <1>12, <1>13, <1>14,
           <1>15, <1>16, <1>17 DEF Mutation

\* A poll changes nothing of the requests; it accepts a status, or shows the
\* helper as gone, in the revision in which it was asked, and may migrate the
\* proxy.
PollCalls ==
  /\ call' \in [Procs -> {"idle", "sent", "back", "failed"}]
  /\ got' \in [Procs -> Snapshots \cup {None}] /\ wire' \in [Procs -> NativeCalls]
  /\ \A i \in Ids : call'[i] = call[i] /\ got'[i] = got[i] /\ wire'[i] = wire[i]
  /\ got'[0] \in {got[0], None} /\ call'[0] # "back"
  /\ wire'[0].op \in {wire[0].op, "status", "disconnect"}
  /\ wire'[0].host \in {wire[0].host, None}
  /\ wire'[0].op # "none" => port \/ wire' = wire
PollShows ==
  \/ UNCHANGED <<ssh, creds>>
  \/ call[0] = "back" /\ got[0] \in Snapshots /\ acceptSSH(got[0], revision)
  \/ creds' = None /\ ssh'.state = "disconnected" /\ ssh' \in Statuses
PollMoves ==
  /\ UNCHANGED <<other, stored, worker, route, revision, mut, helperVars, authVars, asked, by>>
  /\ poll' \in [pc : {"idle", "status", "old"}, rev : Nat]
  /\ UNCHANGED ours \/ (Legacy /\ ours' = Http(route.port))
  /\ PollCalls /\ PollShows

LEMMA PollsMove ==
  ASSUME TypeOK, FromHelper, Polls
  PROVE  PollMoves
<1>1. /\ None \in Hosts \cup {None} /\ None \in Ports \cup {None} /\ 0 \in Procs
      /\ 0 \notin Ids /\ \A i \in Ids : i \in Procs /\ i # 0
  BY DEF Procs, Ids
<1>2. ASSUME EndPoll, UNCHANGED wire
      PROVE  PollCalls /\ poll' \in [pc : {"idle", "status", "old"}, rev : Nat]
  BY <1>1, <1>2, Types DEF EndPoll, Procs, IdlePoll, PollCalls
<1>3. ASSUME NEW op \in {"status", "disconnect"}, nativeRequest(0, op, None, None), UNCHANGED got
      PROVE  PollCalls
  <2>1. op \in {"status", "connect", "disconnect"} /\ 0 \in Ids \cup {0}
    OBVIOUS
  <2>2. /\ call' \in [Ids \cup {0} -> {"idle", "sent", "back", "failed"}]
        /\ wire' \in [Ids \cup {0} -> NativeCalls]
        /\ call'[0] \in {"sent", "failed"}
        /\ wire'[0] = IF port THEN [op |-> op, host |-> None, port |-> None] ELSE wire[0]
        /\ \A q \in (Ids \cup {0}) \ {0} : call'[q] = call[q] /\ wire'[q] = wire[q]
    BY <1>1, <1>3, <2>1, Requesting
  <2>3. ~port => wire' = wire
    BY <1>3 DEF nativeRequest
  <2> QED BY <1>1, <1>3, <2>2, <2>3, Types DEF Procs, PollCalls
<1>4. ASSUME PollErrs PROVE PollShows
  <2> DEFINE gone == [Gone EXCEPT !.host = IF route = None THEN None ELSE route.host]
  <2>1. gone \in Statuses /\ gone.state = "disconnected"
    BY DEF Gone, Statuses, TypeOK, ChromeTypes, Routes
  <2> QED BY <1>4, <2>1 DEF PollErrs, PollShows
<1>5. CASE PollStart
  <2>1. poll' \in [pc : {"idle", "status", "old"}, rev : Nat] /\ PollCalls /\ PollShows
    BY <1>3, <1>5, Types DEF PollStart, memory, PollShows
  <2> QED BY <1>5, <2>1 DEF PollStart, PollMoves, chromeVars, memory
<1>6. CASE PollReply
  <2>1. CASE got[0].legacy
    <3>1. PollCalls /\ PollShows
      BY <1>3, <1>6, <2>1 DEF PollReply, PollShows
    <3>2. poll' \in [pc : {"idle", "status", "old"}, rev : Nat]
      BY <1>6, <2>1, Types DEF PollReply
    <3> QED BY <1>6, <3>1, <3>2 DEF PollReply, PollMoves, chromeVars
  <2>2. CASE ~got[0].legacy
    <3>1. call[0] = "back" /\ got[0] \in Snapshots
      BY <1>1, <1>6, Types DEF PollReply, FromHelper, Replies, Procs
    <3>2. UNCHANGED <<ssh, creds>> \/ acceptSSH(got[0], revision)
      BY <1>6, <2>2 DEF PollReply, acceptSSH
    <3>3. PollCalls /\ PollShows /\ poll' \in [pc : {"idle", "status", "old"}, rev : Nat]
      BY <1>2, <1>6, <2>2, <3>1, <3>2 DEF PollReply, PollShows
    <3> QED BY <1>6, <3>3 DEF PollReply, PollMoves, chromeVars
  <2> QED BY <2>1, <2>2
<1>7. CASE PollOldHelper
  <2>1. UNCHANGED ours \/ (Legacy /\ ours' = Http(route.port))
    BY <1>7 DEF PollOldHelper, Migrated
  <2>2. PollCalls /\ PollShows /\ poll' \in [pc : {"idle", "status", "old"}, rev : Nat]
    BY <1>2, <1>4, <1>7 DEF PollOldHelper
  <2> QED BY <1>7, <2>1, <2>2 DEF PollOldHelper, PollMoves
<1>8. CASE PollFails
  <2>1. PollCalls /\ PollShows /\ poll' \in [pc : {"idle", "status", "old"}, rev : Nat]
    BY <1>2, <1>4, <1>8 DEF PollFails
  <2> QED BY <1>8, <2>1 DEF PollFails, PollMoves, chromeVars
<1> QED BY <1>5, <1>6, <1>7, <1>8 DEF Polls

\* A user's request is the next one.
Asks ==
  /\ UNCHANGED <<chromeVars, worker, memory, poll, rpcs, helperVars, authVars, by>>
  /\ asked + 1 \in Ids /\ asked' = asked + 1 /\ worker # "dead"
  /\ mut' \in [Ids -> Requests]
  /\ \A j \in Ids \ {asked + 1} : mut'[j] = mut[j]
  /\ mut'[asked + 1].pc = "asked" /\ mut'[asked + 1].rev = 0
  /\ mut'[asked + 1].op = "connect" => mut'[asked + 1].host \in Hosts

LEMMA UsersAsk ==
  ASSUME TypeOK, UserAsks
  PROVE  Asks
<1>1. asked \in Nat /\ asked <= MaxRequests /\ sids \in 0..MaxSessions
  BY BoundAssumption DEF TypeOK, WorkerTypes, HelperTypes
<1>2. ASSUME NEW op, NEW h \in Hosts \cup {None}, NEW s \in 0..MaxSessions, NEW b \in BOOLEAN,
             op = "connect" => h \in Hosts, Ask(op, h, s, b)
      PROVE  Asks
  <2> DEFINE new == [op |-> op, host |-> h, sid |-> s, turnOff |-> b, pc |-> "asked", rev |-> 0]
  <2>1. /\ op \in Ops /\ worker # "dead" /\ asked < MaxRequests /\ asked' = asked + 1
        /\ mut' = [mut EXCEPT ![asked + 1] = new]
        /\ UNCHANGED <<chromeVars, worker, memory, poll, rpcs, helperVars, authVars, by>>
    BY <1>2 DEF Ask
  <2>2. asked + 1 \in Ids
    BY <1>1, <2>1, BoundAssumption DEF Ids
  <2>3. new \in Requests
    BY <1>2, <2>1 DEF Requests, Pcs
  <2>4. new.pc = "asked" /\ new.rev = 0 /\ (new.op = "connect" => new.host \in Hosts)
    BY <1>2
  <2> HIDE DEF new
  <2> QED BY <2>1, <2>2, <2>3, <2>4, Types DEF Asks
<1>3. 0 \in 0..MaxSessions /\ \A s \in 1..sids : s \in 0..MaxSessions
  BY <1>1, BoundAssumption
<1>4. CASE \E op \in {"off", "disconnect"} : Ask(op, None, 0, FALSE)
  BY <1>2, <1>3, <1>4
<1>5. CASE \E h \in Hosts : Ask("connect", h, 0, FALSE)
  BY <1>2, <1>3, <1>5
<1>6. CASE \E s \in 1..sids : Ask("on", None, s, FALSE) \/ \E b \in BOOLEAN : Ask("signin", None, s, b)
  BY <1>2, <1>3, <1>6
<1> QED BY <1>4, <1>5, <1>6 DEF UserAsks

\* The helper serves a request: a request that still waits has its state.
Serves(p) ==
  /\ port /\ UNCHANGED <<chromeVars, worker, memory, mut, poll, port, authVars, asked, by>>
  /\ helper' \in HelperStates(0..MaxHelpers) /\ helper' \in Snapshots
  /\ helper'.gen = helper.gen /\ helper'.legacy = helper.legacy /\ OfSession(helper')
  /\ wire' = [wire EXCEPT ![p] = NoCall]
  /\ sids' \in 0..MaxSessions
  /\ \/ UNCHANGED <<call, got>>
     \/ /\ call[p] = "sent" /\ call' = [call EXCEPT ![p] = "back"]
        /\ got' = [got EXCEPT ![p] = helper']
     \/ /\ call[p] = "sent" /\ call' = [call EXCEPT ![p] = "failed"]
        /\ got' = [got EXCEPT ![p] = None]

LEMMA HelperServes ==
  ASSUME TypeOK, FromHelper, NEW p \in Procs, ServeStatus(p) \/ ServeDisconnect(p) \/ ServeConnect(p)
  PROVE  Serves(p)
<1>1. ASSUME NEW after \in HelperStates(0..MaxHelpers), NEW ok \in BOOLEAN, Serve(p, after, ok),
             after.gen = helper.gen, after.legacy = helper.legacy, OfSession(after),
             sids' \in 0..MaxSessions
      PROVE  Serves(p)
  <2>1. /\ port /\ helper' = after /\ wire' = [wire EXCEPT ![p] = NoCall]
        /\ UNCHANGED <<chromeVars, worker, memory, mut, poll, port, authVars, asked, by>>
    BY <1>1 DEF Serve
  <2>2. \/ UNCHANGED <<call, got>>
        \/ /\ call[p] = "sent" /\ call' = [call EXCEPT ![p] = "back"]
           /\ got' = [got EXCEPT ![p] = helper']
        \/ /\ call[p] = "sent" /\ call' = [call EXCEPT ![p] = "failed"]
           /\ got' = [got EXCEPT ![p] = None]
    BY <1>1, <2>1 DEF Serve
  <2>3. OfSession(helper')
    BY <1>1, <2>1
  <2>4. helper' \in Snapshots
    BY <1>1, <2>1, Types DEF FromHelper, Replies, HelperStates, Snapshots
  <2> QED BY <1>1, <2>1, <2>2, <2>3, <2>4 DEF Serves
<1>2. helper \in HelperStates(0..MaxHelpers) /\ OfSession(helper) /\ sids \in 0..MaxSessions
  BY DEF TypeOK, HelperTypes, FromHelper, Replies
<1>3. CASE ServeStatus(p)
  BY <1>1, <1>2, <1>3 DEF ServeStatus
<1>4. CASE ServeDisconnect(p)
  <2> DEFINE after == [helper EXCEPT !.state = "disconnected", !.sid = 0, !.link = FALSE]
  <2> 0 \in 0..MaxSessions
    BY BoundAssumption
  <2>1. /\ after \in HelperStates(0..MaxHelpers) /\ after.gen = helper.gen
        /\ after.legacy = helper.legacy /\ after.state = "disconnected"
    BY <1>2 DEF HelperStates
  <2>2. Serve(p, after, TRUE) /\ UNCHANGED sids
    BY <1>4 DEF ServeDisconnect
  <2> HIDE DEF after
  <2>3. OfSession(after)
    BY <2>1 DEF OfSession
  <2> QED BY <1>1, <1>2, <2>1, <2>2, <2>3
<1>5. CASE ServeConnect(p)
  <2>1. wire[p].host \in Hosts
    BY <1>5 DEF ServeConnect, FromHelper, OnWire, Procs
  <2>2. CASE \E ok \in BOOLEAN : Serve(p, helper, ok) /\ UNCHANGED sids
    BY <1>1, <1>2, <2>2
  <2>3. ASSUME NEW q \in Ports, sids < MaxSessions, sids' = sids + 1,
               Serve(p, [helper EXCEPT !.state = "connecting", !.host = wire[p].host,
                                       !.port = q, !.sid = sids + 1, !.link = FALSE], TRUE)
        PROVE  Serves(p)
    <3> DEFINE after == [helper EXCEPT !.state = "connecting", !.host = wire[p].host,
                                       !.port = q, !.sid = sids + 1, !.link = FALSE]
    <3>1. sids + 1 \in 0..MaxSessions
      BY <1>2, <2>3, BoundAssumption
    <3>2. /\ after \in HelperStates(0..MaxHelpers) /\ after.gen = helper.gen
          /\ after.legacy = helper.legacy /\ after.host = wire[p].host /\ after.port = q
      BY <1>2, <2>1, <2>3, <3>1 DEF HelperStates
    <3> HIDE DEF after
    <3>3. OfSession(after)
      BY <2>1, <2>3, <3>2 DEF OfSession
    <3>4. Serve(p, after, TRUE)
      BY <2>3 DEF after
    <3> QED BY <1>1, <2>3, <3>1, <3>2, <3>3, <3>4
  <2> QED BY <1>5, <2>2, <2>3 DEF ServeConnect
<1> QED BY <1>3, <1>4, <1>5

\* The session of the helper moves on, and keeps its host and port.
LEMMA HelperMoving ==
  ASSUME TypeOK, FromHelper, HelperMoves
  PROVE  /\ helper' \in HelperStates(0..MaxHelpers) /\ helper'.gen = helper.gen
         /\ helper'.legacy = helper.legacy /\ OfSession(helper')
<1>1. helper \in HelperStates(0..MaxHelpers) /\ OfSession(helper)
  BY DEF TypeOK, HelperTypes, FromHelper, Replies
<1>2. helper.state # "disconnected" /\
      \/ helper' = [helper EXCEPT !.state = "connected", !.link = FALSE]
      \/ helper' = [helper EXCEPT !.link = TRUE]
      \/ helper' = [helper EXCEPT !.state = "disconnected", !.link = FALSE]
      \/ helper' = [helper EXCEPT !.state = "connecting"]
  BY DEF HelperMoves
<1> QED BY <1>1, <1>2 DEF HelperStates, OfSession

-----------------------------------------------------------------------------
(* The parts of the invariant, under every step.                           *)

\* A worker that dies forgets everything but the numbers of its requests.
LEMMA Forgetting ==
  ASSUME TypeOK, WorkerDies
  PROVE  /\ worker' = "dead" /\ UNCHANGED <<chromeVars, helper, sids, asked, by>>
         /\ route' = None /\ ssh' \in Statuses /\ ssh'.state = "disconnected"
         /\ revision' = 0 /\ creds' = None
         /\ poll' \in [pc : {"idle", "status", "old"}, rev : Nat]
         /\ mut' \in [Ids -> Requests]
         /\ \A i \in Ids : /\ mut'[i].pc = IF i <= asked THEN "done" ELSE "none"
                          /\ mut'[i].op = "none" /\ mut'[i].rev = 0
         /\ call' \in [Procs -> {"idle", "sent", "back", "failed"}]
         /\ got' \in [Procs -> Snapshots \cup {None}] /\ wire' \in [Procs -> NativeCalls]
         /\ \A p \in Procs : call'[p] = "idle" /\ got'[p] = None /\ wire'[p].op = "none"
         /\ attempts' = {} /\ auth' \in [Challenges -> AuthStates]
         /\ given' = [r \in Challenges |-> 0] /\ port' = FALSE
<1>1. Gone \in Statuses /\ Gone.state = "disconnected" /\ NoCall \in NativeCalls /\ NoCall.op = "none"
  BY DEF Gone, Statuses, NoCall, NativeCalls
<1>2. IdleAuth \in AuthStates
  BY BoundAssumption DEF IdleAuth, AuthStates
<1>3. IdlePoll \in [pc : {"idle", "status", "old"}, rev : Nat]
  BY DEF IdlePoll
<1>4. NoRequest.op = "none" /\ NoRequest.rev = 0
  BY DEF NoRequest
<1>5. Forget /\ worker' = "dead" /\ UNCHANGED <<chromeVars, helper, sids, asked, by>>
  BY DEF WorkerDies
<1>6. /\ mut' \in [Ids -> Requests]
      /\ \A i \in Ids : /\ mut'[i].pc = IF i <= asked THEN "done" ELSE "none"
                        /\ mut'[i].op = "none" /\ mut'[i].rev = 0
  <2> DEFINE done == [NoRequest EXCEPT !.pc = "done"]
  <2>1. mut' = [i \in Ids |-> IF i <= asked THEN done ELSE NoRequest]
    BY <1>5 DEF Forget
  <2>2. /\ done \in Requests /\ NoRequest \in Requests /\ NoRequest.pc = "none"
        /\ done.pc = "done" /\ done.op = "none" /\ done.rev = 0
    BY NoRequestTypes
  <2> HIDE DEF done
  <2> QED BY <1>4, <2>1, <2>2
<1> QED BY <1>1, <1>2, <1>3, <1>5, <1>6 DEF Forget, Procs

\* Requests stay in their order.
LEMMA SerialKept == TypeOK /\ Serial /\ FromHelper /\ [Next]_vars => Serial'
<1> SUFFICES ASSUME TypeOK, Serial, FromHelper, [Next]_vars PROVE Serial'
  OBVIOUS
<1>1. /\ \A i \in Ids : Started(i) => \A j \in 1..i-1 : mut[j].pc = "done"
      /\ \A i \in Ids : Active(i) => worker = "ready"
      /\ \A i \in Ids : mut[i].pc = "none" <=> i > asked
      /\ \A i \in Ids : call[i] # "idle" => Active(i)
      /\ \A i \in Ids : mut[i].pc # "done" => by <= i
  BY DEF Serial
<1>2. asked \in Nat /\ by \in Nat /\ by <= asked /\ \A i \in Ids : i \in Nat \ {0} /\ \A j \in 1..i-1 : j \in Ids
  BY BoundAssumption DEF TypeOK, WorkerTypes, Ids
<1>3. ASSUME \A i \in Ids : mut'[i].pc = mut[i].pc /\ (call'[i] # "idle" => call[i] # "idle"),
             UNCHANGED <<asked, by>>, worker' = worker \/ worker # "ready"
      PROVE  Serial'
  BY <1>1, <1>2, <1>3 DEF Serial, Started, Active
<1>4. ASSUME NEW i \in Ids, Mutation(i) PROVE Serial'
  <2>1. Moves(i)
    BY <1>4, MutationMoves
  <2>2. /\ Active(i) \/ (mut[i].pc = "asked" /\ MayRun(i))
        /\ mut'[i].pc \notin {"none", "asked"} /\ \A j \in Ids \ {i} : mut'[j] = mut[j]
        /\ worker = "ready" /\ UNCHANGED <<worker, asked>> /\ by' \in {by, i}
        /\ \A p \in Ids \ {i} : call'[p] = call[p]
        /\ mut'[i].pc = "done" => call'[i] = "idle"
    BY <2>1 DEF Moves, Procs
  <2>3. \A j \in 1..i-1 : mut[j].pc = "done"
    BY <1>1, <2>2 DEF Started, Active, MayRun
  <2>4. \A j \in Ids : j > i => ~Started(j)
    BY <1>1, <1>2, <2>2 DEF Started, Active
  <2>5. \A j \in Ids : Started(j)' => \A k \in 1..j-1 : mut'[k].pc = "done"
    <3>1. \A j \in Ids : j < i => Started(j)
      BY <1>2, <2>3 DEF Started
    <3> QED BY <1>1, <1>2, <2>2, <2>3, <2>4, <3>1 DEF Started
  <2>6. \A j \in Ids : mut'[j].pc # "done" => j >= i
    BY <1>2, <2>2, <2>3
  <2>7. \A j \in Ids : mut'[j].pc # "done" => by' <= j
    BY <1>1, <1>2, <2>2, <2>6 DEF Active
  <2>8. \A j \in Ids : mut'[j].pc = "none" <=> j > asked'
    BY <1>1, <1>2, <2>2 DEF Active
  <2>9. \A j \in Ids : call'[j] # "idle" => Active(j)'
    BY <1>1, <2>2 DEF Active
  <2> QED BY <2>2, <2>5, <2>7, <2>8, <2>9 DEF Serial
<1>5. CASE UserAsks
  <2>1. Asks
    BY <1>5, UsersAsk
  <2>2. /\ asked + 1 \in Ids /\ asked' = asked + 1 /\ \A j \in Ids \ {asked + 1} : mut'[j] = mut[j]
        /\ mut'[asked + 1].pc = "asked" /\ UNCHANGED <<call, worker, by>>
    BY <2>1 DEF Asks, rpcs
  <2>3. mut[asked + 1].pc = "none"
    BY <1>1, <1>2, <2>2
  <2>4. \A j \in Ids : (Started(j)' <=> Started(j)) /\ (Active(j)' <=> Active(j))
    BY <2>2, <2>3 DEF Started, Active
  <2>5. \A j \in Ids : mut'[j].pc = "done" <=> mut[j].pc = "done"
    BY <2>2, <2>3
  <2>6. \A j \in Ids : mut'[j].pc = "none" <=> j > asked'
    BY <1>1, <1>2, <2>2
  <2> QED BY <1>1, <1>2, <2>2, <2>4, <2>5, <2>6 DEF Serial
<1>6. CASE Polls
  <2>1. PollMoves
    BY <1>6, PollsMove
  <2> QED BY <1>3, <2>1 DEF PollMoves, PollCalls
<1>7. CASE \E r \in Challenges : Auth(r)
  BY <1>3, <1>7 DEF Auth, Challenge, AuthReady, AuthSettings, Completed, rpcs
<1>8. CASE Environment
  <2>1. CASE Ready \/ WorkerStarts \/ (\E b \in HelperKinds : PortOpens(b)) \/ OtherControl \/ HelperMoves
    BY <1>3, <2>1 DEF Ready, WorkerStarts, PortOpens, OtherControl, HelperMoves, rpcs
  <2>2. CASE WorkerDies
    <3>1. /\ \A i \in Ids : mut'[i].pc = IF i <= asked THEN "done" ELSE "none"
          /\ \A p \in Ids : call'[p] = "idle"
          /\ UNCHANGED <<asked, by>>
      BY <2>2, Forgetting DEF Procs
    <3> QED BY <1>1, <1>2, <3>1 DEF Serial, Started, Active
  <2>3. CASE networkDisconnected
    BY <1>3, <2>3 DEF networkDisconnected, Procs
  <2>4. ASSUME NEW p \in Ids \cup {0}, Timeout(p) PROVE Serial'
    BY <1>3, <2>4, Types DEF Timeout
  <2>5. ASSUME NEW p \in Ids \cup {0}, ServeStatus(p) \/ ServeDisconnect(p) \/ ServeConnect(p)
        PROVE  Serial'
    <3>1. Serves(p)
      BY <2>5, HelperServes DEF Procs
    <3>2. \A q \in Ids : call'[q] # "idle" => call[q] # "idle"
      BY <3>1, Types DEF Serves
    <3> QED BY <1>3, <3>1, <3>2 DEF Serves
  <2> QED BY <1>8, <2>1, <2>2, <2>3, <2>4, <2>5 DEF Environment
<1>9. CASE UNCHANGED vars
  BY <1>3, <1>9 DEF vars, rpcs
<1> QED BY <1>4, <1>5, <1>6, <1>7, <1>8, <1>9 DEF Next

\* What the steps of a request do to the proxy and the route.
Routing(i) ==
  \/ UNCHANGED <<ours, stored, route>>
  \/ /\ mut[i].pc = "store" /\ UNCHANGED ours
     /\ stored' = RouteOf(got[i]) /\ route' = RouteOf(got[i])
  \/ /\ mut[i].pc \in {"apply", "clear"} /\ mut'[i].pc # mut[i].pc /\ UNCHANGED <<stored, route>>
     /\ ours' = IF mut[i].pc = "apply" THEN Http(route.port) ELSE None
  \/ mut[i].pc = "remove" /\ UNCHANGED ours /\ stored' = None /\ route' = None
  \/ Legacy /\ UNCHANGED <<stored, route>> /\ ours' = Http(route.port)

\* What they do to the status that is shown.
Showing(i) ==
  \/ UNCHANGED <<ssh, creds>>
  \/ creds' = None /\ UNCHANGED ssh
  \/ /\ call[i] = "back" \/ mut[i].pc = "store"
     /\ acceptSSH(got[i], mut[i].rev) /\ UNCHANGED revision

\* What must be so for a request to go on.
Reaching(i) ==
  /\ mut'[i].pc = "apply" => mut[i].pc = "store" /\ route' = RouteOf(got[i])
  /\ mut'[i].pc = "remove" => ours' = None
  /\ mut'[i].pc = "clear" => mut'[i].op = "off" \/ mut'[i].turnOff
  /\ mut'[i].pc = "verify" => route' = None
  /\ mut'[i].pc = "level" => /\ call[i] = "back" /\ call'[i] = "idle" /\ got'[i] = got[i]
                             /\ got[i].state = "connected"
  /\ mut'[i].pc = "store" => /\ mut[i].pc = "level" /\ call'[i] = call[i] /\ got'[i] = got[i]
  /\ mut'[i].pc = "migrate" => call[i] = "back" /\ ~got[i].legacy /\ mut[i].op = "connect"
  /\ \/ wire'[i] = wire[i]
     \/ /\ port
        /\ wire'[i].op = "connect" => /\ mut[i].pc = "migrate" /\ mut[i].rev = revision
                                      /\ wire'[i].host = mut[i].host

LEMMA MutationEffects ==
  ASSUME TypeOK, NEW i \in Ids, Mutation(i)
  PROVE  Routing(i) /\ Showing(i) /\ Reaching(i)
<1>1. ASSUME End(i), wire'[i] = wire[i] PROVE Reaching(i) /\ mut'[i].pc = "done"
  BY <1>1, Ending DEF Reaching
<1>2. ASSUME UNCHANGED <<ours, stored, route, ssh, creds>> PROVE Routing(i) /\ Showing(i)
  BY <1>2 DEF Routing, Showing
<1>3. CASE Start(i)
  <2>1. UNCHANGED <<ours, stored, route, ssh>> /\ creds' = None
    BY <1>3 DEF Start, chromeVars
  <2>2. ASSUME NEW pc \in {"clear", "reply", "status"}, Begin(i, pc),
               pc = "clear" => mut[i].op = "off",
               \/ wire'[i] = wire[i]
               \/ port /\ wire'[i].op \in {"status", "disconnect"}
        PROVE  Reaching(i)
    <3>1. mut'[i].pc = pc /\ mut'[i].op = mut[i].op
      BY <2>2, Beginning DEF Pcs
    <3> QED BY <2>2, <3>1 DEF Reaching
  <2>3. ASSUME NEW op \in {"status", "disconnect"}, nativeRequest(i, op, None, None)
        PROVE  wire'[i] = wire[i] \/ (port /\ wire'[i].op \in {"status", "disconnect"})
    BY <2>3, Types DEF nativeRequest
  <2>4. Reaching(i)
    <3>1. CASE mut[i].op = "off"
      BY <1>3, <2>2, <3>1 DEF Start, rpcs
    <3>2. CASE mut[i].op = "disconnect"
      BY <1>3, <2>2, <2>3, <3>2 DEF Start
    <3>3. CASE mut[i].op = "connect" /\ route # None /\ route.host # mut[i].host
      BY <1>1, <1>3, <3>3 DEF Start
    <3>4. CASE /\ mut[i].op \notin {"off", "disconnect"}
               /\ ~(mut[i].op = "connect" /\ route # None /\ route.host # mut[i].host)
      BY <1>3, <2>2, <2>3, <3>4 DEF Start
    <3> QED BY <3>1, <3>2, <3>3, <3>4
  <2> QED BY <2>1, <2>4 DEF Routing, Showing
<1>4. CASE CallFailed(i)
  BY <1>1, <1>2, <1>4 DEF CallFailed, chromeVars, memory
<1>5. ASSUME NEW pc \in {"old", "verify"}, Goto(i, pc), pc = "verify" => route' = None,
             NEW op \in {"status", "disconnect"}, nativeRequest(i, op, None, None)
      PROVE  Reaching(i)
  <2>1. mut'[i].pc = pc
    BY <1>5, Going DEF Pcs
  <2>2. wire'[i] = wire[i] \/ (port /\ wire'[i].op = op)
    BY <1>5, Types DEF nativeRequest
  <2> QED BY <1>5, <2>1, <2>2 DEF Reaching
<1>6. CASE OldHelper(i)
  BY <1>2, <1>5, <1>6 DEF OldHelper, chromeVars, memory
<1>7. CASE OldHelperMigrates(i)
  <2>1. UNCHANGED <<stored, route, ssh, creds>> /\ (UNCHANGED ours \/ (Legacy /\ ours' = Http(route.port)))
    BY <1>7 DEF OldHelperMigrates, Migrated, memory
  <2> QED BY <1>1, <1>7, <2>1 DEF OldHelperMigrates, Routing, Showing
<1>8. CASE EnableVerified(i)
  <2>1. CASE End(i)
    BY <1>1, <1>2, <1>8, <2>1 DEF EnableVerified, chromeVars, memory
  <2>2. CASE ~End(i)
    <3>1. /\ Goto(i, "level") /\ call[i] = "back" /\ got[i].state = "connected"
          /\ call' = [call EXCEPT ![i] = "idle"] /\ UNCHANGED <<got, wire>>
      BY <1>8, <2>2 DEF EnableVerified, Returned
    <3>2. mut'[i].pc = "level" /\ call'[i] = "idle"
      BY <3>1, Going, Types DEF Pcs
    <3>3. Reaching(i)
      BY <3>1, <3>2 DEF Reaching
    <3> QED BY <1>2, <1>8, <3>3 DEF EnableVerified, chromeVars, memory
  <2> QED BY <2>1, <2>2
<1>9. CASE EnableLevel(i)
  <2>1. CASE End(i)
    BY <1>1, <1>2, <1>9, <2>1 DEF EnableLevel, chromeVars, memory
  <2>2. CASE ~End(i)
    <3>1. Goto(i, "store") /\ UNCHANGED <<call, got, wire>> /\ mut[i].pc = "level"
      BY <1>9, <2>2 DEF EnableLevel, At
    <3>2. mut'[i].pc = "store"
      BY <3>1, Going DEF Pcs
    <3>3. Reaching(i)
      BY <3>1, <3>2 DEF Reaching
    <3> QED BY <1>2, <1>9, <3>3 DEF EnableLevel, chromeVars, memory
  <2> QED BY <2>1, <2>2
<1>10. CASE EnableStore(i)
  <2>1. mut[i].pc = "store" /\ UNCHANGED <<ours, revision, wire>>
    BY <1>10 DEF EnableStore, At
  <2>2. CASE UNCHANGED <<stored, route, ssh, creds>>
    <3>1. CASE End(i)
      BY <1>1, <1>2, <2>1, <2>2, <3>1
    <3>2. CASE ~End(i)
      <4>1. Goto(i, "apply") /\ route' = RouteOf(got[i])
        BY <1>10, <3>2 DEF EnableStore
      <4>2. mut'[i].pc = "apply"
        BY <4>1, Going DEF Pcs
      <4> QED BY <1>2, <2>1, <2>2, <4>1, <4>2 DEF Reaching
    <3> QED BY <3>1, <3>2
  <2>3. CASE ~UNCHANGED <<stored, route, ssh, creds>>
    <3>1. /\ stored' = RouteOf(got[i]) /\ route' = RouteOf(got[i])
          /\ acceptSSH(got[i], mut[i].rev) /\ (Goto(i, "apply") \/ End(i))
      BY <1>10, <2>3 DEF EnableStore
    <3>2. mut'[i].pc \in {"apply", "done"}
      BY <3>1, Going, Ending DEF Pcs
    <3> QED BY <2>1, <3>1, <3>2 DEF Routing, Showing, Reaching
  <2> QED BY <2>2, <2>3
<1>11. CASE EnableApply(i)
  <2>1. mut[i].pc = "apply" /\ End(i) /\ UNCHANGED <<stored, route, ssh, creds, wire>>
    BY <1>11 DEF EnableApply, At, memory
  <2>2. UNCHANGED ours \/ ours' = Http(route.port)
    BY <1>11 DEF EnableApply
  <2> QED BY <1>1, <2>1, <2>2 DEF Routing, Showing
<1>12. CASE Clear(i)
  <2>1. mut[i].pc = "clear" /\ UNCHANGED <<stored, route, ssh, creds, wire>>
    BY <1>12 DEF Clear, At, memory
  <2>2. CASE End(i) /\ UNCHANGED ours
    BY <1>1, <2>1, <2>2 DEF Routing, Showing
  <2>3. CASE ours' = None /\ Goto(i, "remove")
    <3>1. mut'[i].pc = "remove"
      BY <2>3, Going DEF Pcs
    <3> QED BY <2>1, <2>3, <3>1 DEF Routing, Showing, Reaching
  <2> QED BY <1>12, <2>2, <2>3 DEF Clear
<1>13. CASE Remove(i)
  <2>1. mut[i].pc = "remove" /\ UNCHANGED <<ours, ssh, creds>>
    BY <1>13 DEF Remove, At
  <2>2. CASE UNCHANGED <<stored, route, wire>> /\ End(i)
    BY <1>1, <1>2, <2>1, <2>2
  <2>3. CASE stored' = None /\ route' = None /\ End(i) /\ UNCHANGED wire
    BY <1>1, <2>1, <2>3 DEF Routing, Showing
  <2>4. CASE stored' = None /\ route' = None /\ Goto(i, "verify") /\ nativeRequest(i, "status", None, None)
    BY <1>5, <2>1, <2>4 DEF Routing, Showing
  <2> QED BY <1>13, <2>2, <2>3, <2>4 DEF Remove
<1>14. CASE ConnectVerified(i)
  <2>1. /\ Goto(i, "migrate") /\ call[i] = "back" /\ ~got[i].legacy /\ mut[i].op = "connect"
        /\ UNCHANGED wire
    BY <1>14 DEF ConnectVerified, Returned
  <2>2. mut'[i].pc = "migrate"
    BY <2>1, Going DEF Pcs
  <2> QED BY <1>2, <1>14, <2>1, <2>2 DEF ConnectVerified, chromeVars, memory, Reaching
<1>15. CASE ConnectSend(i)
  <2>1. /\ mut[i].pc = "migrate" /\ UNCHANGED <<stored, route, ssh, creds>>
        /\ UNCHANGED ours \/ (Legacy /\ ours' = Http(route.port))
    BY <1>15 DEF ConnectSend, At, Migrated, memory
  <2>2. CASE End(i) /\ UNCHANGED wire
    BY <1>1, <2>1, <2>2 DEF Routing, Showing
  <2>3. CASE ~(End(i) /\ UNCHANGED wire)
    <3> DEFINE pt == IF route = None THEN None ELSE route.port
    <3> HIDE DEF pt
    <3>1. Goto(i, "reply") /\ nativeRequest(i, "connect", mut[i].host, pt) /\ mut[i].rev = revision
      BY <1>15, <2>3 DEF ConnectSend, pt
    <3>2. mut'[i].pc = "reply"
      BY <3>1, Going DEF Pcs
    <3>3. wire'[i] = wire[i] \/ (port /\ wire'[i].host = mut[i].host)
      BY <3>1, Types DEF nativeRequest
    <3> QED BY <2>1, <3>1, <3>2, <3>3 DEF Routing, Showing, Reaching
  <2> QED BY <2>2, <2>3
<1>16. CASE ReplyAccepted(i)
  <2>1. /\ End(i) /\ call[i] = "back" /\ UNCHANGED <<ours, stored, route, revision, wire>>
        /\ UNCHANGED <<ssh, creds>> \/ acceptSSH(got[i], mut[i].rev)
    BY <1>16 DEF ReplyAccepted, chromeVars
  <2> QED BY <1>1, <2>1 DEF Routing, Showing
<1>17. CASE SignInVerified(i)
  <2>1. /\ call[i] = "back" /\ UNCHANGED <<ours, stored, route, revision, wire>>
        /\ UNCHANGED <<ssh, creds>> \/ acceptSSH(got[i], mut[i].rev)
        /\ End(i) \/ Goto(i, "consent")
    BY <1>17 DEF SignInVerified, Returned, chromeVars
  <2>2. mut'[i].pc \in {"done", "consent"}
    BY <2>1, Going, Ending DEF Pcs
  <2> QED BY <2>1, <2>2 DEF Routing, Showing, Reaching
<1>18. CASE SignInConsent(i)
  <2>1. UNCHANGED <<ours, stored, route, ssh, creds>>
    BY <1>18 DEF SignInConsent, chromeVars, memory
  <2>2. CASE End(i) /\ UNCHANGED wire
    BY <1>1, <1>2, <2>1, <2>2
  <2>3. CASE ~(End(i) /\ UNCHANGED wire) /\ (route # None \/ (ours # None /\ ~other))
    <3>1. Goto(i, "clear") /\ mut[i].turnOff /\ UNCHANGED wire
      BY <1>18, <2>3 DEF SignInConsent, rpcs
    <3>2. mut'[i].pc = "clear" /\ mut'[i].turnOff = mut[i].turnOff
      BY <3>1, Going DEF Pcs
    <3> QED BY <1>2, <2>1, <3>1, <3>2 DEF Reaching
  <2>4. CASE ~(route # None \/ (ours # None /\ ~other))
    <3>1. Goto(i, "verify") /\ nativeRequest(i, "status", None, None)
      BY <1>18, <2>4 DEF SignInConsent
    <3> QED BY <1>2, <1>5, <2>1, <2>4, <3>1
  <2> QED BY <2>2, <2>3, <2>4
<1>19. CASE SignInOpen(i)
  <2>1. /\ End(i) /\ call[i] = "back" /\ UNCHANGED <<ours, stored, route, revision, wire>>
        /\ UNCHANGED <<ssh, creds>> \/ acceptSSH(got[i], mut[i].rev)
    BY <1>19 DEF SignInOpen, Returned, chromeVars
  <2> QED BY <1>1, <2>1 DEF Routing, Showing
<1> QED BY <1>3, <1>4, <1>6, <1>7, <1>8, <1>9, <1>10, <1>11, <1>12, <1>13, <1>14,
           <1>15, <1>16, <1>17, <1>18, <1>19 DEF Mutation

\* A request that takes a step is the only one that runs.
LEMMA OnlyOne ==
  ASSUME TypeOK, Serial, NEW i \in Ids, Moves(i)
  PROVE  \A j \in Ids \ {i} : ~Active(j) /\ ~Active(j)'
<1>1. i \in Nat \ {0} /\ \A j \in Ids : j \in Nat \ {0}
  BY Types
<1>2. Active(i) \/ (mut[i].pc = "asked" /\ MayRun(i))
  BY DEF Moves
<1>3. ASSUME NEW j \in Ids \ {i}, Active(j) PROVE FALSE
  <2>1. CASE j < i
    <3>1. j \in 1..i-1
      BY <1>1, <2>1
    <3> QED BY <1>2, <1>3, <3>1 DEF Serial, Started, Active, MayRun
  <2>2. CASE i < j
    <3>1. i \in 1..j-1
      BY <1>1, <2>2
    <3> QED BY <1>2, <1>3, <3>1 DEF Serial, Started, Active
  <2> QED BY <1>1, <2>1, <2>2
<1> QED BY <1>3 DEF Moves, Active

\* A session that is connected has a route.
LEMMA SessionRoute ==
  ASSUME NEW v, v.state = "connected", OfSession(v)
  PROVE  RouteOf(v) \in Routes /\ RouteOf(v) # None
BY NoneAssumption DEF OfSession, RouteOf, Routes

LEMMA RouteKept ==
  TypeOK /\ Serial /\ Prepared /\ FromHelper /\ ActiveProxyIsStored /\ [Next]_vars
    => Prepared' /\ ActiveProxyIsStored' /\ ChromeTypes'
<1> SUFFICES ASSUME TypeOK, Serial, Prepared, FromHelper, ActiveProxyIsStored, [Next]_vars
             PROVE  Prepared' /\ ActiveProxyIsStored' /\ ChromeTypes'
  OBVIOUS
<1>1. /\ ours \in Proxies /\ other \in BOOLEAN
      /\ stored \in Routes \cup {None} /\ route \in Routes \cup {None}
  BY DEF TypeOK, ChromeTypes
<1>2. /\ None \in Proxies /\ \A r \in Routes : Http(r.port) \in Proxies
      /\ \A r \in Routes : Http(r.port) # None /\ Socks(r.port) # None
  BY NoneAssumption DEF Proxies, Http, Socks, Routes
<1>3. ASSUME UNCHANGED <<ours, stored, route>>, worker' = worker \/ worker' # "ready",
             other' \in BOOLEAN, \A i \in Ids : mut'[i] = mut[i]
      PROVE  Prepared' /\ ActiveProxyIsStored' /\ ChromeTypes'
  BY <1>1, <1>3 DEF Prepared, ActiveProxyIsStored, ChromeTypes
<1>4. Legacy => route \in Routes /\ ours # None
  BY <1>1, <1>2 DEF Legacy
<1>5. ASSUME NEW i \in Ids, Mutation(i)
      PROVE  Prepared' /\ ActiveProxyIsStored' /\ ChromeTypes'
  <2>1. Moves(i) /\ Routing(i) /\ Reaching(i) /\ \A j \in Ids \ {i} : ~Active(j)'
    BY <1>5, MutationMoves, MutationEffects, OnlyOne
  <2>2. mut[i].pc = "store" => RouteOf(got[i]) \in Routes /\ RouteOf(got[i]) # None
    BY SessionRoute DEF FromHelper, Revised
  <2>3. worker = "ready" /\ worker' = "ready" /\ other' = other /\ route = stored
    BY <2>1 DEF Moves, ActiveProxyIsStored
  <2>4. Prepared'
    BY <2>1, <2>2 DEF Prepared, Reaching, Active
  <2>5. CASE UNCHANGED <<ours, stored, route>>
    BY <1>1, <2>3, <2>4, <2>5 DEF ActiveProxyIsStored, ChromeTypes
  <2>6. CASE /\ mut[i].pc = "store" /\ UNCHANGED ours
             /\ stored' = RouteOf(got[i]) /\ route' = RouteOf(got[i])
    BY <1>1, <2>2, <2>3, <2>4, <2>6 DEF ActiveProxyIsStored, ChromeTypes
  <2>7. CASE /\ mut[i].pc = "apply" /\ UNCHANGED <<stored, route>> /\ ours' = Http(route.port)
    <3>1. route \in Routes /\ route # None
      BY <1>1, <2>7 DEF Prepared
    <3> QED BY <1>1, <1>2, <2>3, <2>4, <2>7, <3>1 DEF ActiveProxyIsStored, ChromeTypes
  <2>8. CASE /\ mut[i].pc = "clear" /\ UNCHANGED <<stored, route>> /\ ours' = None
    BY <1>1, <1>2, <2>3, <2>4, <2>8 DEF ActiveProxyIsStored, ChromeTypes
  <2>9. CASE mut[i].pc = "remove" /\ UNCHANGED ours /\ stored' = None /\ route' = None
    BY <1>1, <1>2, <2>3, <2>4, <2>9 DEF ActiveProxyIsStored, ChromeTypes, Prepared
  <2>10. CASE Legacy /\ UNCHANGED <<stored, route>> /\ ours' = Http(route.port)
    BY <1>1, <1>2, <1>4, <2>3, <2>4, <2>10 DEF ActiveProxyIsStored, ChromeTypes
  <2> QED BY <2>1, <2>5, <2>6, <2>7, <2>8, <2>9, <2>10 DEF Routing
<1>6. CASE UserAsks
  <2>1. Asks
    BY <1>6, UsersAsk
  <2>2. UNCHANGED <<ours, stored, route, worker, other>>
    BY <2>1 DEF Asks, chromeVars, memory
  <2>3. Prepared'
    BY <2>1, <2>2 DEF Asks, Prepared
  <2> QED BY <1>1, <2>2, <2>3 DEF ActiveProxyIsStored, ChromeTypes
<1>7. CASE Polls
  <2>1. /\ UNCHANGED <<other, stored, worker, route, mut>>
        /\ UNCHANGED ours \/ (Legacy /\ ours' = Http(route.port))
    BY <1>7, PollsMove DEF PollMoves
  <2>2. CASE UNCHANGED ours
    BY <1>1, <1>3, <2>1, <2>2
  <2>3. CASE Legacy /\ ours' = Http(route.port)
    BY <1>1, <1>2, <1>4, <2>1, <2>3 DEF Prepared, ActiveProxyIsStored, ChromeTypes
  <2> QED BY <2>1, <2>2, <2>3
<1>8. CASE \E r \in Challenges : Auth(r)
  BY <1>1, <1>3, <1>8 DEF Auth, Challenge, AuthReady, AuthSettings, Completed, chromeVars, memory
<1>9. CASE Environment
  <2>1. CASE Ready
    <3>1. /\ UNCHANGED <<ours, stored, other, mut>> /\ route' = stored
          /\ \A i \in Ids : ~Active(i)
      BY <2>1 DEF Ready, Serial, chromeVars
    <3> QED BY <1>1, <3>1 DEF Prepared, ActiveProxyIsStored, ChromeTypes, Active
  <2>2. CASE WorkerDies
    <3>1. /\ worker' = "dead" /\ UNCHANGED <<ours, stored, other>> /\ route' = None
          /\ \A i \in Ids : mut'[i].pc \in {"done", "none"}
      BY <2>2, Forgetting DEF chromeVars
    <3> QED BY <1>1, <3>1 DEF Prepared, ActiveProxyIsStored, ChromeTypes
  <2>3. CASE WorkerStarts \/ \E b \in HelperKinds : PortOpens(b)
    BY <1>1, <1>3, <2>3 DEF WorkerStarts, PortOpens, chromeVars, memory
  <2>4. CASE networkDisconnected \/ HelperMoves \/ \E p \in Procs : Timeout(p)
    BY <1>1, <1>3, <2>4 DEF networkDisconnected, HelperMoves, Timeout, chromeVars, memory
  <2>5. CASE OtherControl
    BY <1>1, <1>3, <2>5 DEF OtherControl, memory
  <2>6. ASSUME NEW p \in Procs, ServeStatus(p) \/ ServeDisconnect(p) \/ ServeConnect(p)
        PROVE  Prepared' /\ ActiveProxyIsStored' /\ ChromeTypes'
    <3>1. Serves(p)
      BY <2>6, HelperServes
    <3> QED BY <1>1, <1>3, <3>1 DEF Serves, chromeVars, memory
  <2> QED BY <1>9, <2>1, <2>2, <2>3, <2>4, <2>5, <2>6 DEF Environment, Procs
<1>10. CASE UNCHANGED vars
  BY <1>1, <1>3, <1>10 DEF vars, chromeVars, memory
<1> QED BY <1>5, <1>6, <1>7, <1>8, <1>9, <1>10 DEF Next

\* Replies are of the helper behind the open port.
LEMMA RepliesKept == TypeOK /\ Serial /\ FromHelper /\ [Next]_vars => Replies'
<1> SUFFICES ASSUME TypeOK, Serial, FromHelper, [Next]_vars PROVE Replies'
  OBVIOUS
<1>1. Replies /\ helper \in HelperStates(0..MaxHelpers) /\ \A i \in Ids : i \in Procs /\ 0 \in Procs
  BY Types DEF FromHelper, Procs
<1>2. ASSUME UNCHANGED <<port, helper>>,
             \A p \in Procs : call'[p] = "back" => call[p] = "back" /\ got'[p] = got[p]
      PROVE  Replies'
  BY <1>1, <1>2 DEF Replies, OfHelper, Procs
<1>3. ASSUME NEW i \in Ids, Mutation(i) PROVE Replies'
  <2>1. Moves(i)
    BY <1>3, MutationMoves
  <2> QED BY <1>1, <1>2, <2>1 DEF Moves, helperVars
<1>4. CASE UserAsks
  BY <1>2, <1>4, UsersAsk DEF Asks, helperVars, rpcs
<1>5. CASE Polls
  <2>1. PollMoves
    BY <1>5, PollsMove
  <2>2. \A p \in Procs : p = 0 \/ p \in Ids
    BY DEF Procs
  <2> QED BY <1>2, <2>1, <2>2 DEF PollMoves, PollCalls, helperVars
<1>6. CASE \E r \in Challenges : Auth(r)
  BY <1>2, <1>6 DEF Auth, Challenge, AuthReady, AuthSettings, Completed, helperVars, rpcs
<1>7. CASE Environment
  <2>1. CASE Ready \/ WorkerStarts \/ OtherControl
    BY <1>2, <2>1 DEF Ready, WorkerStarts, OtherControl, helperVars, rpcs
  <2>2. CASE WorkerDies
    BY <1>1, <2>2, Forgetting DEF Replies, Procs
  <2>3. ASSUME NEW b \in HelperKinds, PortOpens(b) PROVE Replies'
    <3>1. helper' = Fresh(helper.gen + 1, b) /\ UNCHANGED <<call, got>> /\ ~port
      BY <2>3 DEF PortOpens, rpcs
    <3>2. helper'.gen # 0 /\ helper'.state = "disconnected"
      BY <1>1, <3>1, BoundAssumption DEF Fresh, HelperStates
    <3> QED BY <1>1, <3>1, <3>2 DEF Replies, OfSession, OfHelper, Procs
  <2>4. CASE networkDisconnected
    BY <1>1, <2>4 DEF networkDisconnected, Replies, Procs
  <2>5. ASSUME NEW p \in Procs, Timeout(p) PROVE Replies'
    BY <1>2, <2>5, Types DEF Timeout, helperVars, Procs
  <2>6. ASSUME NEW p \in Procs, ServeStatus(p) \/ ServeDisconnect(p) \/ ServeConnect(p)
        PROVE  Replies'
    <3>1. Serves(p)
      BY <2>6, HelperServes
    <3>2. /\ port /\ port' = port /\ helper'.gen = helper.gen /\ helper'.legacy = helper.legacy
          /\ OfSession(helper') /\ helper' \in Snapshots
      BY <3>1 DEF Serves
    <3>3. \A q \in Procs : call'[q] = "back" =>
            (call[q] = "back" /\ got'[q] = got[q]) \/ got'[q] = helper'
      BY <3>1, Types DEF Serves, Procs
    <3> QED BY <1>1, <3>2, <3>3 DEF Replies, OfHelper, Procs
  <2>7. CASE HelperMoves
    <3>1. /\ helper'.gen = helper.gen /\ helper'.legacy = helper.legacy /\ OfSession(helper')
          /\ UNCHANGED <<port, call, got>>
      BY <2>7, HelperMoving DEF HelperMoves, rpcs
    <3> QED BY <1>1, <3>1 DEF Replies, OfHelper
  <2> QED BY <1>7, <2>1, <2>2, <2>3, <2>4, <2>5, <2>6, <2>7 DEF Environment, Procs
<1>8. CASE UNCHANGED vars
  BY <1>2, <1>8 DEF vars, helperVars, rpcs
<1> QED BY <1>3, <1>4, <1>5, <1>6, <1>7, <1>8 DEF Next

\* A helper without proxy authentication is not asked to connect.
LEMMA OnWireKept == TypeOK /\ Serial /\ FromHelper /\ [Next]_vars => OnWire'
<1> SUFFICES ASSUME TypeOK, Serial, FromHelper, [Next]_vars PROVE OnWire'
  OBVIOUS
<1>1. /\ OnWire /\ Revised /\ wire \in [Procs -> NativeCalls]
      /\ \A i \in Ids : i \in Procs /\ \A p \in Procs : p = 0 \/ p \in Ids
  BY Types DEF FromHelper, Procs
<1>2. ASSUME port' = port, helper'.legacy = helper.legacy, \A i \in Ids : mut'[i] = mut[i],
             \A p \in Procs : wire'[p] = wire[p] \/ wire'[p] = NoCall
      PROVE  OnWire'
  BY <1>1, <1>2 DEF OnWire, NoCall, Procs
<1>3. ASSUME NEW i \in Ids, Mutation(i) PROVE OnWire'
  <2>1. Moves(i) /\ Reaching(i)
    BY <1>3, MutationMoves, MutationEffects
  <2>2. /\ UNCHANGED <<port, helper>> /\ \A p \in Procs \ {i} : wire'[p] = wire[p]
        /\ \A j \in Ids : mut'[j].op = "connect" => mut'[j].host = mut[j].host /\ mut[j].op = "connect"
    BY <2>1 DEF Moves, helperVars
  <2>3. wire'[i] # wire[i] => port
    BY <2>1 DEF Reaching
  <2>4. wire'[i] # wire[i] /\ wire'[i].op = "connect" => ~helper.legacy /\ wire'[i].host \in Hosts
    BY <1>1, <2>1 DEF Reaching, Revised, OnWire
  <2> QED BY <1>1, <2>2, <2>3, <2>4 DEF OnWire, Procs
<1>4. CASE UserAsks
  <2>1. Asks
    BY <1>4, UsersAsk
  <2> QED BY <1>1, <2>1 DEF Asks, OnWire, helperVars, rpcs
<1>5. CASE Polls
  <2>1. PollMoves
    BY <1>5, PollsMove
  <2>2. UNCHANGED <<port, helper, mut>> /\ \A i \in Ids : wire'[i] = wire[i]
    BY <2>1 DEF PollMoves, PollCalls, helperVars
  <2>4. wire'[0].op # "none" => port \/ wire' = wire
    BY <2>1 DEF PollMoves, PollCalls
  <2>3. wire'[0].op = "connect" => wire'[0].host \in Hosts /\ ~helper.legacy
    BY <1>1, <1>5 DEF Polls, PollStart, PollReply, PollOldHelper, PollFails, nativeRequest, OnWire,
       Procs
  <2> QED BY <1>1, <2>2, <2>3, <2>4 DEF OnWire, Procs
<1>6. CASE \E r \in Challenges : Auth(r)
  BY <1>2, <1>6 DEF Auth, Challenge, AuthReady, AuthSettings, Completed, helperVars, rpcs
<1>7. CASE Environment
  <2>1. CASE Ready \/ WorkerStarts \/ OtherControl
    BY <1>2, <2>1 DEF Ready, WorkerStarts, OtherControl, helperVars, rpcs
  <2>2. CASE WorkerDies
    BY <1>1, <2>2, Forgetting DEF OnWire, Procs
  <2>3. ASSUME NEW b \in HelperKinds, PortOpens(b) PROVE OnWire'
    <3>1. UNCHANGED <<wire, mut>> /\ ~port
      BY <2>3 DEF PortOpens, rpcs
    <3> QED BY <1>1, <3>1 DEF OnWire
  <2>4. CASE networkDisconnected
    BY <1>1, <2>4 DEF networkDisconnected, OnWire, NoCall, Procs
  <2>5. ASSUME NEW p \in Procs, Timeout(p) PROVE OnWire'
    BY <1>2, <2>5 DEF Timeout, helperVars
  <2>6. ASSUME NEW p \in Procs, ServeStatus(p) \/ ServeDisconnect(p) \/ ServeConnect(p)
        PROVE  OnWire'
    <3>1. Serves(p)
      BY <2>6, HelperServes
    <3>2. \A q \in Procs : wire'[q] = wire[q] \/ wire'[q] = NoCall
      BY <1>1, <3>1 DEF Serves
    <3> QED BY <1>2, <3>1, <3>2 DEF Serves
  <2>7. CASE HelperMoves
    BY <1>2, <2>7, HelperMoving DEF HelperMoves, rpcs
  <2> QED BY <1>7, <2>1, <2>2, <2>3, <2>4, <2>5, <2>6, <2>7 DEF Environment, Procs
<1>8. CASE UNCHANGED vars
  BY <1>2, <1>8 DEF vars, helperVars, rpcs
<1> QED BY <1>3, <1>4, <1>5, <1>6, <1>7, <1>8 DEF Next

\* What a request keeps of the helper holds while the revision is its own.
LEMMA RevisedKept == TypeOK /\ Serial /\ FromHelper /\ [Next]_vars => Revised'
<1> SUFFICES ASSUME TypeOK, Serial, FromHelper, [Next]_vars PROVE Revised'
  OBVIOUS
<1>1. /\ Replies /\ Revised /\ call \in [Procs -> {"idle", "sent", "back", "failed"}]
      /\ revision \in Nat /\ \A i \in Ids : i \in Procs /\ mut[i].rev \in Nat
  BY Types DEF FromHelper, Procs, Requests
<1>2. ASSUME UNCHANGED <<revision, port>>, helper'.gen = helper.gen, helper'.legacy = helper.legacy,
             \A i \in Ids : mut'[i] = mut[i],
             \A i \in Ids : call[i] = "idle" => call'[i] = "idle" /\ got'[i] = got[i]
      PROVE  Revised'
  BY <1>1, <1>2 DEF Revised, OfHelper
<1>3. ASSUME NEW i \in Ids, Mutation(i) PROVE Revised'
  <2>1. Moves(i) /\ Reaching(i) /\ \A j \in Ids \ {i} : ~Active(j)'
    BY <1>3, MutationMoves, MutationEffects, OnlyOne
  <2>2. /\ UNCHANGED <<port, helper>> /\ \A j \in Ids \ {i} : mut'[j] = mut[j]
        /\ \/ mut'[i].rev \in {0, revision + 1} /\ revision' = revision + 1
           \/ mut'[i].rev \in {0, mut[i].rev} /\ revision' = revision
    BY <2>1 DEF Moves, helperVars
  <2>3. \A j \in Ids : mut'[j].rev <= revision'
    <3>1. mut'[i].rev <= revision'
      BY <1>1, <2>2 DEF Revised
    <3>2. \A j \in Ids \ {i} : mut'[j].rev <= revision'
      BY <1>1, <2>2 DEF Revised
    <3> QED BY <3>1, <3>2
  <2>4. call[i] = "back" => got[i] \in Snapshots /\ OfSession(got[i]) /\ OfHelper(got[i])
    BY <1>1 DEF Replies, Procs
  <2>5. mut'[i].pc = "level" =>
          /\ got'[i] \in Snapshots /\ OfSession(got'[i]) /\ got'[i].state = "connected"
          /\ call'[i] = "idle" /\ OfHelper(got[i]) /\ got'[i] = got[i]
    BY <2>1, <2>4 DEF Reaching
  <2>6. mut'[i].pc = "store" =>
          /\ got'[i] \in Snapshots /\ OfSession(got'[i]) /\ got'[i].state = "connected"
          /\ call'[i] = "idle" /\ got'[i] = got[i]
          /\ mut'[i].rev = revision' => OfHelper(got[i])
    BY <1>1, <2>1 DEF Reaching, Revised, Moves
  <2>7. mut'[i].pc = "migrate" => mut'[i].op = "connect" /\ port /\ ~helper.legacy
    BY <2>1, <2>4 DEF Reaching, Moves, OfHelper
  <2>8. \A j \in Ids : mut'[j].pc \in {"level", "store", "migrate"} => j = i
    BY <2>1 DEF Active
  <2>9. mut'[i].pc \in {"level", "store"} /\ mut'[i].rev = revision' => OfHelper(got[i])'
    BY <2>2, <2>5, <2>6 DEF OfHelper
  <2>10. mut'[i].pc \in {"level", "store"} =>
           /\ got'[i] \in Snapshots /\ OfSession(got'[i]) /\ got'[i].state = "connected"
           /\ call'[i] = "idle"
    BY <2>5, <2>6
  <2> QED BY <2>2, <2>3, <2>7, <2>8, <2>9, <2>10 DEF Revised
<1>4. CASE UserAsks
  <2>1. Asks
    BY <1>4, UsersAsk
  <2>2. UNCHANGED <<revision, port, helper, call, got>>
    BY <2>1 DEF Asks, memory, helperVars, rpcs
  <2> QED BY <1>1, <2>1, <2>2 DEF Asks, Revised, OfHelper
<1>5. CASE Polls
  BY <1>2, <1>5, PollsMove DEF PollMoves, PollCalls, helperVars
<1>6. CASE \E r \in Challenges : Auth(r)
  BY <1>2, <1>6 DEF Auth, Challenge, AuthReady, AuthSettings, Completed, helperVars, rpcs, memory
<1>7. CASE Environment
  <2>1. CASE Ready \/ WorkerStarts \/ OtherControl
    BY <1>2, <2>1 DEF Ready, WorkerStarts, OtherControl, helperVars, rpcs, memory
  <2>2. CASE WorkerDies
    <3>1. revision' = 0 /\ \A i \in Ids : mut'[i].pc \in {"done", "none"} /\ mut'[i].rev = 0
      BY <2>2, Forgetting
    <3> QED BY <3>1 DEF Revised
  <2>3. ASSUME NEW b \in HelperKinds, PortOpens(b) PROVE Revised'
    <3>1. UNCHANGED <<call, got, mut, revision>> /\ ~port
      BY <2>3 DEF PortOpens, rpcs, memory
    <3> QED BY <1>1, <3>1 DEF Revised, OfHelper
  <2>4. CASE networkDisconnected
    <3>1. /\ revision' = revision + 1 /\ UNCHANGED <<mut, got>>
          /\ \A i \in Ids : call[i] = "idle" => call'[i] = "idle"
      BY <2>4 DEF networkDisconnected
    <3>2. \A i \in Ids : mut[i].rev <= revision + 1 /\ mut[i].rev # revision + 1
      BY <1>1 DEF Revised
    <3> QED BY <1>1, <3>1, <3>2 DEF Revised
  <2>5. ASSUME NEW p \in Procs, Timeout(p) PROVE Revised'
    BY <1>2, <2>5 DEF Timeout, helperVars, memory
  <2>6. ASSUME NEW p \in Procs, ServeStatus(p) \/ ServeDisconnect(p) \/ ServeConnect(p)
        PROVE  Revised'
    <3>1. Serves(p)
      BY <2>6, HelperServes
    <3>2. \A i \in Ids : call[i] = "idle" => call'[i] = "idle" /\ got'[i] = got[i]
      BY <1>1, <3>1, Types DEF Serves, Procs
    <3> QED BY <1>2, <3>1, <3>2 DEF Serves, memory
  <2>7. CASE HelperMoves
    BY <1>2, <2>7, HelperMoving DEF HelperMoves, rpcs, memory
  <2> QED BY <1>7, <2>1, <2>2, <2>3, <2>4, <2>5, <2>6, <2>7 DEF Environment, Procs
<1>8. CASE UNCHANGED vars
  BY <1>2, <1>8 DEF vars, helperVars, rpcs, memory
<1> QED BY <1>3, <1>4, <1>5, <1>6, <1>7, <1>8 DEF Next

\* What is shown as connected, and the credentials, are of the helper.
LEMMA StatusKept ==
  TypeOK /\ Serial /\ FromHelper /\ StatusIsOfThisHelper /\ [Next]_vars => StatusIsOfThisHelper'
<1> SUFFICES ASSUME TypeOK, Serial, FromHelper, StatusIsOfThisHelper, [Next]_vars
             PROVE  StatusIsOfThisHelper'
  OBVIOUS
<1>1. /\ \A p \in Ids \cup {0} : wire'[p].op = "connect" => ~helper'.legacy
  BY OnWireKept DEF OnWire
<1>2. /\ ssh.state = "connected" => port
      /\ creds # None => port /\ creds.gen = helper.gen /\ creds.rev = revision
                           /\ ssh.state = "connected"
  BY DEF StatusIsOfThisHelper
<1>3. ASSUME UNCHANGED <<port, revision>>, helper'.gen = helper.gen,
             \/ UNCHANGED <<ssh, creds>>
             \/ creds' = None /\ ssh'.state = "disconnected"
             \/ creds' = None /\ UNCHANGED ssh
             \/ \E v, rev : OfHelper(v) /\ acceptSSH(v, rev)
      PROVE  StatusIsOfThisHelper'
  <2>1. ASSUME NEW v, NEW rev, OfHelper(v), acceptSSH(v, rev) PROVE StatusIsOfThisHelper'
    <3>1. CASE rev = revision
      BY <1>1, <1>3, <2>1, <3>1 DEF acceptSSH, OfHelper, StatusIsOfThisHelper
    <3>2. CASE rev # revision
      BY <1>1, <1>2, <1>3, <2>1, <3>2 DEF acceptSSH, StatusIsOfThisHelper
    <3> QED BY <3>1, <3>2
  <2> QED BY <1>1, <1>2, <1>3, <2>1 DEF StatusIsOfThisHelper
<1>4. ASSUME NEW i \in Ids, Mutation(i) PROVE StatusIsOfThisHelper'
  <2>1. Moves(i) /\ Showing(i)
    BY <1>4, MutationMoves, MutationEffects
  <2>2. UNCHANGED <<port, helper>>
    BY <2>1 DEF Moves, helperVars
  <2>3. CASE creds' = None /\ UNCHANGED ssh
    BY <1>1, <1>2, <2>2, <2>3 DEF StatusIsOfThisHelper
  <2>4. CASE /\ call[i] = "back" \/ mut[i].pc = "store"
             /\ acceptSSH(got[i], mut[i].rev) /\ UNCHANGED revision
    <3>1. mut[i].rev = revision => OfHelper(got[i])
      BY <2>4 DEF FromHelper, Replies, Revised
    <3>2. mut[i].rev # revision => UNCHANGED <<ssh, creds>>
      BY <2>4 DEF acceptSSH
    <3> QED BY <1>3, <2>2, <2>4, <3>1, <3>2
  <2>5. CASE UNCHANGED <<ssh, creds>>
    <3>1. CASE UNCHANGED revision
      BY <1>3, <2>2, <2>5, <3>1
    <3>2. CASE creds' = None /\ UNCHANGED ssh
      BY <2>3, <3>2
    <3> QED BY <2>1, <3>1, <3>2 DEF Moves
  <2> QED BY <2>1, <2>3, <2>4, <2>5 DEF Showing
<1>5. CASE UserAsks
  BY <1>3, <1>5, UsersAsk DEF Asks, helperVars, memory
<1>6. CASE Polls
  <2>1. PollMoves
    BY <1>6, PollsMove
  <2>2. call[0] = "back" => OfHelper(got[0])
    BY DEF FromHelper, Replies
  <2>3. UNCHANGED <<port, helper, revision>>
    BY <2>1 DEF PollMoves, helperVars
  <2>4. \/ UNCHANGED <<ssh, creds>>
        \/ call[0] = "back" /\ acceptSSH(got[0], revision)
        \/ creds' = None /\ ssh'.state = "disconnected"
    BY <2>1 DEF PollMoves, PollShows
  <2> QED BY <1>3, <2>2, <2>3, <2>4
<1>7. CASE \E r \in Challenges : Auth(r)
  BY <1>3, <1>7 DEF Auth, Challenge, AuthReady, AuthSettings, Completed, helperVars, memory
<1>8. CASE Environment
  <2>1. CASE Ready \/ WorkerStarts \/ OtherControl
    BY <1>3, <2>1 DEF Ready, WorkerStarts, OtherControl, helperVars, memory
  <2>2. CASE WorkerDies
    BY <1>1, <2>2, Forgetting DEF StatusIsOfThisHelper
  <2>3. ASSUME NEW b \in HelperKinds, PortOpens(b) PROVE StatusIsOfThisHelper'
    <3>1. UNCHANGED <<ssh, creds>> /\ ~port
      BY <2>3 DEF PortOpens, memory
    <3> QED BY <1>1, <1>2, <3>1 DEF StatusIsOfThisHelper
  <2>4. CASE networkDisconnected
    <3>1. creds' = None /\ ssh'.state = "disconnected"
      BY <2>4 DEF networkDisconnected, Gone
    <3> QED BY <1>1, <3>1 DEF StatusIsOfThisHelper
  <2>5. ASSUME NEW p \in Procs, Timeout(p) PROVE StatusIsOfThisHelper'
    BY <1>3, <2>5 DEF Timeout, helperVars, memory
  <2>6. ASSUME NEW p \in Procs, ServeStatus(p) \/ ServeDisconnect(p) \/ ServeConnect(p)
        PROVE  StatusIsOfThisHelper'
    <3>1. Serves(p)
      BY <2>6, HelperServes
    <3> QED BY <1>3, <3>1 DEF Serves, memory
  <2>7. CASE HelperMoves
    BY <1>3, <2>7, HelperMoving DEF HelperMoves, memory
  <2> QED BY <1>8, <2>1, <2>2, <2>3, <2>4, <2>5, <2>6, <2>7 DEF Environment, Procs
<1>9. CASE UNCHANGED vars
  BY <1>3, <1>9 DEF vars, helperVars, memory
<1> QED BY <1>4, <1>5, <1>6, <1>7, <1>8, <1>9 DEF Next

\* The revision never runs ahead of the requests and the lost ports.
LEMMA CountedKept == TypeOK /\ Serial /\ FromHelper /\ Counted /\ [Next]_vars => Counted'
<1> SUFFICES ASSUME TypeOK, Serial, FromHelper, Counted, [Next]_vars PROVE Counted'
  OBVIOUS
<1> DEFINE open == IF port THEN 1 ELSE 0
<1>1. PICK n \in 0..asked : /\ n # 0 => Started(n)
                            /\ \A i \in Ids : Started(i) => i <= n
                            /\ revision <= n + helper.gen - open
  BY DEF Counted
<1>2. /\ asked \in Nat /\ asked <= MaxRequests /\ n \in Nat /\ n <= asked /\ MaxRequests \in Nat
      /\ helper.gen \in Nat /\ revision \in Nat
      /\ \A i \in Ids : i \in Nat /\ i # 0 /\ (mut[i].pc = "none" <=> i > asked)
      /\ \A i \in 1..asked : i \in Ids
  BY BoundAssumption, Types DEF TypeOK, WorkerTypes, HelperStates, Ids, Serial
<1>3. ASSUME UNCHANGED <<revision, port, asked>>, helper'.gen = helper.gen,
             \A i \in Ids : Started(i)' <=> Started(i)
      PROVE  Counted'
  BY <1>1, <1>2, <1>3 DEF Counted
<1>4. ASSUME NEW i \in Ids, Mutation(i) PROVE Counted'
  <2>1. Moves(i)
    BY <1>4, MutationMoves
  <2>2. /\ UNCHANGED <<port, helper, asked>> /\ mut'[i].pc \notin {"none", "asked"}
        /\ \A j \in Ids \ {i} : mut'[j] = mut[j]
    BY <2>1 DEF Moves, helperVars
  <2>3. CASE Active(i) /\ revision' = revision
    BY <1>3, <2>2, <2>3 DEF Started, Active
  <2>4. CASE mut[i].pc = "asked" /\ revision' = revision + 1
    <3>1. \A j \in Ids : Started(j) => j < i
      <4>1. ASSUME NEW j \in Ids, Started(j), j >= i PROVE FALSE
        <5>1. j # i
          BY <2>4, <4>1 DEF Started
        <5>2. i \in 1..j-1
          BY <1>2, <4>1, <5>1
        <5> QED BY <2>4, <4>1, <5>2 DEF Serial
      <4> QED BY <1>2, <4>1
    <3>2. n < i
      BY <1>1, <1>2, <3>1
    <3>3. /\ i \in 0..asked /\ Started(i)' /\ \A j \in Ids : Started(j)' => j <= i
      BY <1>2, <2>2, <2>4, <3>1 DEF Started
    <3>4. revision + 1 <= i + helper.gen - open
      BY <1>1, <1>2, <3>2
    <3> QED BY <2>2, <2>4, <3>3, <3>4 DEF Counted
  <2> QED BY <2>1, <2>3, <2>4 DEF Moves
<1>5. CASE UserAsks
  <2>1. Asks
    BY <1>5, UsersAsk
  <2>2. /\ asked + 1 \in Ids /\ asked' = asked + 1 /\ UNCHANGED <<revision, port, helper>>
        /\ mut'[asked + 1].pc = "asked" /\ \A j \in Ids \ {asked + 1} : mut'[j] = mut[j]
    BY <2>1 DEF Asks, memory, helperVars
  <2>3. mut[asked + 1].pc = "none"
    BY <1>2, <2>2
  <2>4. \A i \in Ids : Started(i)' <=> Started(i)
    BY <2>2, <2>3 DEF Started
  <2>5. n \in 0..asked' /\ (n # 0 => Started(n)')
    BY <1>1, <1>2, <2>2, <2>4
  <2> QED BY <1>1, <2>2, <2>4, <2>5 DEF Counted
<1>6. CASE Polls
  BY <1>3, <1>6, PollsMove DEF PollMoves, helperVars, Started
<1>7. CASE \E r \in Challenges : Auth(r)
  BY <1>3, <1>7 DEF Auth, Challenge, AuthReady, AuthSettings, Completed, helperVars, memory, Started
<1>8. CASE Environment
  <2>1. CASE Ready \/ WorkerStarts \/ OtherControl
    BY <1>3, <2>1 DEF Ready, WorkerStarts, OtherControl, helperVars, memory, Started
  <2>2. CASE WorkerDies
    <3>1. /\ revision' = 0 /\ port' = FALSE /\ UNCHANGED <<asked, helper>>
          /\ \A i \in Ids : mut'[i].pc = IF i <= asked THEN "done" ELSE "none"
      BY <2>2, Forgetting
    <3>2. /\ asked \in 0..asked' /\ (asked # 0 => Started(asked)')
          /\ \A i \in Ids : Started(i)' => i <= asked
      BY <1>2, <3>1 DEF Started
    <3>3. revision' <= asked + helper'.gen - (IF port' THEN 1 ELSE 0)
      BY <1>2, <3>1
    <3> QED BY <1>2, <3>1, <3>2, <3>3 DEF Counted
  <2>3. ASSUME NEW b \in HelperKinds, PortOpens(b) PROVE Counted'
    <3>1. /\ UNCHANGED <<mut, revision, asked>> /\ ~port /\ port' = TRUE
          /\ helper'.gen = helper.gen + 1
      BY <2>3 DEF PortOpens, memory, Fresh
    <3>2. revision' <= n + helper'.gen - (IF port' THEN 1 ELSE 0)
      BY <1>1, <1>2, <3>1
    <3> QED BY <1>1, <3>1, <3>2 DEF Counted, Started
  <2>4. CASE networkDisconnected
    <3>1. /\ UNCHANGED <<mut, helper, asked>> /\ port /\ port' = FALSE
          /\ revision' = revision + 1
      BY <2>4 DEF networkDisconnected
    <3>2. revision' <= n + helper'.gen - (IF port' THEN 1 ELSE 0)
      BY <1>1, <1>2, <3>1
    <3> QED BY <1>1, <3>1, <3>2 DEF Counted, Started
  <2>5. ASSUME NEW p \in Procs, Timeout(p) PROVE Counted'
    BY <1>3, <2>5 DEF Timeout, helperVars, memory, Started
  <2>6. ASSUME NEW p \in Procs, ServeStatus(p) \/ ServeDisconnect(p) \/ ServeConnect(p)
        PROVE  Counted'
    BY <1>3, <2>6, HelperServes DEF Serves, memory, Started
  <2>7. CASE HelperMoves
    BY <1>3, <2>7, HelperMoving DEF HelperMoves, memory, Started
  <2> QED BY <1>8, <2>1, <2>2, <2>3, <2>4, <2>5, <2>6, <2>7 DEF Environment, Procs
<1>9. CASE UNCHANGED vars
  BY <1>3, <1>9 DEF vars, helperVars, memory, Started
<1> QED BY <1>4, <1>5, <1>6, <1>7, <1>8, <1>9 DEF Next

\* The credentials are given once to a web request that goes on.
LEMMA GivenOnceKept == TypeOK /\ Serial /\ FromHelper /\ GivenOnce /\ [Next]_vars => GivenOnce'
<1> SUFFICES ASSUME TypeOK, Serial, FromHelper, GivenOnce, [Next]_vars PROVE GivenOnce'
  OBVIOUS
<1>1. ASSUME UNCHANGED authVars PROVE GivenOnce'
  BY <1>1 DEF authVars, GivenOnce
<1>2. ASSUME NEW i \in Ids, Mutation(i) PROVE GivenOnce'
  BY <1>1, <1>2, MutationMoves DEF Moves
<1>3. CASE UserAsks
  BY <1>1, <1>3, UsersAsk DEF Asks
<1>4. CASE Polls
  BY <1>1, <1>4, PollsMove DEF PollMoves
<1>5. ASSUME NEW r \in Challenges, Auth(r) PROVE GivenOnce'
  <2>1. given \in [Challenges -> Nat]
    BY DEF TypeOK, AuthTypes
  <2>2. CASE AuthSettings(r)
    BY <2>1, <2>2 DEF AuthSettings, GivenOnce
  <2>3. CASE Completed(r)
    BY <2>1, <2>3 DEF Completed, GivenOnce
  <2> QED BY <1>5, <2>2, <2>3 DEF Auth, Challenge, AuthReady, GivenOnce
<1>6. CASE Environment
  <2>1. CASE WorkerDies
    BY <2>1, Forgetting DEF GivenOnce
  <2>2. CASE ~WorkerDies
    BY <1>1, <1>6, <2>2, HelperServes DEF Environment, Ready, WorkerStarts, PortOpens, Procs,
       networkDisconnected, OtherControl, Timeout, Serves, HelperMoves
  <2> QED BY <2>1, <2>2
<1>7. CASE UNCHANGED vars
  BY <1>1, <1>7 DEF vars
<1> QED BY <1>2, <1>3, <1>4, <1>5, <1>6, <1>7 DEF Next

\* The types of the calls and of the helper.
LEMMA CallsKept == TypeOK /\ Serial /\ FromHelper /\ [Next]_vars => CallTypes' /\ HelperTypes'
<1> SUFFICES ASSUME TypeOK, Serial, FromHelper, [Next]_vars PROVE CallTypes' /\ HelperTypes'
  OBVIOUS
<1>1. /\ call \in [Procs -> {"idle", "sent", "back", "failed"}]
      /\ got \in [Procs -> Snapshots \cup {None}] /\ wire \in [Procs -> NativeCalls]
      /\ port \in BOOLEAN /\ helper \in HelperStates(0..MaxHelpers) /\ sids \in 0..MaxSessions
  BY DEF TypeOK, CallTypes, HelperTypes, Procs
<1>2. ASSUME call' \in [Procs -> {"idle", "sent", "back", "failed"}],
             got' \in [Procs -> Snapshots \cup {None}], wire' \in [Procs -> NativeCalls]
      PROVE  CallTypes'
  BY <1>2 DEF CallTypes, Procs
<1>3. ASSUME UNCHANGED rpcs PROVE CallTypes'
  BY <1>1, <1>2, <1>3 DEF rpcs
<1>4. ASSUME UNCHANGED helperVars PROVE HelperTypes'
  BY <1>1, <1>4 DEF helperVars, HelperTypes
<1>5. ASSUME NEW i \in Ids, Mutation(i) PROVE CallTypes' /\ HelperTypes'
  BY <1>2, <1>4, <1>5, MutationMoves DEF Moves
<1>6. CASE UserAsks
  BY <1>3, <1>4, <1>6, UsersAsk DEF Asks
<1>7. CASE Polls
  BY <1>2, <1>4, <1>7, PollsMove DEF PollMoves, PollCalls
<1>8. CASE \E r \in Challenges : Auth(r)
  BY <1>3, <1>4, <1>8 DEF Auth, Challenge, AuthReady, AuthSettings, Completed
<1>9. CASE Environment
  <2>1. CASE Ready \/ WorkerStarts \/ OtherControl
    BY <1>3, <1>4, <2>1 DEF Ready, WorkerStarts, OtherControl
  <2>2. CASE WorkerDies
    BY <1>1, <1>2, <2>2, Forgetting DEF HelperTypes
  <2>3. ASSUME NEW b \in HelperKinds, PortOpens(b) PROVE CallTypes' /\ HelperTypes'
    <3>1. /\ helper' = Fresh(helper.gen + 1, b) /\ helper.gen < MaxHelpers
          /\ port' = TRUE /\ UNCHANGED <<rpcs, sids>>
      BY <2>3 DEF PortOpens
    <3>2. helper.gen + 1 \in 0..MaxHelpers /\ 0 \in 0..MaxSessions /\ b \in BOOLEAN
      BY <1>1, <2>3, <3>1, BoundAssumption, KindsAssumption DEF HelperStates
    <3>3. helper' \in HelperStates(0..MaxHelpers)
      BY <3>1, <3>2 DEF HelperStates, Fresh
    <3> QED BY <1>1, <1>3, <3>1, <3>3 DEF HelperTypes
  <2>4. CASE networkDisconnected
    <3>1. NoCall \in NativeCalls
      BY DEF NoCall, NativeCalls
    <3>2. CallTypes'
      BY <1>1, <1>2, <2>4, <3>1 DEF networkDisconnected, Procs
    <3> QED BY <1>1, <2>4, <3>2 DEF networkDisconnected, HelperTypes
  <2>5. ASSUME NEW p \in Procs, Timeout(p) PROVE CallTypes' /\ HelperTypes'
    BY <1>1, <1>2, <1>4, <2>5 DEF Timeout
  <2>6. ASSUME NEW p \in Procs, ServeStatus(p) \/ ServeDisconnect(p) \/ ServeConnect(p)
        PROVE  CallTypes' /\ HelperTypes'
    <3>1. Serves(p)
      BY <2>6, HelperServes
    <3>2. NoCall \in NativeCalls
      BY DEF NoCall, NativeCalls
    <3>3. HelperTypes'
      BY <1>1, <3>1 DEF Serves, HelperTypes
    <3>4. wire' \in [Procs -> NativeCalls]
      BY <1>1, <3>1, <3>2 DEF Serves
    <3>5. /\ call' \in [Procs -> {"idle", "sent", "back", "failed"}]
          /\ got' \in [Procs -> Snapshots \cup {None}]
      BY <1>1, <3>1 DEF Serves
    <3> QED BY <1>2, <3>3, <3>4, <3>5
  <2>7. CASE HelperMoves
    BY <1>1, <1>3, <2>7, HelperMoving DEF HelperMoves, HelperTypes
  <2> QED BY <1>9, <2>1, <2>2, <2>3, <2>4, <2>5, <2>6, <2>7 DEF Environment, Procs
<1>10. CASE UNCHANGED vars
  BY <1>3, <1>4, <1>10 DEF vars
<1> QED BY <1>5, <1>6, <1>7, <1>8, <1>9, <1>10 DEF Next

\* The types of the worker's variables and of its challenges.
LEMMA AuthKept == TypeOK /\ Serial /\ FromHelper /\ [Next]_vars => AuthTypes'
<1> SUFFICES ASSUME TypeOK, Serial, FromHelper, [Next]_vars PROVE AuthTypes'
  OBVIOUS
<1>1. /\ attempts \subseteq Challenges /\ auth \in [Challenges -> AuthStates]
      /\ given \in [Challenges -> Nat]
  BY DEF TypeOK, AuthTypes
<1>2. IdleAuth \in AuthStates
  BY BoundAssumption DEF IdleAuth, AuthStates
<1>3. ASSUME UNCHANGED authVars PROVE AuthTypes'
  BY <1>1, <1>3 DEF authVars, AuthTypes
<1>4. ASSUME NEW r \in Challenges, NEW next \in AuthStates, auth' = [auth EXCEPT ![r] = next],
             attempts' \subseteq Challenges, given' \in [Challenges -> Nat]
      PROVE  AuthTypes'
  BY <1>1, <1>4 DEF AuthTypes
<1>5. ASSUME NEW i \in Ids, Mutation(i) PROVE AuthTypes'
  BY <1>3, <1>5, MutationMoves DEF Moves
<1>6. CASE UserAsks
  BY <1>3, <1>6, UsersAsk DEF Asks
<1>7. CASE Polls
  BY <1>3, <1>7, PollsMove DEF PollMoves
<1>8. ASSUME NEW r \in Challenges, Auth(r) PROVE AuthTypes'
  <2>1. ASSUME NEW g \in 1..helper.gen, NEW pt \in Ports, Challenge(r, g, pt) PROVE AuthTypes'
    <3>1. g \in 0..MaxHelpers
      BY Types, BoundAssumption DEF HelperStates
    <3>2. [at |-> "ready", rev |-> revision, prev |-> route, gen |-> g, port |-> pt] \in AuthStates
      BY <3>1, Types DEF AuthStates, TypeOK, ChromeTypes
    <3> QED BY <1>1, <1>4, <2>1, <3>2 DEF Challenge
  <2>2. CASE AuthReady(r)
    <3>1. /\ UNCHANGED <<attempts, given>>
          /\ \/ auth' = [auth EXCEPT ![r] = [auth[r] EXCEPT !.at = "settings"]]
             \/ auth' = [auth EXCEPT ![r] = IdleAuth]
      BY <2>2 DEF AuthReady
    <3>2. [auth[r] EXCEPT !.at = "settings"] \in AuthStates
      BY <1>1 DEF AuthStates
    <3> QED BY <1>1, <1>2, <1>4, <3>1, <3>2
  <2>3. CASE AuthSettings(r)
    <3>1. given' \in [Challenges -> Nat] /\ attempts' \subseteq Challenges
      BY <1>1, <2>3 DEF AuthSettings
    <3> QED BY <1>2, <1>4, <2>3, <3>1 DEF AuthSettings
  <2>4. CASE Completed(r)
    BY <1>1, <2>4 DEF Completed, AuthTypes
  <2> QED BY <1>8, <2>1, <2>2, <2>3, <2>4 DEF Auth
<1>9. CASE Environment
  <2>1. CASE WorkerDies
    BY <2>1, Forgetting DEF AuthTypes
  <2>2. CASE ~WorkerDies
    BY <1>3, <1>9, <2>2, HelperServes DEF Environment, Ready, WorkerStarts, PortOpens, Procs,
       networkDisconnected, OtherControl, Timeout, Serves, HelperMoves
  <2> QED BY <2>1, <2>2
<1>10. CASE UNCHANGED vars
  BY <1>3, <1>10 DEF vars
<1> QED BY <1>5, <1>6, <1>7, <1>8, <1>9, <1>10 DEF Next

\* The types of the worker's own variables.
LEMMA WorkerKept ==
  TypeOK /\ Serial /\ FromHelper /\ Counted /\ [Next]_vars => WorkerTypes'
<1> SUFFICES ASSUME TypeOK, Serial, FromHelper, Counted, [Next]_vars PROVE WorkerTypes'
  OBVIOUS
<1> DEFINE Shown == ssh \in Statuses /\ creds \in Credentials \cup {None}
           Running == /\ worker \in {"dead", "starting", "ready"} /\ mut \in [Ids -> Requests]
                      /\ poll \in [pc : {"idle", "status", "old"}, rev : Nat]
                      /\ asked \in 0..MaxRequests /\ by \in 0..asked
<1>1. /\ Shown /\ Running /\ route \in Routes \cup {None}
      /\ asked \in Nat /\ by \in Nat /\ by <= asked /\ \A i \in Ids : i \in Nat
  BY BoundAssumption DEF TypeOK, WorkerTypes, ChromeTypes, Ids
<1>2. ASSUME Shown', Running' PROVE WorkerTypes'
  <2>1. Counted' /\ HelperTypes'
    BY CountedKept, CallsKept
  <2>2. PICK n \in 0..asked' : revision' <= n + helper'.gen - (IF port' THEN 1 ELSE 0)
    BY <2>1 DEF Counted
  <2>3. helper'.gen \in 0..MaxHelpers
    BY <2>1 DEF HelperTypes, HelperStates
  <2>4. revision' \in Nat
    <3>1. /\ revision \in Nat
          /\ \A i \in Ids : Mutation(i) => revision' \in {revision, revision + 1}
      BY Types, MutationMoves DEF Moves
    <3>2. CASE UserAsks
      BY <3>1, <3>2, UsersAsk DEF Asks, memory
    <3>3. CASE Polls
      BY <3>1, <3>3, PollsMove DEF PollMoves
    <3>4. CASE Environment
      <4>1. CASE networkDisconnected
        BY <3>1, <4>1 DEF networkDisconnected
      <4>3. CASE WorkerDies
        <5>1. revision' = 0
          BY <4>3, Forgetting
        <5> QED BY <5>1
      <4>2. CASE ~(networkDisconnected \/ WorkerDies)
        BY <3>1, <3>4, <4>2, HelperServes DEF Environment, Ready, WorkerStarts, PortOpens, Procs,
           OtherControl, Timeout, Serves, HelperMoves, memory
      <4> QED BY <4>1, <4>2, <4>3
    <3>5. CASE (\E r \in Challenges : Auth(r)) \/ UNCHANGED vars
      BY <3>1, <3>5 DEF Auth, Challenge, AuthReady, AuthSettings, Completed, memory, vars
    <3> QED BY <3>1, <3>2, <3>3, <3>4, <3>5 DEF Next
  <2>5. revision' \in 0..MaxRequests + MaxHelpers
    BY <1>2, <2>2, <2>3, <2>4, BoundAssumption
  <2> QED BY <1>2, <2>5 DEF WorkerTypes
<1>3. ASSUME UNCHANGED <<ssh, creds>> PROVE Shown'
  BY <1>1, <1>3
<1>4. ASSUME UNCHANGED <<worker, mut, poll, asked, by>> PROVE Running'
  BY <1>1, <1>4
<1>5. None \in Credentials \cup {None}
  OBVIOUS
<1>6. ASSUME NEW i \in Ids, Mutation(i) PROVE WorkerTypes'
  <2>1. Moves(i) /\ Showing(i)
    BY <1>6, MutationMoves, MutationEffects
  <2>2. mut[i].pc # "none"
    BY <2>1 DEF Moves, Active
  <2>3. i \in 0..asked
    BY <1>1, <2>2 DEF Serial
  <2>4. Running'
    BY <1>1, <2>1, <2>3 DEF Moves
  <2>5. call[i] = "back" \/ mut[i].pc = "store" => got[i] \in Snapshots
    BY DEF FromHelper, Replies, Revised
  <2>6. Shown'
    BY <1>1, <1>5, <2>1, <2>5, Accepting DEF Showing
  <2> QED BY <1>2, <2>4, <2>6
<1>7. CASE UserAsks
  <2>1. Asks
    BY <1>7, UsersAsk
  <2>2. asked + 1 \in 0..MaxRequests
    BY <1>1, <2>1, BoundAssumption DEF Asks, Ids
  <2>3. Running'
    BY <1>1, <2>1, <2>2 DEF Asks
  <2> QED BY <1>2, <1>3, <2>1, <2>3 DEF Asks, memory
<1>8. CASE Polls
  <2>1. PollMoves
    BY <1>8, PollsMove
  <2>2. Running'
    BY <1>1, <2>1 DEF PollMoves
  <2>3. Shown'
    BY <1>1, <1>5, <2>1, Accepting DEF PollMoves, PollShows
  <2> QED BY <1>2, <2>2, <2>3
<1>9. CASE \E r \in Challenges : Auth(r)
  BY <1>2, <1>3, <1>4, <1>9 DEF Auth, Challenge, AuthReady, AuthSettings, Completed, memory
<1>10. CASE Environment
  <2>1. CASE Ready \/ WorkerStarts
    BY <1>1, <1>2, <1>3, <2>1 DEF Ready, WorkerStarts, memory
  <2>2. CASE WorkerDies
    BY <1>1, <1>2, <1>5, <2>2, Forgetting
  <2>3. CASE networkDisconnected
    <3>1. ssh' \in Statuses
      BY <1>1, <2>3 DEF networkDisconnected, Gone, Statuses, Routes
    <3> QED BY <1>2, <1>4, <1>5, <2>3, <3>1 DEF networkDisconnected
  <2>4. CASE ~(Ready \/ WorkerStarts \/ WorkerDies \/ networkDisconnected)
    <3>1. UNCHANGED <<ssh, creds, worker, mut, poll, asked, by>>
      BY <1>10, <2>4, HelperServes DEF Environment, PortOpens, Procs, OtherControl, Timeout, Serves,
         HelperMoves, memory
    <3> QED BY <1>2, <1>3, <1>4, <3>1
  <2> QED BY <2>1, <2>2, <2>3, <2>4
<1>11. CASE UNCHANGED vars
  BY <1>2, <1>3, <1>4, <1>11 DEF vars, memory
<1> QED BY <1>6, <1>7, <1>8, <1>9, <1>10, <1>11 DEF Next

LEMMA InitInv == Init => IInv
<1> SUFFICES ASSUME Init PROVE IInv
  OBVIOUS
<1>1. /\ 0 \in 0..MaxSessions /\ 0 \in 0..MaxHelpers /\ 0 \in 0..MaxRequests
      /\ 0 \in 0..MaxRequests + MaxHelpers
      /\ \A i \in Ids : i \in Nat /\ i > 0
  BY BoundAssumption DEF Ids
<1>2. /\ NoRequest \in Requests /\ NoRequest.pc = "none" /\ NoRequest.op = "none" /\ NoRequest.rev = 0
      /\ Gone \in Statuses /\ Gone.state = "disconnected"
      /\ NoCall \in NativeCalls /\ NoCall.op = "none"
      /\ IdlePoll \in [pc : {"idle", "status", "old"}, rev : Nat] /\ IdleAuth \in AuthStates
  BY <1>1, NoRequestTypes
     DEF NoRequest, Gone, Statuses, NoCall, NativeCalls, IdlePoll, IdleAuth, AuthStates
<1>3. /\ Fresh(0, FALSE) \in HelperStates(0..MaxHelpers) /\ Fresh(0, FALSE).state = "disconnected"
      /\ Fresh(0, FALSE).gen = 0
  BY <1>1 DEF Fresh, HelperStates
<1>4. ChromeTypes /\ ActiveProxyIsStored
  <2>1. route = None /\ other = FALSE /\ worker = "starting"
    BY DEF Init
  <2>2. CASE ours = None /\ stored = None
    BY <2>1, <2>2 DEF ChromeTypes, ActiveProxyIsStored, Proxies
  <2>3. ASSUME NEW r \in Routes, stored = r, ours \in {Http(r.port), Socks(r.port)}
        PROVE  ChromeTypes /\ ActiveProxyIsStored
    <3>1. Http(r.port) \in Proxies /\ Socks(r.port) \in Proxies /\ r # None
      BY NoneAssumption DEF Proxies, Http, Socks, Routes
    <3> QED BY <2>1, <2>3, <3>1 DEF ChromeTypes, ActiveProxyIsStored
  <2> QED BY <2>2, <2>3 DEF Init
<1>5. WorkerTypes /\ CallTypes /\ HelperTypes /\ AuthTypes
  <2>1. WorkerTypes
    BY <1>1, <1>2 DEF Init, WorkerTypes
  <2>2. CallTypes
    BY <1>2 DEF Init, CallTypes
  <2>3. HelperTypes
    BY <1>1, <1>3 DEF Init, HelperTypes
  <2>4. AuthTypes
    BY <1>2 DEF Init, AuthTypes
  <2> QED BY <2>1, <2>2, <2>3, <2>4
<1>6. mut = [i \in Ids |-> NoRequest] /\ \A i \in Ids : mut[i] = NoRequest
  BY DEF Init
<1>7. Serial /\ Prepared
  BY <1>1, <1>2, <1>6 DEF Init, Serial, Prepared, Started, Active
<1>8. Counted
  <2>1. 0 \in 0..asked /\ revision <= 0 + helper.gen - (IF port THEN 1 ELSE 0)
    <3>1. asked = 0 /\ revision = 0 /\ port = FALSE
      BY DEF Init
    <3>2. helper.gen = 0
      BY DEF Init, Fresh
    <3> QED BY <3>1, <3>2
  <2> QED BY <1>2, <1>6, <2>1 DEF Counted, Started
<1>9. FromHelper
  <2>1. /\ port = FALSE /\ helper = Fresh(0, FALSE) /\ revision = 0
        /\ \A p \in Ids \cup {0} : call[p] = "idle" /\ wire[p] = NoCall
    BY DEF Init
  <2>2. Replies
    BY <1>3, <2>1 DEF Replies, OfSession
  <2>4. /\ \A i \in Ids : mut[i].op = "none" /\ mut[i].rev = 0 /\ mut[i].pc = "none"
        /\ \A p \in Ids \cup {0} : wire[p].op = "none"
    BY <1>2, <1>6, <2>1
  <2>3. OnWire /\ Revised
    <3>1. OnWire
      BY <2>4 DEF OnWire
    <3>2. \A i \in Ids : mut[i].rev <= revision
      BY <2>1, <2>4
    <3> QED BY <2>4, <3>1, <3>2 DEF Revised
  <2> QED BY <2>2, <2>3 DEF FromHelper
<1>10. GivenOnce /\ StatusIsOfThisHelper
  BY <1>2 DEF Init, GivenOnce, StatusIsOfThisHelper
<1> QED BY <1>4, <1>5, <1>7, <1>8, <1>9, <1>10 DEF IInv, TypeOK

LEMMA StepInv == IInv /\ [Next]_vars => IInv'
<1> SUFFICES ASSUME IInv, [Next]_vars PROVE IInv'
  OBVIOUS
<1>1. /\ TypeOK /\ Serial /\ Counted /\ Prepared /\ FromHelper /\ GivenOnce
      /\ ActiveProxyIsStored /\ StatusIsOfThisHelper
  BY DEF IInv
<1>2. Prepared' /\ ActiveProxyIsStored' /\ ChromeTypes'
  BY <1>1, RouteKept
<1>3. TypeOK'
  BY <1>1, <1>2, WorkerKept, CallsKept, AuthKept DEF TypeOK
<1>4. FromHelper'
  BY <1>1, RepliesKept, OnWireKept, RevisedKept DEF FromHelper
<1>5. Serial' /\ Counted' /\ GivenOnce' /\ StatusIsOfThisHelper'
  BY <1>1, SerialKept, CountedKept, GivenOnceKept, StatusKept
<1> QED BY <1>2, <1>3, <1>4, <1>5 DEF IInv

LEMMA Inductive == Spec => []IInv
BY InitInv, StepInv, PTL DEF Spec

-----------------------------------------------------------------------------
(* The theorems.                                                           *)

\* Every variable of the worker, of Chrome and of the helper keeps its type:
\* no reply or retry leaves a request in a state that network.js does not know.
THEOREM RouteTypes == Spec => []TypeOK
BY Inductive, PTL DEF IInv

\* An active proxy of ours always has its route in storage, and a worker that
\* is ready knows that route, whenever the worker may die (network.js:283).
THEOREM ProxyIsStored == Spec => []ActiveProxyIsStored
BY Inductive, PTL DEF IInv

\* A status shown as connected and the credentials are of the helper behind the
\* open port and of the current revision (acceptSSH); a helper without proxy
\* authentication is never asked to connect (connectSSH).
THEOREM StatusOfHelper == Spec => []StatusIsOfThisHelper
BY Inductive, PTL DEF IInv

\* The proxy stops being ours only by an OFF or a sign-in that agreed to it
\* (clearNetwork), and is replaced only by the authenticated form of the same
\* route (migrateLegacyRoute); no loss of SSH clears or moves it.  A sign-in
\* tab opens for the session that the user was shown, and off the route.
THEOREM ProxyIsTheUsers == Spec => RouteByConsent
<1>1. IInv /\ [Next]_vars =>
        (ours # None /\ ours' # ours =>
           \/ \E i \in Ids : /\ mut[i].pc \in {"clear", "apply"}
                             /\ mut'[i].pc # mut[i].pc
                             /\ mut[i].pc = "clear" => \/ mut[i].op = "off"
                                                       \/ mut[i].turnOff
           \/ ours' = Http(ours.port))
  <2> SUFFICES ASSUME IInv, [Next]_vars, ours # None, ours' # ours,
                      ours' # Http(ours.port)
               PROVE  \E i \in Ids :
                        /\ mut[i].pc \in {"clear", "apply"}
                        /\ mut'[i].pc # mut[i].pc
                        /\ mut[i].pc = "clear" => mut[i].op = "off" \/ mut[i].turnOff
    OBVIOUS
  <2>1. TypeOK /\ Serial /\ Prepared /\ FromHelper
    BY DEF IInv
  <2>2. ~(Legacy /\ ours' = Http(route.port))
    BY DEF Legacy, Socks, Http
  <2>3. CASE \E i \in Ids : Mutation(i)
    <3>1. PICK i \in Ids : Mutation(i)
      BY <2>3
    <3>2. Routing(i)
      BY <2>1, <3>1, MutationEffects
    <3> QED BY <2>1, <2>2, <3>2 DEF Routing, Prepared
  <2>4. CASE Polls
    BY <2>1, <2>2, <2>4, PollsMove DEF PollMoves
  <2>5. CASE ~Polls /\ ~\E i \in Ids : Mutation(i)
    <3>1. UNCHANGED ours
      BY <2>1, <2>5, UsersAsk, HelperServes
         DEF Next, vars, Asks, Auth, Challenge, AuthReady, AuthSettings, Completed, Environment, Ready,
             WorkerDies, WorkerStarts, PortOpens, networkDisconnected, OtherControl, Timeout, Procs,
             Serves, HelperMoves, chromeVars
    <3> QED BY <3>1
  <2> QED BY <2>3, <2>4, <2>5
<1>2. IInv => \A i \in Ids : Opens(i) =>
        /\ route = None /\ (ours = None \/ other) /\ got[i].sid = mut[i].sid /\ port
  <2> SUFFICES ASSUME IInv, NEW i \in Ids, Opens(i)
               PROVE  /\ route = None /\ (ours = None \/ other)
                      /\ got[i].sid = mut[i].sid /\ port
    OBVIOUS
  <2>1. /\ Prepared /\ Replies /\ ActiveProxyIsStored
    BY DEF IInv, FromHelper
  <2>2. /\ worker = "ready" /\ mut[i].pc = "verify" /\ call[i] = "back"
        /\ mut[i].sid = got[i].sid
    BY DEF Opens, Returned, At, Pending
  <2> QED BY <2>1, <2>2 DEF Prepared, Replies, OfHelper, ActiveProxyIsStored
<1>3. IInv /\ [Next]_vars =>
        (\A i \in Ids : Opens(i) /\ mut'[i].pc = "done" /\ worker' = "ready" =>
           /\ route = None /\ (ours = None \/ other)
           /\ got[i].sid = mut[i].sid /\ port)
  BY <1>2
<1>4. Spec => RouteOnlyByConsent
  BY <1>1, Inductive, PTL DEF Spec, RouteOnlyByConsent
<1>5. Spec => SignInOffRoute
  BY <1>3, Inductive, PTL DEF Spec, SignInOffRoute
<1> QED BY <1>4, <1>5 DEF RouteByConsent

\* A web request gets the credentials at most once, and only if the helper that
\* issued them asks, through our applied and stored proxy (proxyAuth).
THEOREM CredentialsOnce == Spec => AnswersOwnChallenge
<1>1. IInv /\ [Next]_vars =>
        (\A r \in Challenges : given'[r] > given[r] =>
           /\ given[r] = 0
           /\ port /\ auth[r].gen = helper.gen
           /\ ours = Http(route.port) /\ stored = route)
  <2> SUFFICES ASSUME IInv, [Next]_vars, NEW r \in Challenges, given'[r] > given[r]
               PROVE  /\ given[r] = 0
                      /\ port /\ auth[r].gen = helper.gen
                      /\ ours = Http(route.port) /\ stored = route
    OBVIOUS
  <2>1. /\ TypeOK /\ Serial /\ FromHelper /\ GivenOnce /\ ActiveProxyIsStored
        /\ StatusIsOfThisHelper
    BY DEF IInv
  <2>2. given \in [Challenges -> Nat] /\ ~(0 > given[r]) /\ ~(given[r] > given[r])
    BY <2>1 DEF TypeOK, AuthTypes
  <2>3. ~UNCHANGED given
    BY <2>2
  <2>4. \A i \in Ids : ~Mutation(i)
    BY <2>1, <2>3, MutationMoves DEF Moves, authVars
  <2>5. ~UserAsks /\ ~Polls
    BY <2>1, <2>3, UsersAsk, PollsMove DEF Asks, PollMoves, authVars
  <2>6. ~Environment /\ ~UNCHANGED vars
    <3>1. ~WorkerDies
      BY <2>1, <2>2, Forgetting
    <3> QED BY <2>1, <2>3, <3>1, HelperServes
            DEF vars, Environment, Ready, WorkerStarts, PortOpens, networkDisconnected, OtherControl,
                Timeout, Procs, Serves, HelperMoves, authVars
  <2>7. PICK q \in Challenges : Auth(q)
    BY <2>4, <2>5, <2>6 DEF Next
  <2>8. AuthSettings(q) \/ Completed(q)
    BY <2>3, <2>7 DEF Auth, Challenge, AuthReady
  <2>9. ~Completed(q)
    BY <2>2 DEF Completed
  <2>10. worker = "ready" /\ Answers(q) /\ given' = [given EXCEPT ![q] = @ + 1]
    BY <2>3, <2>8, <2>9 DEF AuthSettings
  <2>11. q = r
    BY <2>2, <2>10
  <2> QED BY <2>1, <2>10, <2>11 DEF Answers, applied, GivenOnce, ActiveProxyIsStored,
                                     StatusIsOfThisHelper
<1> QED BY <1>1, Inductive, PTL DEF Spec, AnswersOwnChallenge

\* Requests take effect in the order in which they were made (mutate): the
\* safety half of OffWins.
THEOREM RequestsInOrder == Spec => EffectsInOrder
<1>1. IInv /\ [Next]_vars => (worker = "ready" => by' >= by)
  <2> SUFFICES ASSUME IInv, [Next]_vars PROVE by' >= by
    OBVIOUS
  <2>1. TypeOK /\ Serial /\ FromHelper
    BY DEF IInv
  <2>2. by \in Nat /\ \A i \in Ids : i \in Nat
    BY <2>1, BoundAssumption DEF TypeOK, WorkerTypes, Ids
  <2>3. ASSUME NEW i \in Ids, Mutation(i) PROVE by' >= by
    <3>1. by' \in {by, i} /\ mut[i].pc # "done"
      BY <2>1, <2>3, MutationMoves DEF Moves, Active
    <3> QED BY <2>1, <2>2, <3>1 DEF Serial
  <2>4. CASE ~\E i \in Ids : Mutation(i)
    <3>1. UNCHANGED by
      BY <2>1, <2>4, UsersAsk, PollsMove, HelperServes
         DEF Next, vars, Asks, PollMoves, Auth, Challenge, AuthReady, AuthSettings, Completed,
             Environment, Ready, WorkerDies, WorkerStarts, PortOpens, networkDisconnected,
             OtherControl, Timeout, Procs, Serves, HelperMoves
    <3> QED BY <2>2, <3>1
  <2> QED BY <2>3, <2>4
<1> QED BY <1>1, Inductive, PTL DEF Spec, EffectsInOrder
=============================================================================
