----------------------- MODULE TetherLifecycle_proofs -----------------------
(***************************************************************************)
(* Proofs about TetherLifecycle: a Disconnect that is over leaves nothing  *)
(* of the connection, requests that overtake each other leave what the     *)
(* latest said, and a Disconnect keeps what it reports.                    *)
(***************************************************************************)
EXTENDS TetherLifecycle, SequenceTheorems, TLAPS

-----------------------------------------------------------------------------
(* Two chains of promises: the operations of network.js and the writes of  *)
(* saveTether.                                                             *)

Elems(q) == {q[i] : i \in 1 .. Len(q)}

\* A request asks once.
Once(q) == \A i, j \in 1 .. Len(q) : q[i].by # 0 /\ q[i].by = q[j].by => i = j

\* What is in A was asked for before what is in B.
Precede(q, A, B) == \A i, j \in 1 .. Len(q) : q[i] \in A /\ q[j] \in B => i < j

Saves   == [enabled : {"yes", "no"}, host : Hosts \cup {None}, by : Requests \cup {0, -1}]
Asked   == {w \in Saves : w.by > 0}
Opening == {o \in Operations : o.op \in {"connect", "on"}}
Last(S) == {x \in S : x.by = -1}

-----------------------------------------------------------------------------
(* The inductive invariant.                                                *)

Requested   == [pc : {"idle", "ssh", "save", "closing"}, kind : {"connect", "reconnect"},
                rev : 0..MaxRevision, host : Hosts \cup {None}]
Disconnects == [pc : {"none", "save", "off", "ssh", "settle", "detach", "commands"},
                by : Requests \cup {0}, failed : BOOLEAN, waits : SUBSET Commands]
Stores      == [enabled : {"yes", "no", "unset"}, host : Hosts \cup {None}]

Stages      == [pc : {"idle", "handler", "attach", "check", "sent"}, tab : Tabs]

TypedControl ==
  /\ boot \in {"read", "save", "ready"}
  /\ enabled \in BOOLEAN /\ connecting \in BOOLEAN
  /\ revision \in 0..MaxRevision + 1
  /\ host \in Hosts \cup {None}
  /\ request \in [Requests -> Requested]
  /\ disc \in Disconnects
  /\ port \in BOOLEAN /\ timer \in BOOLEAN
  /\ session \in Hosts \cup {None}
  /\ saved \in Stores
  /\ routed \in BOOLEAN
  /\ writes \in Seq(Saves) /\ network \in Seq(Operations)

\* A worker that has not read its state has begun nothing.
Booting ==
  boot # "ready" => /\ ~enabled /\ ~connecting /\ disc.pc = "none" /\ ~port
                    /\ Elems(network) = {} /\ \A n \in Requests : request[n].pc = "idle"
                    /\ Len(writes) = IF boot = "save" THEN 1 ELSE 0

Open(n) == request[n].pc \in {"ssh", "save"}

\* One request is the current one, while Tether connects; the others are those
\* that a Disconnect in progress has cancelled.
Calls ==
  /\ \A n \in Requests :
       /\ request[n].rev <= revision
       /\ request[n].pc = "closing" => disc.pc # "none" /\ disc.by = n
       /\ request[n].pc = "save" => request[n].kind = "connect"
       /\ Open(n) /\ Current(n) => connecting /\ (enabled <=> request[n].kind = "reconnect")
       /\ Open(n) /\ ~Current(n) => disc.pc # "none"
       /\ \A m \in Requests : Open(n) /\ Open(m) /\ Current(n) /\ Current(m) => n = m
  /\ disc.pc # "none" /\ disc.by # 0 => request[disc.by].pc = "closing"
  /\ connecting => \E n \in Requests : Open(n) /\ Current(n)
  /\ disc.pc # "none" => ~enabled /\ ~connecting

Ports ==
  /\ port => enabled \/ connecting \/ disc.pc \in {"save", "off", "ssh"}
  /\ session # None => port

\* The operations of a request and of a Disconnect are where their calls are, and
\* those that open something come before those that close it.
Operated ==
  /\ Once(network) /\ Precede(network, Opening, Last(Operations))
  /\ \A o \in Elems(network) :
       /\ o.by > 0 => o.op = "connect" /\ request[o.by].pc = "ssh" /\ o.host = request[o.by].host
       /\ o.by = -1 => \/ o.op = "off" /\ disc.pc = "off"
                       \/ o.op = "end" /\ disc.pc = "ssh"
       /\ o.op = "end" => o.by = -1
       /\ o.op \in {"connect", "on"} => enabled \/ connecting \/ disc.pc \in {"save", "off"}
  /\ \A n \in Requests : request[n].pc = "ssh" => \E o \in Elems(network) : o.by = n

\* So are the writes.
Stored ==
  /\ Once(writes) /\ Precede(writes, Asked, Last(Saves))
  /\ \A w \in Elems(writes) :
       /\ w.by > 0  => request[w.by].pc = "save"
       /\ w.by = -1 => disc.pc = "save"
       /\ w.by = 0  => boot = "save"
  /\ \A n \in Requests : request[n].pc = "save" => \E w \in Elems(writes) : w.by = n

\* The helper is asked for the host that is, or will be, the worker's.
Hosted ==
  /\ enabled => /\ saved = [enabled |-> "yes", host |-> host]
                /\ session \in {host, None}
                /\ \A o \in Elems(network) : o.op = "connect" => o.host = host
  /\ ~enabled => \A n \in Requests : Open(n) /\ Current(n) =>
                   /\ session \in {None, request[n].host}
                   /\ \A o \in Elems(network) : o.op = "connect" => o.by = n

\* What a Disconnect has done by then.
Closing ==
  /\ disc.pc \notin {"none", "save"} =>
       /\ \A n \in Requests : request[n].pc # "save"
       /\ ~disc.failed => saved.enabled = "no"
  /\ disc.pc \in {"ssh", "settle", "detach", "commands"} =>
       /\ \A n \in Requests : request[n].pc # "ssh"
       /\ ~disc.failed => ~routed

Control == /\ TypedControl /\ Booting /\ Calls /\ Ports
           /\ Operated /\ Stored /\ Hosted /\ Closing

TypedAutomation ==
  /\ command \in [Commands -> Stages]
  /\ stale \subseteq Commands
  /\ attaching \in [Tabs -> {"none", "tab", "debugger", "detach", "focus"}]
  /\ attached \subseteq Tabs /\ debugging \subseteq Tabs

\* The debugger works in the tabs the worker knows of, and in none once Tether is
\* disconnected.
Debugged ==
  /\ \A t \in debugging : t \in attached \/ attaching[t] = "detach"
  /\ disc.pc \in {"detach", "commands"} \/ (~enabled /\ disc.pc = "none")
       => \A t \in Tabs : attaching[t] = "none"
  /\ ~enabled /\ disc.pc \in {"none", "commands"} => debugging = {}

\* A Disconnect waits for the commands it found.
Awaited ==
  /\ stale \subseteq Active
  /\ disc.pc = "none" => stale = {}
  /\ disc.pc = "commands" => stale \subseteq disc.waits

Automation == TypedAutomation /\ Debugged /\ Awaited

IInv == Control /\ Automation

-----------------------------------------------------------------------------
(* Lemmas about the chains.                                                *)

LEMMA NoElems == Elems(<<>>) = {} /\ Once(<<>>) /\ \A A, B : Precede(<<>>, A, B)
<1>1. Len(<<>>) = 0
  BY EmptySeq
<1>2. 1 .. 0 = {}
  OBVIOUS
<1> QED  BY <1>1, <1>2 DEF Elems, Once, Precede

LEMMA Appended ==
  ASSUME NEW S, NEW q \in Seq(S), NEW e \in S
  PROVE  Append(q, e) \in Seq(S) /\ Elems(Append(q, e)) = Elems(q) \cup {e}
<1>1. /\ Append(q, e) \in Seq(S) /\ Len(q) \in Nat /\ Len(Append(q, e)) = Len(q) + 1
      /\ \A i \in 1 .. Len(q) : Append(q, e)[i] = q[i]
      /\ Append(q, e)[Len(q) + 1] = e
  BY AppendProperties, LenProperties
<1>2. 1 .. Len(q) + 1 = (1 .. Len(q)) \cup {Len(q) + 1}
  BY <1>1
<1> QED  BY <1>1, <1>2 DEF Elems

LEMMA OnceAppended ==
  ASSUME NEW S, NEW q \in Seq(S), NEW e \in S, Once(q),
         e.by = 0 \/ \A x \in Elems(q) : x.by # e.by
  PROVE  Once(Append(q, e))
<1>1. /\ Len(q) \in Nat /\ Len(Append(q, e)) = Len(q) + 1
      /\ \A i \in 1 .. Len(q) : Append(q, e)[i] = q[i] /\ q[i] \in Elems(q)
      /\ Append(q, e)[Len(q) + 1] = e
  BY AppendProperties, LenProperties DEF Elems
<1> SUFFICES ASSUME NEW i \in 1 .. Len(q) + 1, NEW j \in 1 .. Len(q) + 1,
                    Append(q, e)[i].by # 0, Append(q, e)[i].by = Append(q, e)[j].by
             PROVE  i = j
  BY <1>1 DEF Once
<1>2. CASE i \in 1 .. Len(q) /\ j \in 1 .. Len(q)
  BY <1>1, <1>2 DEF Once
<1>3. CASE i = Len(q) + 1 /\ j \in 1 .. Len(q)
  BY <1>1, <1>3
<1>4. CASE j = Len(q) + 1 /\ i \in 1 .. Len(q)
  BY <1>1, <1>4
<1> QED  BY <1>1, <1>2, <1>3, <1>4

LEMMA PrecedeAppended ==
  ASSUME NEW S, NEW q \in Seq(S), NEW e \in S, NEW A, NEW B, Precede(q, A, B),
         e \notin A \/ (e \notin B /\ Elems(q) \cap B = {})
  PROVE  Precede(Append(q, e), A, B)
<1>1. /\ Len(q) \in Nat /\ Len(Append(q, e)) = Len(q) + 1
      /\ \A i \in 1 .. Len(q) : Append(q, e)[i] = q[i] /\ q[i] \in Elems(q)
      /\ Append(q, e)[Len(q) + 1] = e
  BY AppendProperties, LenProperties DEF Elems
<1> SUFFICES ASSUME NEW i \in 1 .. Len(q) + 1, NEW j \in 1 .. Len(q) + 1,
                    Append(q, e)[i] \in A, Append(q, e)[j] \in B
             PROVE  i < j
  BY <1>1 DEF Precede
<1>2. CASE i \in 1 .. Len(q) /\ j \in 1 .. Len(q)
  BY <1>1, <1>2 DEF Precede
<1>3. CASE i = Len(q) + 1
  BY <1>1, <1>3
<1>4. CASE j = Len(q) + 1 /\ i \in 1 .. Len(q)
  BY <1>1, <1>4
<1> QED  BY <1>1, <1>2, <1>3, <1>4

\* What is left when the first is done.
LEMMA HeadDone ==
  ASSUME NEW S, NEW q \in Seq(S), q # <<>>, NEW A, NEW B, Once(q), Precede(q, A, B)
  PROVE  LET r == SubSeq(q, 1, 1 - 1) \o SubSeq(q, 1 + 1, Len(q)) IN
         /\ r \in Seq(S) /\ Len(r) = Len(q) - 1 /\ Once(r) /\ Precede(r, A, B)
         /\ q[1] \in Elems(q) /\ q[1] \in S /\ Elems(q) \subseteq S
         /\ Elems(r) \subseteq Elems(q)
         /\ \A x \in Elems(q) : x # q[1] => x \in Elems(r)
         /\ q[1].by # 0 => \A x \in Elems(r) : x.by # q[1].by
         /\ q[1] \in B => Elems(q) \cap A = {}
<1> DEFINE r == SubSeq(q, 1, 1 - 1) \o SubSeq(q, 1 + 1, Len(q))
<1>1. Len(q) \in Nat /\ Len(q) >= 1 /\ \A i \in 1 .. Len(q) : q[i] \in S
  BY EmptySeq, LenProperties, ElementOfSeq
<1>2. /\ SubSeq(q, 1, 0) \in Seq(S) /\ Len(SubSeq(q, 1, 0)) = 0
  BY <1>1, SubSeqProperties
<1>3. /\ SubSeq(q, 2, Len(q)) \in Seq(S) /\ Len(SubSeq(q, 2, Len(q))) = Len(q) - 1
      /\ \A i \in 1 .. Len(q) - 1 : SubSeq(q, 2, Len(q))[i] = q[i + 1]
  <2>1. 2 \in Int /\ Len(q) \in Int /\ (2 <= Len(q) => 2 \in 1 .. Len(q) /\ Len(q) \in 1 .. Len(q))
    BY <1>1
  <2>2. /\ SubSeq(q, 2, Len(q)) \in Seq(S)
        /\ Len(SubSeq(q, 2, Len(q))) = IF 2 <= Len(q) THEN Len(q) - 2 + 1 ELSE 0
        /\ \A i \in 1 .. Len(q) - 2 + 1 : SubSeq(q, 2, Len(q))[i] = q[2 + i - 1]
    BY <1>1, <2>1, SubSeqProperties
  <2>3. \A i \in 1 .. Len(q) - 1 : 2 + i - 1 = i + 1
    BY <1>1
  <2>4. Len(q) - 2 + 1 = Len(q) - 1
    BY <1>1
  <2> QED  BY <1>1, <2>2, <2>3, <2>4
<1>4. r = SubSeq(q, 1, 0) \o SubSeq(q, 2, Len(q))
  OBVIOUS
<1> HIDE DEF r
<1>5. r \in Seq(S) /\ Len(r) = Len(q) - 1 /\ \A i \in 1 .. Len(q) - 1 : r[i] = q[i + 1]
  BY <1>1, <1>2, <1>3, <1>4, ConcatProperties
<1>6. Once(r)
  <2> SUFFICES ASSUME NEW i \in 1 .. Len(q) - 1, NEW j \in 1 .. Len(q) - 1,
                      q[i + 1].by # 0, q[i + 1].by = q[j + 1].by
               PROVE  i = j
    BY <1>5 DEF Once
  <2>1. i + 1 \in 1 .. Len(q) /\ j + 1 \in 1 .. Len(q)
    BY <1>1
  <2>2. i + 1 = j + 1
    BY <2>1 DEF Once
  <2> QED  BY <2>2
<1>7. Precede(r, A, B)
  <2> SUFFICES ASSUME NEW i \in 1 .. Len(q) - 1, NEW j \in 1 .. Len(q) - 1,
                      q[i + 1] \in A, q[j + 1] \in B
               PROVE  i < j
    BY <1>5 DEF Precede
  <2>1. i + 1 \in 1 .. Len(q) /\ j + 1 \in 1 .. Len(q)
    BY <1>1
  <2>2. i + 1 < j + 1
    BY <2>1 DEF Precede
  <2> QED  BY <2>2
<1>8. ASSUME NEW x \in Elems(r) PROVE x \in Elems(q) /\ (q[1].by # 0 => x.by # q[1].by)
  <2>0. PICK i \in 1 .. Len(q) - 1 : x = q[i + 1]
    BY <1>5 DEF Elems
  <2>1. i + 1 \in 1 .. Len(q) /\ 1 \in 1 .. Len(q) /\ i + 1 # 1
    BY <1>1
  <2> QED  BY <2>0, <2>1 DEF Elems, Once
<1>9. ASSUME NEW x \in Elems(q), x # q[1] PROVE x \in Elems(r)
  <2>1. PICK i \in 1 .. Len(q) : x = q[i]
    BY DEF Elems
  <2>2. i # 1
    BY <1>9, <2>1
  <2>3. i - 1 \in 1 .. Len(q) - 1 /\ q[(i - 1) + 1] = q[i]
    BY <1>1, <2>2
  <2> QED  BY <1>5, <2>1, <2>3 DEF Elems
<1>10. q[1] \in B => Elems(q) \cap A = {}
  <2> SUFFICES ASSUME q[1] \in B, NEW i \in 1 .. Len(q), q[i] \in A PROVE FALSE
    BY DEF Elems
  <2>1. 1 \in 1 .. Len(q)
    BY <1>1
  <2>2. i < 1
    BY <2>1 DEF Precede
  <2> QED  BY <2>2
<1>11. q[1] \in Elems(q) /\ q[1] \in S /\ Elems(q) \subseteq S
  BY <1>1 DEF Elems
<1> QED  BY <1>5, <1>6, <1>7, <1>8, <1>9, <1>10, <1>11 DEF r

\* The operation that runs is done: it was the first.
LEMMA NetworkDone ==
  ASSUME Control, NEW i \in 1 .. Len(network), Done(i)
  PROVE  LET r == Without(i) IN
         /\ r \in Seq(Operations) /\ Once(r) /\ Precede(r, Opening, Last(Operations))
         /\ network[i] \in Elems(network) /\ network[i] \in Operations
         /\ Elems(network) \subseteq Operations /\ Elems(r) \subseteq Elems(network)
         /\ \A x \in Elems(network) : x # network[i] => x \in Elems(r)
         /\ network[i].by # 0 => \A x \in Elems(r) : x.by # network[i].by
         /\ network[i].by = -1 => \A x \in Elems(network) : x.op \notin {"connect", "on"}
<1>1. network \in Seq(Operations) /\ Once(network) /\ Precede(network, Opening, Last(Operations))
  BY DEF Control, TypedControl, Operated
<1>2. i = 1 /\ network # <<>>
  BY DEF Done
<1>3. Without(i) = SubSeq(network, 1, 1 - 1) \o SubSeq(network, 1 + 1, Len(network))
  BY <1>2 DEF Without
<1> DEFINE r == SubSeq(network, 1, 1 - 1) \o SubSeq(network, 1 + 1, Len(network))
<1>4. /\ r \in Seq(Operations) /\ Once(r) /\ Precede(r, Opening, Last(Operations))
      /\ network[1] \in Elems(network) /\ network[1] \in Operations
      /\ Elems(network) \subseteq Operations /\ Elems(r) \subseteq Elems(network)
      /\ \A x \in Elems(network) : x # network[1] => x \in Elems(r)
      /\ network[1].by # 0 => \A x \in Elems(r) : x.by # network[1].by
      /\ network[1] \in Last(Operations) => Elems(network) \cap Opening = {}
  BY <1>1, <1>2, HeadDone, Zenon
<1> HIDE DEF r
<1>5. network[1].by = -1 => \A x \in Elems(network) : x.op \notin {"connect", "on"}
  BY <1>4 DEF Last, Opening
<1>6. Without(i) = r
  BY <1>3 DEF r
<1> QED  BY <1>2, <1>4, <1>5, <1>6

\* The write that is first is done.
LEMMA WritesDone ==
  ASSUME Control, NEW i \in 1 .. Len(writes), Written(i)
  PROVE  LET r == Unwritten(i) IN
         /\ r \in Seq(Saves) /\ Once(r) /\ Precede(r, Asked, Last(Saves)) /\ Len(r) = Len(writes) - 1
         /\ writes[i] \in Elems(writes) /\ writes[i] \in Saves
         /\ Elems(writes) \subseteq Saves /\ Elems(r) \subseteq Elems(writes)
         /\ \A x \in Elems(writes) : x # writes[i] => x \in Elems(r)
         /\ writes[i].by # 0 => \A x \in Elems(r) : x.by # writes[i].by
         /\ writes[i].by = -1 => \A x \in Elems(writes) : ~(x.by > 0)
<1>1. writes \in Seq(Saves) /\ Once(writes) /\ Precede(writes, Asked, Last(Saves))
  BY DEF Control, TypedControl, Stored
<1>2. i = 1 /\ writes # <<>>
  BY DEF Written
<1>3. Unwritten(i) = SubSeq(writes, 1, 1 - 1) \o SubSeq(writes, 1 + 1, Len(writes))
  BY <1>2 DEF Unwritten
<1> DEFINE r == SubSeq(writes, 1, 1 - 1) \o SubSeq(writes, 1 + 1, Len(writes))
<1>4. /\ r \in Seq(Saves) /\ Once(r) /\ Precede(r, Asked, Last(Saves)) /\ Len(r) = Len(writes) - 1
      /\ writes[1] \in Elems(writes) /\ writes[1] \in Saves
      /\ Elems(writes) \subseteq Saves /\ Elems(r) \subseteq Elems(writes)
      /\ \A x \in Elems(writes) : x # writes[1] => x \in Elems(r)
      /\ writes[1].by # 0 => \A x \in Elems(r) : x.by # writes[1].by
      /\ writes[1] \in Last(Saves) => Elems(writes) \cap Asked = {}
  BY <1>1, <1>2, HeadDone, Zenon
<1> HIDE DEF r
<1>5. writes[1].by = -1 => \A x \in Elems(writes) : ~(x.by > 0)
  BY <1>4 DEF Last, Asked
<1>6. Unwritten(i) = r
  BY <1>3 DEF r
<1> QED  BY <1>2, <1>4, <1>5, <1>6

\* An operation more.
LEMMA NetworkAdds ==
  ASSUME NEW q \in Seq(Operations), Once(q), Precede(q, Opening, Last(Operations)),
         NEW e \in Operations, e.by = 0 \/ \A x \in Elems(q) : x.by # e.by,
         \/ e.op \notin {"connect", "on"}
         \/ e.by # -1 /\ \A x \in Elems(q) : x.by # -1
  PROVE  /\ Append(q, e) \in Seq(Operations) /\ Elems(Append(q, e)) = Elems(q) \cup {e}
         /\ Once(Append(q, e)) /\ Precede(Append(q, e), Opening, Last(Operations))
<1>1. e \notin Opening \/ (e \notin Last(Operations) /\ Elems(q) \cap Last(Operations) = {})
  BY DEF Opening, Last
<1> QED  BY <1>1, Appended, OnceAppended, PrecedeAppended

\* A write more.
LEMMA WritesAdds ==
  ASSUME NEW q \in Seq(Saves), Once(q), Precede(q, Asked, Last(Saves)),
         NEW e \in Saves, e.by = 0 \/ \A x \in Elems(q) : x.by # e.by,
         ~(e.by > 0) \/ \A x \in Elems(q) : x.by # -1
  PROVE  /\ Append(q, e) \in Seq(Saves) /\ Elems(Append(q, e)) = Elems(q) \cup {e}
         /\ Once(Append(q, e)) /\ Precede(Append(q, e), Asked, Last(Saves))
<1>1. e \notin Asked \/ (e \notin Last(Saves) /\ Elems(q) \cap Last(Saves) = {})
  BY DEF Asked, Last
<1> QED  BY <1>1, Appended, OnceAppended, PrecedeAppended

-----------------------------------------------------------------------------
(* Control: how a Disconnect begins and a request fails.                   *)

\* The chain without what request n asked for.
Less(q, r, n) ==
  /\ Elems(r) \subseteq Elems(q)
  /\ \A x \in Elems(q) : x.by \notin {0, n} => x \in Elems(r)
  /\ n # 0 => \A x \in Elems(r) : x.by # n

\* What the types say of the fields.
LEMMA Fields ==
  ASSUME TypedControl
  PROVE  /\ \A n \in Requests :
              /\ request[n] \in Requested /\ request[n].pc \in {"idle", "ssh", "save", "closing"}
              /\ request[n].kind \in {"connect", "reconnect"}
              /\ request[n].rev \in 0 .. MaxRevision /\ request[n].host \in Hosts \cup {None}
         /\ disc.pc \in {"none", "save", "off", "ssh", "settle", "detach", "commands"}
         /\ disc.by \in Requests \cup {0} /\ disc.failed \in BOOLEAN /\ disc.waits \in SUBSET Commands
         /\ saved = [enabled |-> saved.enabled, host |-> saved.host]
         /\ saved.enabled \in {"yes", "no", "unset"} /\ saved.host \in Hosts \cup {None}
         /\ MaxRevision \in Nat /\ revision \in Nat /\ Requests \subseteq Nat \ {0}
<1>1. ASSUME NEW n \in Requests
      PROVE  /\ request[n] \in Requested /\ request[n].pc \in {"idle", "ssh", "save", "closing"}
             /\ request[n].kind \in {"connect", "reconnect"}
             /\ request[n].rev \in 0 .. MaxRevision /\ request[n].host \in Hosts \cup {None}
  <2>1. request[n] \in Requested
    BY DEF TypedControl
  <2> QED  BY <2>1 DEF Requested
<1>2. /\ disc.pc \in {"none", "save", "off", "ssh", "settle", "detach", "commands"}
      /\ disc.by \in Requests \cup {0} /\ disc.failed \in BOOLEAN /\ disc.waits \in SUBSET Commands
  <2>1. disc \in Disconnects
    BY DEF TypedControl
  <2> QED  BY <2>1 DEF Disconnects
<1>3. /\ saved = [enabled |-> saved.enabled, host |-> saved.host]
      /\ saved.enabled \in {"yes", "no", "unset"} /\ saved.host \in Hosts \cup {None}
  <2>1. saved \in Stores
    BY DEF TypedControl
  <2> QED  BY <2>1 DEF Stores
<1>4. MaxRevision \in Nat /\ revision \in Nat
  <2>1. revision \in 0 .. MaxRevision + 1
    BY DEF TypedControl
  <2> QED  BY <2>1, RevisionAssumption
<1> QED  BY <1>1, <1>2, <1>3, <1>4, RequestsAssumption

LEMMA IdleTyped == Idle \in Requested /\ Idle.pc = "idle" /\ Idle.rev = 0
BY RevisionAssumption DEF Idle, Requested

\* A request moves on.
LEMMA Moves ==
  ASSUME request \in [Requests -> Requested], NEW n \in Requests,
         NEW p \in {"idle", "ssh", "save", "closing"}, request' = [request EXCEPT ![n].pc = p]
  PROVE  /\ request' \in [Requests -> Requested]
         /\ request'[n].pc = p /\ request'[n].kind = request[n].kind
         /\ request'[n].rev = request[n].rev /\ request'[n].host = request[n].host
         /\ \A m \in Requests : m # n => request'[m] = request[m]
<1> DEFINE k == [request[n] EXCEPT !.pc = p]
<1>1. request[n] \in Requested
  OBVIOUS
<1>2. /\ k \in Requested /\ k.pc = p /\ k.kind = request[n].kind
      /\ k.rev = request[n].rev /\ k.host = request[n].host
  BY <1>1 DEF Requested
<1>3. request' = [request EXCEPT ![n] = k]
  OBVIOUS
<1> HIDE DEF k
<1> QED  BY <1>2, <1>3

LEMMA BeginControl ==
  ASSUME Control, boot = "ready", disc.pc = "none", revision <= MaxRevision,
         NEW by \in Requests \cup {0},
         NEW rest \in Seq(Saves), Once(rest), Precede(rest, Asked, Last(Saves)),
         Less(writes, rest, by), beginDisconnect(by, rest),
         network' \in Seq(Operations), Once(network'), Precede(network', Opening, Last(Operations)),
         Less(network, network', by),
         request' = IF by = 0 THEN request ELSE [request EXCEPT ![by].pc = "closing"],
         UNCHANGED <<boot, host, port, saved, routed>>,
         session' \in Hosts \cup {None}, session' # None => port
  PROVE  Control'
<1>1. /\ revision' = revision + 1 /\ enabled' = FALSE /\ connecting' = FALSE /\ timer' = FALSE
      /\ writes' = Append(rest, [enabled |-> "no", host |-> None, by |-> -1])
      /\ disc' = [pc |-> "save", by |-> by, failed |-> FALSE, waits |-> {}]
  BY DEF beginDisconnect
<1>2. TypedControl /\ Calls /\ Operated /\ Stored /\ Ports
  BY DEF Control
<1>3. /\ revision \in Nat /\ MaxRevision \in Nat /\ revision' \in 0 .. MaxRevision + 1
      /\ Requests \subseteq Nat \ {0}
  BY <1>1, <1>2, RevisionAssumption, RequestsAssumption DEF TypedControl
<1>4. request \in [Requests -> Requested]
  BY <1>2 DEF TypedControl
<1>5. /\ request' \in [Requests -> Requested]
      /\ \A m \in Requests : /\ request'[m].rev = request[m].rev /\ request'[m].kind = request[m].kind
                             /\ request'[m].host = request[m].host
                             /\ request'[m].pc = IF m = by THEN "closing" ELSE request[m].pc
  <2>1. CASE by = 0
    BY <1>3, <1>4, <2>1
  <2>2. CASE by \in Requests
    <3>1. request' = [request EXCEPT ![by].pc = "closing"]
      BY <1>3, <2>2
    <3> QED  BY <1>4, <2>2, <3>1, Moves
  <2> QED  BY <2>1, <2>2
<1>6. disc' \in Disconnects
  BY <1>1 DEF Disconnects
<1>7. /\ writes' \in Seq(Saves) /\ Once(writes') /\ Precede(writes', Asked, Last(Saves))
      /\ Elems(writes') = Elems(rest) \cup {[enabled |-> "no", host |-> None, by |-> -1]}
  <2> DEFINE e == [enabled |-> "no", host |-> None, by |-> -1]
  <2>1. e \in Saves /\ e.by = -1 /\ ~(e.by > 0)
    BY DEF Saves
  <2>2. \A x \in Elems(rest) : x.by # -1
    BY <1>2 DEF Stored, Less
  <2> HIDE DEF e
  <2>3. /\ Append(rest, e) \in Seq(Saves) /\ Elems(Append(rest, e)) = Elems(rest) \cup {e}
        /\ Once(Append(rest, e)) /\ Precede(Append(rest, e), Asked, Last(Saves))
    BY <2>1, <2>2, WritesAdds
  <2> QED  BY <1>1, <2>3 DEF e
<1>8. TypedControl'
  BY <1>1, <1>2, <1>3, <1>5, <1>6, <1>7 DEF TypedControl
<1>9. Booting'
  BY DEF Booting
<1>10. Calls'
  <2>1. \A m \in Requests : request'[m].rev # revision' /\ request'[m].rev <= revision'
    <3>1. \A m \in Requests : request[m].rev <= revision /\ request[m].rev \in 0 .. MaxRevision
      BY <1>2, Fields DEF Calls
    <3> QED  BY <1>1, <1>3, <1>5, <3>1
  <2>2. disc'.pc = "save" /\ disc'.by = by
    BY <1>1
  <2>3. \A m \in Requests : request'[m].pc = "closing" => m = by
    BY <1>2, <1>5 DEF Calls
  <2>4. disc'.by # 0 => request'[disc'.by].pc = "closing"
    BY <1>5, <2>2
  <2>5. \A m \in Requests : request'[m].pc = "save" => request'[m].kind = "connect"
    BY <1>2, <1>5 DEF Calls
  <2> QED  BY <1>1, <2>1, <2>2, <2>3, <2>4, <2>5 DEF Calls, Open, Current
<1>11. Ports'
  BY <1>1, <1>2 DEF Ports
<1>12. Operated'
  <2>1. disc'.pc = "save"
    BY <1>1
  <2>2. ASSUME NEW o \in Elems(network')
        PROVE  /\ o.by > 0 => o.op = "connect" /\ request'[o.by].pc = "ssh" /\ o.host = request'[o.by].host
               /\ o.by # -1
               /\ o.op = "end" => o.by = -1
    <3>1. o \in Elems(network) /\ (by # 0 => o.by # by)
      BY <2>2 DEF Less
    <3>2. /\ o.by > 0 => o.op = "connect" /\ request[o.by].pc = "ssh" /\ o.host = request[o.by].host
          /\ o.by # -1 /\ (o.op = "end" => o.by = -1)
      BY <1>2, <3>1 DEF Operated
    <3>3. o \in Operations
      <4>1. \A k \in 1 .. Len(network) : network[k] \in Operations
        BY <1>2, ElementOfSeq DEF TypedControl
      <4> QED  BY <3>1, <4>1 DEF Elems
    <3>4. o.by > 0 => o.by \in Requests /\ o.by # by
      BY <1>3, <3>1, <3>3 DEF Operations
    <3> QED  BY <1>5, <3>2, <3>4
  <2>3. ASSUME NEW m \in Requests, request'[m].pc = "ssh" PROVE \E o \in Elems(network') : o.by = m
    <3>1. m # by /\ request[m].pc = "ssh" /\ m # 0
      BY <1>3, <1>5, <2>3
    <3>2. PICK o \in Elems(network) : o.by = m
      BY <1>2, <3>1 DEF Operated
    <3> QED  BY <3>1, <3>2 DEF Less
  <2> QED  BY <2>1, <2>2, <2>3 DEF Operated
<1>13. Stored'
  <2>1. disc'.pc = "save"
    BY <1>1
  <2>2. ASSUME NEW w \in Elems(writes')
        PROVE  (w.by > 0 => request'[w.by].pc = "save") /\ w.by # 0
    <3>1. CASE w \in Elems(rest)
      <4>1. w \in Elems(writes) /\ (by # 0 => w.by # by)
        BY <3>1 DEF Less
      <4>2. (w.by > 0 => request[w.by].pc = "save") /\ w.by # 0
        BY <1>2, <4>1 DEF Stored
      <4>3. w \in Saves
        <5>1. \A k \in 1 .. Len(writes) : writes[k] \in Saves
          BY <1>2, ElementOfSeq DEF TypedControl
        <5> QED  BY <4>1, <5>1 DEF Elems
      <4>4. w.by > 0 => w.by \in Requests /\ w.by # by
        BY <1>3, <4>1, <4>3 DEF Saves
      <4> QED  BY <1>5, <4>2, <4>4
    <3>2. CASE w.by = -1
      BY <3>2
    <3> QED  BY <1>7, <3>1, <3>2
  <2>3. ASSUME NEW m \in Requests, request'[m].pc = "save" PROVE \E w \in Elems(writes') : w.by = m
    <3>1. m # by /\ request[m].pc = "save" /\ m # 0
      BY <1>3, <1>5, <2>3
    <3>2. PICK w \in Elems(writes) : w.by = m
      BY <1>2, <3>1 DEF Stored
    <3> QED  BY <1>7, <3>1, <3>2 DEF Less
  <2> QED  BY <1>7, <2>1, <2>2, <2>3 DEF Stored
<1>14. Hosted'
  <2>1. \A m \in Requests : ~Current(m)'
    BY <1>1, <1>2, <1>3, <1>5 DEF Calls, TypedControl, Current
  <2> QED  BY <1>1, <2>1 DEF Hosted
<1>15. Closing'
  BY <1>1 DEF Closing
<1> QED  BY <1>8, <1>9, <1>10, <1>11, <1>12, <1>13, <1>14, <1>15 DEF Control

\* What is in the chains was asked for by calls of the worker.
LEMMA ElemsTyped ==
  ASSUME TypedControl
  PROVE  /\ \A o \in Elems(network) : o \in Operations /\ (o.by > 0 => o.by \in Requests)
         /\ \A w \in Elems(writes) : w \in Saves /\ (w.by > 0 => w.by \in Requests)
         /\ Requests \subseteq Nat \ {0}
<1>1. /\ \A k \in 1 .. Len(network) : network[k] \in Operations
      /\ \A k \in 1 .. Len(writes) : writes[k] \in Saves
  BY ElementOfSeq DEF TypedControl
<1> QED  BY <1>1, RequestsAssumption DEF Elems, Operations, Saves

LEMMA FailedControl ==
  ASSUME Control, NEW n \in Requests, Open(n),
         NEW rest \in Seq(Saves), Once(rest), Precede(rest, Asked, Last(Saves)),
         Less(writes, rest, n), failed(n, rest),
         network' \in Seq(Operations), Once(network'), Precede(network', Opening, Last(Operations)),
         Less(network, network', n),
         UNCHANGED <<boot, host, port, routed>>,
         saved' \in Stores,
         saved' = saved \/ (~Current(n) /\ request[n].pc = "save"),
         session' \in Hosts \cup {None}, session' # None => port,
         enabled => session' \in {host, None}
  PROVE  Control'
<1>1. /\ TypedControl /\ Booting /\ Calls /\ Ports /\ Operated /\ Stored /\ Hosted /\ Closing
  BY DEF Control
<1>2. /\ boot = "ready" /\ n # 0 /\ Requests \subseteq Nat \ {0}
  BY <1>1, RequestsAssumption DEF Booting, Open
<1>3. CASE request[n].kind = "connect" /\ request[n].rev = revision
  <2>1. /\ request' = [request EXCEPT ![n].pc = "closing"] /\ beginDisconnect(n, rest)
    BY <1>3 DEF failed
  <2>2. connecting /\ disc.pc = "none"
    BY <1>1, <1>3 DEF Calls, Current
  <2>3. saved' = saved
    BY <1>3 DEF Current
  <2>4. revision <= MaxRevision
    BY <1>1, <1>3, Fields
  <2>5. request' = IF n = 0 THEN request ELSE [request EXCEPT ![n].pc = "closing"]
    BY <1>2, <2>1
  <2> QED  BY <1>2, <2>1, <2>2, <2>3, <2>4, <2>5, BeginControl
<1>4. CASE ~(request[n].kind = "connect" /\ request[n].rev = revision)
  <2>1. /\ request' = [request EXCEPT ![n] = Idle] /\ connecting' = FALSE /\ writes' = rest
        /\ UNCHANGED <<revision, enabled, timer, disc>>
    BY <1>4 DEF failed
  <2>2. /\ request' \in [Requests -> Requested]
        /\ request'[n] = Idle /\ \A m \in Requests : m # n => request'[m] = request[m]
    BY <1>1, <2>1, IdleTyped DEF TypedControl
  <2>3. Idle.pc = "idle" /\ Idle.rev = 0
    BY IdleTyped
  <2>4. Current(n) => enabled /\ disc.pc = "none" /\ request[n].pc # "save"
    <3> SUFFICES ASSUME Current(n) PROVE enabled /\ disc.pc = "none" /\ request[n].pc # "save"
      OBVIOUS
    <3>1. request[n].kind = "reconnect"
      BY <1>1, <1>4, Fields DEF Current
    <3>2. connecting /\ enabled
      BY <1>1, <3>1 DEF Calls
    <3> QED  BY <1>1, <3>1, <3>2 DEF Calls
  <2>5. ~Current(n) => disc.pc # "none" /\ ~connecting /\ ~enabled
    BY <1>1 DEF Calls
  <2>6. disc.pc # "none" => ~connecting
    BY <1>1 DEF Calls
  <2>7. TypedControl'
    BY <1>1, <2>1, <2>2 DEF TypedControl
  <2>8. Booting'
    BY <1>2 DEF Booting
  <2>9. Calls'
    <3>1. \A m \in Requests : m # n => (Open(m)' <=> Open(m)) /\ (Current(m)' <=> Current(m))
      BY <2>1, <2>2 DEF Open, Current
    <3>2. ~Open(n)' /\ request'[n].rev <= revision'
      BY <1>1, <2>1, <2>2, <2>3, RevisionAssumption DEF Open, TypedControl
    <3>3. \A m \in Requests : Open(m)' => ~Current(m)'
      <4> SUFFICES ASSUME NEW m \in Requests, m # n, Open(m), Current(m) PROVE FALSE
        BY <3>1, <3>2
      <4>1. connecting
        BY <1>1 DEF Calls
      <4>2. Current(n)
        BY <2>5, <4>1
      <4> QED  BY <1>1, <4>2 DEF Calls
    <3>4. \A m \in Requests : Open(m)' => disc'.pc # "none"
      <4> SUFFICES ASSUME NEW m \in Requests, m # n, Open(m), ~Current(m) PROVE disc'.pc # "none"
        BY <3>1, <3>2, <3>3
      <4> QED  BY <1>1, <2>1 DEF Calls
    <3>5. \A m \in Requests :
            /\ request'[m].rev <= revision'
            /\ request'[m].pc = "closing" => disc'.pc # "none" /\ disc'.by = m
            /\ request'[m].pc = "save" => request'[m].kind = "connect"
      BY <1>1, <2>1, <2>2, <2>3, <3>2 DEF Calls
    <3>6. disc.by # n \/ disc.pc = "none"
      BY <1>1, <1>2 DEF Calls, Open
    <3>7. disc'.pc # "none" /\ disc'.by # 0 => request'[disc'.by].pc = "closing"
      <4>1. disc.by \in Requests \cup {0}
        BY <1>1, Fields
      <4> QED  BY <1>1, <2>1, <2>2, <3>6, <4>1 DEF Calls
    <3>8. disc'.pc # "none" => ~enabled' /\ ~connecting'
      BY <1>1, <2>1 DEF Calls
    <3> QED  BY <2>1, <3>3, <3>4, <3>5, <3>7, <3>8 DEF Calls
  <2>10. Ports'
    BY <1>1, <2>1, <2>4, <2>5 DEF Ports
  <2>11. Operated'
    <3>1. ASSUME NEW o \in Elems(network')
          PROVE  /\ o.by > 0 => o.op = "connect" /\ request'[o.by].pc = "ssh" /\ o.host = request'[o.by].host
                 /\ o.by = -1 => \/ o.op = "off" /\ disc'.pc = "off"
                                 \/ o.op = "end" /\ disc'.pc = "ssh"
                 /\ o.op = "end" => o.by = -1
                 /\ o.op \in {"connect", "on"} => enabled' \/ connecting' \/ disc'.pc \in {"save", "off"}
      <4>1. o \in Elems(network) /\ o.by # n
        BY <1>2 DEF Less
      <4>2. o.by > 0 => o.by \in Requests
        BY <1>1, <4>1, ElemsTyped
      <4> QED  BY <1>1, <2>1, <2>2, <2>4, <2>5, <4>1, <4>2 DEF Operated
    <3>2. ASSUME NEW m \in Requests, request'[m].pc = "ssh" PROVE \E o \in Elems(network') : o.by = m
      <4>1. m # n /\ m # 0 /\ request[m].pc = "ssh"
        BY <1>2, <2>2, <2>3, <3>2
      <4>2. PICK o \in Elems(network) : o.by = m
        BY <1>1, <4>1 DEF Operated
      <4> QED  BY <4>1, <4>2 DEF Less
    <3> QED  BY <3>1, <3>2 DEF Operated
  <2>12. Stored'
    <3>1. ASSUME NEW w \in Elems(rest)
          PROVE  /\ w.by > 0  => request'[w.by].pc = "save"
                 /\ w.by = -1 => disc'.pc = "save"
                 /\ w.by = 0  => boot' = "save"
      <4>1. w \in Elems(writes) /\ w.by # n
        BY <1>2 DEF Less
      <4>2. w.by > 0 => w.by \in Requests
        BY <1>1, <4>1, ElemsTyped
      <4> QED  BY <1>1, <2>1, <2>2, <4>1, <4>2 DEF Stored
    <3>2. ASSUME NEW m \in Requests, request'[m].pc = "save" PROVE \E w \in Elems(rest) : w.by = m
      <4>1. m # n /\ m # 0 /\ request[m].pc = "save"
        BY <1>2, <2>2, <2>3, <3>2
      <4>2. PICK w \in Elems(writes) : w.by = m
        BY <1>1, <4>1 DEF Stored
      <4> QED  BY <4>1, <4>2 DEF Less
    <3> QED  BY <2>1, <3>1, <3>2 DEF Stored
  <2>13. Hosted'
    <3>1. enabled => saved' = saved
      BY <2>5 DEF Current
    <3>2. enabled' => /\ saved' = [enabled |-> "yes", host |-> host']
                      /\ session' \in {host', None}
                      /\ \A o \in Elems(network') : o.op = "connect" => o.host = host'
      BY <1>1, <2>1, <3>1 DEF Hosted, Less
    <3>3. ~connecting'
      BY <2>1
    <3> QED  BY <2>9, <3>2, <3>3 DEF Hosted, Calls
  <2>14. Closing'
    <3>1. saved' = saved \/ disc.pc = "save"
      BY <1>1, <2>5 DEF Closing
    <3> QED  BY <1>1, <2>1, <2>2, <2>3, <3>1 DEF Closing
  <2> QED  BY <2>7, <2>8, <2>9, <2>10, <2>11, <2>12, <2>13, <2>14 DEF Control
<1> QED  BY <1>3, <1>4

-----------------------------------------------------------------------------
(* Control: the native port.                                               *)

LEMMA SameControl ==
  ASSUME Control, UNCHANGED <<boot, connection, helper, chains>>
  PROVE  Control'
<1>1. UNCHANGED <<boot, enabled, connecting, revision, host, request, disc, port, timer, session,
                  saved, routed, writes, network>>
  BY DEF connection, helper, chains
<1>2. TypedControl' /\ Booting' /\ Calls' /\ Ports'
  BY <1>1, Zenon DEF Control, TypedControl, Booting, Calls, Ports, Open, Current
<1>3. Operated' /\ Stored' /\ Hosted' /\ Closing'
  BY <1>1, Zenon DEF Control, Operated, Stored, Hosted, Closing, Open, Current
<1> QED  BY <1>2, <1>3 DEF Control

RestoredOp(h) == [op |-> "connect", by |-> 0, host |-> h]

\* What a call of connectNativeHost may have done.
Reached(en, h, ops) ==
  \E q \in {network, Append(network, RestoredOp(h))} :
    /\ network' = q \o ops
    /\ q = network \/ (en /\ h # None)
    /\ UNCHANGED <<port, session>> \/ (~port /\ port' = TRUE /\ session' = None)
    /\ timer' \in BOOLEAN

LEMMA NativeConnects ==
  ASSUME NEW en, NEW h, NEW tm \in BOOLEAN, NEW ops, connectNativeHost(en, h, tm, ops)
  PROVE  Reached(en, h, ops)
<1> USE DEF Reached
<1>1. CASE port
  BY <1>1 DEF connectNativeHost
<1>2. CASE ~port
  <2>1. CASE /\ port' = TRUE /\ session' = None /\ timer' = tm
             /\ network' = (IF en /\ h # None THEN Append(network, RestoredOp(h)) ELSE network) \o ops
    BY <1>2, <2>1
  <2>2. CASE UNCHANGED <<port, session>> /\ timer' = TRUE /\ network' = network \o ops
    BY <2>2
  <2> QED  BY <1>2, <2>1, <2>2 DEF connectNativeHost, RestoredOp
<1> QED  BY <1>1, <1>2

LEMMA NetworkGrows ==
  ASSUME Control, disc.pc = "none", NEW h \in Hosts \cup {None},
         NEW q \in {network, Append(network, RestoredOp(h))}
  PROVE  /\ q \in Seq(Operations) /\ Once(q) /\ Precede(q, Opening, Last(Operations))
         /\ Elems(q) = Elems(network) \cup (IF q = network THEN {} ELSE {RestoredOp(h)})
         /\ \A o \in Elems(network) : o.by # -1
<1>1. network \in Seq(Operations) /\ Once(network) /\ Precede(network, Opening, Last(Operations))
  BY DEF Control, TypedControl, Operated
<1>2. \A o \in Elems(network) : o.by # -1
  BY DEF Control, Operated
<1>3. RestoredOp(h) \in Operations /\ RestoredOp(h).by = 0
  BY DEF RestoredOp, Operations
<1>4. /\ Append(network, RestoredOp(h)) \in Seq(Operations)
      /\ Elems(Append(network, RestoredOp(h))) = Elems(network) \cup {RestoredOp(h)}
      /\ Once(Append(network, RestoredOp(h)))
      /\ Precede(Append(network, RestoredOp(h)), Opening, Last(Operations))
  BY <1>1, <1>2, <1>3, NetworkAdds
<1> QED  BY <1>1, <1>2, <1>4

\* The port is opened again while Tether is connected or connecting.
LEMMA ReopenControl ==
  ASSUME Control, boot = "ready", Wanted, NEW tm \in BOOLEAN,
         connectNativeHost(enabled, host, tm, <<>>),
         UNCHANGED <<boot, enabled, connecting, revision, host, request, disc, saved, routed, writes>>
  PROVE  Control'
<1>1. /\ TypedControl /\ Calls /\ Ports /\ Operated /\ Stored /\ Hosted /\ Closing
  BY DEF Control
<1>2. disc.pc = "none" /\ ~port /\ (enabled \/ connecting) /\ session = None
  BY <1>1 DEF Wanted, Ports
<1>3. PICK q \in {network, Append(network, RestoredOp(host))} :
        /\ network' = q \o <<>>
        /\ q = network \/ (enabled /\ host # None)
        /\ UNCHANGED <<port, session>> \/ (~port /\ port' = TRUE /\ session' = None)
        /\ timer' \in BOOLEAN
  <2>1. Reached(enabled, host, <<>>)
    BY NativeConnects
  <2> QED  BY <2>1 DEF Reached
<1>4. /\ q \in Seq(Operations) /\ Once(q) /\ Precede(q, Opening, Last(Operations))
      /\ Elems(q) = Elems(network) \cup (IF q = network THEN {} ELSE {RestoredOp(host)})
  BY <1>1, <1>2, NetworkGrows DEF TypedControl
<1>5. network' = q
  BY <1>3, <1>4, ConcatEmptySeq
<1>6. \A o \in Elems(network') : o \in Elems(network) \/ (o = RestoredOp(host) /\ enabled)
  BY <1>3, <1>4, <1>5
<1>7. TypedControl'
  BY <1>1, <1>3, <1>4, <1>5 DEF TypedControl
<1>8. Booting' /\ Stored'
  BY <1>1 DEF Booting, Stored
<1>9. Calls' /\ Closing'
  BY <1>1 DEF Calls, Closing, Open, Current
<1>10. Ports'
  BY <1>1, <1>2, <1>3 DEF Ports
<1>11. Operated'
  <2>1. RestoredOp(host).op = "connect" /\ RestoredOp(host).by = 0
    BY DEF RestoredOp
  <2>2. \A o \in Elems(network') :
          /\ o.by > 0 => o.op = "connect" /\ request[o.by].pc = "ssh" /\ o.host = request[o.by].host
          /\ o.by = -1 => \/ o.op = "off" /\ disc.pc = "off"
                          \/ o.op = "end" /\ disc.pc = "ssh"
          /\ o.op = "end" => o.by = -1
          /\ o.op \in {"connect", "on"} => enabled \/ connecting \/ disc.pc \in {"save", "off"}
    BY <1>1, <1>6, <2>1 DEF Operated
  <2>3. \A n \in Requests : request[n].pc = "ssh" => \E o \in Elems(network') : o.by = n
    BY <1>1, <1>4, <1>5 DEF Operated
  <2> QED  BY <1>4, <1>5, <2>2, <2>3 DEF Operated
<1>12. Hosted'
  <2>1. RestoredOp(host).host = host
    BY DEF RestoredOp
  <2>2. session' \in {session, None}
    BY <1>3
  <2> QED  BY <1>1, <1>6, <2>1, <2>2 DEF Hosted, Open, Current
<1> QED  BY <1>7, <1>8, <1>9, <1>10, <1>11, <1>12 DEF Control

LEMMA TimerControl ==
  ASSUME Control, TimerFires \/ Alarm
  PROVE  Control'
<1>1. UNCHANGED <<boot, enabled, connecting, revision, host, request, disc, saved, routed, writes>>
  BY DEF TimerFires, Alarm, connection
<1>2. timer \in BOOLEAN
  BY DEF Control, TypedControl
<1>3. ASSUME Wanted PROVE boot = "ready"
  BY <1>3 DEF Wanted, Control, Booting
<1>4. CASE Wanted /\ \E tm \in BOOLEAN : connectNativeHost(enabled, host, tm, <<>>)
  BY <1>1, <1>3, <1>4, ReopenControl
<1>5. CASE timer' = FALSE /\ UNCHANGED <<port, session, network>>
  <2>1. TypedControl' /\ Booting' /\ Calls' /\ Ports'
    BY <1>1, <1>5 DEF Control, TypedControl, Booting, Calls, Ports, Open, Current
  <2>2. Operated' /\ Stored' /\ Hosted' /\ Closing'
    BY <1>1, <1>5, Zenon DEF Control, Operated, Stored, Hosted, Closing, Open, Current
  <2> QED  BY <2>1, <2>2 DEF Control
<1> QED  BY <1>2, <1>4, <1>5 DEF TimerFires, Alarm

LEMMA PortLostControl ==
  ASSUME Control, PortLost
  PROVE  Control'
<1>1. /\ port' = FALSE /\ session' = None /\ timer' = (timer \/ enabled \/ connecting)
      /\ UNCHANGED <<boot, enabled, connecting, revision, host, request, disc, saved, routed, writes,
                     network>>
  BY DEF PortLost, connection, chains
<1>2. TypedControl' /\ Booting' /\ Ports'
  BY <1>1 DEF Control, TypedControl, Booting, Ports
<1>3. Calls' /\ Operated' /\ Stored' /\ Closing'
  BY <1>1, Zenon DEF Control, Calls, Operated, Stored, Closing, Open, Current
<1>4. Hosted'
  BY <1>1 DEF Control, Hosted, Open, Current
<1> QED  BY <1>2, <1>3, <1>4 DEF Control

\* A worker that has read its state, or saved it, connects on its own.
LEMMA StartControl ==
  ASSUME Control, boot # "ready", boot' = "ready", enabled' = TRUE, NEW h \in Hosts \cup {None}, host' = h,
         saved' = [enabled |-> "yes", host |-> h], connectNativeHost(TRUE, h, timer, <<>>),
         writes' \in Seq(Saves), Once(writes'), Precede(writes', Asked, Last(Saves)), Elems(writes') = {},
         UNCHANGED <<connecting, revision, request, disc, routed>>
  PROVE  Control'
<1>1. /\ TypedControl /\ Booting /\ Calls /\ Ports
  BY DEF Control
<1>2. /\ ~connecting /\ disc.pc = "none" /\ ~port /\ session = None /\ Elems(network) = {}
      /\ \A n \in Requests : request[n].pc = "idle"
  BY <1>1 DEF Booting, Ports
<1>3. PICK q \in {network, Append(network, RestoredOp(h))} :
        /\ network' = q \o <<>>
        /\ UNCHANGED <<port, session>> \/ (~port /\ port' = TRUE /\ session' = None)
        /\ timer' \in BOOLEAN
  <2>1. timer \in BOOLEAN
    BY <1>1 DEF TypedControl
  <2>2. Reached(TRUE, h, <<>>)
    BY <2>1, NativeConnects
  <2> QED  BY <2>2 DEF Reached
<1>4. /\ q \in Seq(Operations) /\ Once(q) /\ Precede(q, Opening, Last(Operations))
      /\ Elems(q) = Elems(network) \cup (IF q = network THEN {} ELSE {RestoredOp(h)})
  BY <1>2, NetworkGrows
<1>5. network' = q
  BY <1>3, <1>4, ConcatEmptySeq
<1>6. /\ \A o \in Elems(network') : o.op = "connect" /\ o.by = 0 /\ o.host = h
  BY <1>2, <1>4, <1>5 DEF RestoredOp
<1>7. TypedControl'
  <2>1. saved' \in Stores /\ session' \in Hosts \cup {None} /\ port' \in BOOLEAN
    BY <1>1, <1>3 DEF Stores, TypedControl
  <2> QED  BY <1>1, <1>3, <1>4, <1>5, <2>1 DEF TypedControl
<1>8. Booting' /\ Stored' /\ Ports'
  BY <1>2, <1>3 DEF Booting, Stored, Ports
<1>9. Calls' /\ Closing'
  BY <1>1, <1>2 DEF Calls, Closing, Open, Current
<1>10. Operated'
  BY <1>2, <1>4, <1>5, <1>6 DEF Operated
<1>11. Hosted'
  BY <1>2, <1>3, <1>6 DEF Hosted
<1> QED  BY <1>7, <1>8, <1>9, <1>10, <1>11 DEF Control

\* The worker reads its state.
LEMMA RestoreControl ==
  ASSUME Control, Restore
  PROVE  Control'
<1>1. /\ TypedControl /\ Booting /\ Calls /\ Ports /\ Operated /\ Stored /\ Hosted /\ Closing
  BY DEF Control
<1>2. boot = "read" /\ UNCHANGED <<connecting, revision, request, disc, saved, routed>>
  BY DEF Restore
<1>3. /\ ~enabled /\ ~connecting /\ disc.pc = "none" /\ ~port /\ session = None /\ Elems(network) = {}
      /\ Len(writes) = 0 /\ \A n \in Requests : request[n].pc = "idle"
  BY <1>1, <1>2 DEF Booting, Ports
<1>4. Elems(writes) = {}
  BY <1>3 DEF Elems
<1>5. /\ saved.host \in Hosts \cup {None} /\ writes \in Seq(Saves) /\ Once(writes)
      /\ Precede(writes, Asked, Last(Saves))
  BY <1>1, Fields DEF TypedControl, Stored
<1>6. CASE /\ saved.enabled = "yes"
           /\ boot' = "ready" /\ enabled' = TRUE /\ host' = RestoredHost
           /\ connectNativeHost(TRUE, RestoredHost, timer, <<>>)
           /\ UNCHANGED writes
  <2>1. saved' = [enabled |-> "yes", host |-> saved.host]
    BY <1>1, <1>2, <1>6, Fields
  <2>2. Elems(writes') = {} /\ Once(writes') /\ Precede(writes', Asked, Last(Saves)) /\ writes' \in Seq(Saves)
    BY <1>4, <1>5, <1>6
  <2>3. host' = saved.host /\ connectNativeHost(TRUE, saved.host, timer, <<>>)
    BY <1>6 DEF RestoredHost
  <2> QED  BY <1>2, <1>5, <1>6, <2>1, <2>2, <2>3, StartControl
<1>7. CASE /\ boot' = "save" /\ host' = RestoredHost
           /\ writes' = Append(writes, [enabled |-> "yes", host |-> RestoredHost, by |-> 0])
           /\ UNCHANGED <<enabled, helper, network>>
  <2> DEFINE e == [enabled |-> "yes", host |-> saved.host, by |-> 0]
  <2>1. e \in Saves /\ e.by = 0
    BY <1>5 DEF Saves
  <2>2. writes' = Append(writes, e) /\ host' = saved.host
    BY <1>7 DEF RestoredHost
  <2> HIDE DEF e
  <2>3. /\ writes' \in Seq(Saves) /\ Elems(writes') = {e} /\ Once(writes')
        /\ Precede(writes', Asked, Last(Saves)) /\ Len(writes') = 1
    <3>1. /\ Append(writes, e) \in Seq(Saves) /\ Elems(Append(writes, e)) = Elems(writes) \cup {e}
          /\ Once(Append(writes, e)) /\ Precede(Append(writes, e), Asked, Last(Saves))
      BY <1>4, <1>5, <2>1, WritesAdds
    <3>2. Len(Append(writes, e)) = 0 + 1
      BY <1>3, <1>5, <2>1, AppendProperties
    <3> QED  BY <1>4, <2>2, <3>1, <3>2
  <2>4. UNCHANGED <<port, timer, session>>
    BY <1>7 DEF helper
  <2>5. TypedControl'
    BY <1>1, <1>2, <1>5, <1>7, <2>2, <2>3, <2>4 DEF TypedControl
  <2>6. Booting' /\ Ports' /\ Stored'
    BY <1>2, <1>3, <1>7, <2>1, <2>3, <2>4 DEF Booting, Ports, Stored
  <2>7. Calls' /\ Closing'
    BY <1>1, <1>2, <1>7 DEF Calls, Closing, Open, Current
  <2>8. Operated'
    BY <1>1, <1>2, <1>7, Zenon DEF Operated
  <2>9. Hosted'
    BY <1>2, <1>3, <1>7 DEF Hosted, Open
  <2> QED  BY <2>5, <2>6, <2>7, <2>8, <2>9 DEF Control
<1>8. CASE boot' = "ready" /\ UNCHANGED <<enabled, host, helper, network, writes>>
  <2>1. UNCHANGED <<port, timer, session>>
    BY <1>8 DEF helper
  <2>2. TypedControl' /\ Booting' /\ Ports' /\ Stored'
    BY <1>1, <1>2, <1>3, <1>4, <1>8, <2>1 DEF TypedControl, Booting, Ports, Stored
  <2>3. Calls' /\ Closing'
    BY <1>1, <1>2, <1>8 DEF Calls, Closing, Open, Current
  <2>4. Operated'
    BY <1>1, <1>2, <1>8, Zenon DEF Operated
  <2>5. Hosted'
    BY <1>2, <1>3, <1>8 DEF Hosted, Open
  <2> QED  BY <2>2, <2>3, <2>4, <2>5 DEF Control
<1> QED  BY <1>6, <1>7, <1>8 DEF Restore

-----------------------------------------------------------------------------
(* Control: Disconnect.                                                    *)

LEMMA DisconnectControl ==
  ASSUME Control, Disconnect
  PROVE  Control'
<1>1. /\ boot = "ready" /\ disc.pc = "none" /\ revision < MaxRevision /\ beginDisconnect(0, writes)
      /\ UNCHANGED <<boot, host, request, port, saved, routed, network, session>>
  BY DEF Disconnect
<1>2. TypedControl /\ Operated /\ Stored /\ Ports
  BY DEF Control
<1>3. /\ writes \in Seq(Saves) /\ Once(writes) /\ Precede(writes, Asked, Last(Saves))
      /\ network' \in Seq(Operations) /\ Once(network') /\ Precede(network', Opening, Last(Operations))
      /\ session' \in Hosts \cup {None} /\ (session' # None => port)
  BY <1>1, <1>2 DEF TypedControl, Operated, Stored, Ports
<1>4. Less(writes, writes, 0) /\ Less(network, network', 0)
  BY <1>1 DEF Less
<1>5. revision <= MaxRevision
  BY <1>1, <1>2, RevisionAssumption DEF TypedControl
<1>6. request' = IF 0 = 0 THEN request ELSE [request EXCEPT ![0].pc = "closing"]
  BY <1>1
<1>7. 0 \in Requests \cup {0}
  OBVIOUS
<1> QED  BY <1>1, <1>3, <1>4, <1>5, <1>6, <1>7, BeginControl

\* The steps after a Disconnect has closed the port.
LEMMA DiscControl ==
  ASSUME Control, DiscStep
  PROVE  Control'
<1>1. /\ TypedControl /\ Booting /\ Calls /\ Ports /\ Operated /\ Stored /\ Hosted /\ Closing
  BY DEF Control
<1>2. UNCHANGED <<boot, enabled, revision, host, port, timer, session, saved, routed, writes, network>>
  BY DEF DiscStep, DiscSettle, DiscDetach, DiscEnd, helper, chains
<1>3. /\ disc.pc \in {"settle", "detach", "commands"} /\ boot = "ready" /\ ~enabled /\ ~connecting /\ ~port
      /\ \A n \in Requests : request[n].pc \notin {"ssh", "save"}
      /\ \A o \in Elems(network) : o.by # -1 /\ o.op \notin {"connect", "on", "end"}
      /\ \A w \in Elems(writes) : w.by # -1
  <2>1. disc.pc \in {"settle", "detach", "commands"}
    BY DEF DiscStep, DiscSettle, DiscDetach, DiscEnd
  <2>2. boot = "ready" /\ ~enabled /\ ~connecting /\ ~port
    BY <1>1, <2>1 DEF Booting, Calls, Ports
  <2>3. \A n \in Requests : request[n].pc \notin {"ssh", "save"}
    BY <1>1, <2>1 DEF Closing
  <2>4. \A o \in Elems(network) : o.by # -1 /\ o.op \notin {"connect", "on", "end"}
    BY <1>1, <2>1, <2>2 DEF Operated
  <2>5. \A w \in Elems(writes) : w.by # -1
    BY <1>1, <2>1 DEF Stored
  <2> QED  BY <2>1, <2>2, <2>3, <2>4, <2>5
<1>4. CASE DiscSettle \/ DiscDetach
  <2>1. /\ UNCHANGED <<connecting, request>>
        /\ disc' \in Disconnects /\ disc'.pc \in {"detach", "commands"}
        /\ disc'.by = disc.by /\ disc'.failed = disc.failed
    <3>1. Active \in SUBSET Commands
      BY DEF Active
    <3>2. disc \in Disconnects /\ disc.by \in Requests \cup {0} /\ disc.failed \in BOOLEAN
      BY <1>1, Fields DEF TypedControl
    <3>3. CASE DiscSettle
      <4>1. disc' = [disc EXCEPT !.pc = "detach"] /\ UNCHANGED <<connecting, request>>
        BY <3>3 DEF DiscSettle
      <4> QED  BY <3>2, <4>1 DEF Disconnects
    <3>4. CASE DiscDetach
      <4>1. disc' = [disc EXCEPT !.pc = "commands", !.waits = Active] /\ UNCHANGED <<connecting, request>>
        BY <3>4 DEF DiscDetach
      <4> QED  BY <3>1, <3>2, <4>1 DEF Disconnects
    <3> QED  BY <1>4, <3>3, <3>4
  <2>2. TypedControl'
    BY <1>1, <1>2, <2>1 DEF TypedControl
  <2>3. Booting' /\ Ports'
    BY <1>1, <1>2, <1>3, <2>1 DEF Booting, Ports
  <2>4. Calls'
    BY <1>1, <1>2, <1>3, <2>1 DEF Calls, Open, Current
  <2>5. Operated' /\ Stored'
    BY <1>1, <1>2, <1>3, <2>1 DEF Operated, Stored
  <2>6. Hosted' /\ Closing'
    BY <1>1, <1>2, <1>3, <2>1 DEF Hosted, Closing, Open, Current
  <2> QED  BY <2>2, <2>3, <2>4, <2>5, <2>6 DEF Control
<1>5. CASE DiscEnd
  <2>1. /\ disc' = NotDisconnecting /\ NotDisconnecting.pc = "none"
        /\ connecting' = FALSE
    BY <1>1, <1>3, <1>5 DEF DiscEnd, NotDisconnecting, TypedControl
  <2>2. /\ request' \in [Requests -> Requested]
        /\ \A n \in Requests : request'[n] = (IF n = disc.by THEN Idle ELSE request[n])
    <3>1. Idle \in Requested
      BY IdleTyped
    <3>2. disc.by \in Requests \cup {0} /\ 0 \notin Requests
      BY <1>1, Fields
    <3>3. request \in [Requests -> Requested]
      BY <1>1 DEF TypedControl
    <3>4. CASE disc.by = 0
      BY <1>5, <3>2, <3>3, <3>4 DEF DiscEnd
    <3>5. CASE disc.by # 0
      BY <1>5, <3>1, <3>2, <3>3, <3>5 DEF DiscEnd
    <3> QED  BY <3>4, <3>5
  <2>3. Idle.pc = "idle" /\ Idle.rev = 0
    BY IdleTyped
  <2>4. \A n \in Requests : request'[n].pc = "idle" /\ request'[n].rev <= revision
    <3>1. revision \in Nat
      BY <1>1, Fields
    <3>2. \A n \in Requests : request[n].pc \in {"idle", "ssh", "save", "closing"}
      BY <1>1, Fields
    <3> QED  BY <1>1, <1>3, <2>2, <2>3, <3>1, <3>2 DEF Calls
  <2>5. TypedControl'
    <3>1. NotDisconnecting \in Disconnects
      BY DEF NotDisconnecting, Disconnects
    <3> QED  BY <1>1, <1>2, <2>1, <2>2, <3>1 DEF TypedControl
  <2>6. Booting' /\ Ports'
    BY <1>1, <1>2, <1>3 DEF Booting, Ports
  <2>7. Calls'
    BY <1>2, <2>1, <2>4 DEF Calls, Open, Current
  <2>8. Operated'
    <3>1. \A o \in Elems(network) : ~(o.by > 0)
      BY <1>1, <1>3, ElemsTyped DEF Operated
    <3>2. \A o \in Elems(network') :
          /\ ~(o.by > 0) /\ o.by # -1 /\ o.op # "end" /\ o.op \notin {"connect", "on"}
      BY <1>2, <1>3, <3>1
    <3>3. Once(network') /\ Precede(network', Opening, Last(Operations))
      BY <1>1, <1>2 DEF Operated
    <3> QED  BY <2>4, <3>2, <3>3 DEF Operated
  <2>9. Stored'
    <3>1. \A w \in Elems(writes') : ~(w.by > 0) /\ w.by # -1 /\ (w.by = 0 => boot' = "save")
      BY <1>1, <1>2, <1>3, ElemsTyped DEF Stored
    <3>2. Once(writes') /\ Precede(writes', Asked, Last(Saves))
      BY <1>1, <1>2 DEF Stored
    <3> QED  BY <2>4, <3>1, <3>2 DEF Stored
  <2>10. Hosted' /\ Closing'
    BY <1>2, <1>3, <2>1, <2>4 DEF Hosted, Closing, Open
  <2> QED  BY <2>5, <2>6, <2>7, <2>8, <2>9, <2>10 DEF Control
<1> QED  BY <1>4, <1>5 DEF DiscStep

-----------------------------------------------------------------------------
(* Control: Connect, Reconnect and remote browsing.                        *)

\* A request begins: no other is under way.
LEMMA AskControl ==
  ASSUME Control, boot = "ready", revision < MaxRevision, NEW n \in Requests, ~connecting, disc.pc = "none",
         NEW h \in Hosts \cup {None}, NEW k \in {"connect", "reconnect"}, enabled <=> k = "reconnect",
         enabled => h = host,
         revision' = revision + 1, connecting' = TRUE,
         request' = [request EXCEPT ![n] = [pc |-> "ssh", kind |-> k, rev |-> revision + 1, host |-> h]],
         connectNativeHost(enabled, host, timer, <<[op |-> "connect", by |-> n, host |-> h]>>),
         UNCHANGED <<boot, enabled, host, disc, saved, routed, writes>>
  PROVE  Control'
<1>1. /\ TypedControl /\ Booting /\ Calls /\ Ports /\ Operated /\ Stored /\ Hosted /\ Closing
  BY DEF Control
<1>2. \A m \in Requests : request[m].pc = "idle"
  <2>1. \A m \in Requests : request[m].pc \notin {"ssh", "save", "closing"}
    BY <1>1 DEF Calls, Open
  <2> QED  BY <1>1, <2>1, Fields
<1> DEFINE e == [op |-> "connect", by |-> n, host |-> h]
<1>3. /\ e \in Operations /\ e.by = n /\ e.op = "connect" /\ e.host = h /\ n \in Nat /\ n # 0 /\ n > 0 /\ n # -1
      /\ RestoredOp(host).op = "connect" /\ RestoredOp(host).by = 0 /\ RestoredOp(host).host = host
  BY RequestsAssumption DEF Operations, RestoredOp
<1>4. connectNativeHost(enabled, host, timer, <<e>>) /\ timer \in BOOLEAN
  BY <1>1 DEF TypedControl
<1> HIDE DEF e
<1>5. PICK q \in {network, Append(network, RestoredOp(host))} :
        /\ network' = q \o <<e>>
        /\ q = network \/ (enabled /\ host # None)
        /\ UNCHANGED <<port, session>> \/ (~port /\ port' = TRUE /\ session' = None)
        /\ timer' \in BOOLEAN
  <2> DEFINE ops == <<e>>
  <2>1. connectNativeHost(enabled, host, timer, ops) /\ timer \in BOOLEAN
    BY <1>4
  <2> HIDE DEF ops
  <2>2. Reached(enabled, host, ops)
    BY <2>1, NativeConnects
  <2> QED  BY <2>2 DEF ops, Reached
<1>6. /\ q \in Seq(Operations) /\ Once(q) /\ Precede(q, Opening, Last(Operations))
      /\ Elems(q) = Elems(network) \cup (IF q = network THEN {} ELSE {RestoredOp(host)})
      /\ \A o \in Elems(network) : o.by # -1
  <2>1. host \in Hosts \cup {None}
    BY <1>1 DEF TypedControl
  <2> QED  BY <2>1, NetworkGrows
<1>7. \A o \in Elems(network) : ~(o.by > 0)
  BY <1>1, <1>2, ElemsTyped DEF Operated
<1>8. \A o \in Elems(q) : o.by # n /\ o.by # -1
  <2>1. \A o \in Elems(q) : o \in Elems(network) \/ o = RestoredOp(host)
    BY <1>6
  <2> QED  BY <1>3, <1>6, <1>7, <2>1
<1>9. network' = Append(q, e)
  BY <1>3, <1>5, <1>6, AppendIsConcat
<1>10. /\ network' \in Seq(Operations) /\ Elems(network') = Elems(q) \cup {e}
       /\ Once(network') /\ Precede(network', Opening, Last(Operations))
  BY <1>3, <1>6, <1>8, <1>9, NetworkAdds
<1>11. revision \in Nat /\ revision + 1 \in 0 .. MaxRevision
  BY <1>1, RevisionAssumption DEF TypedControl
<1>12. /\ request' \in [Requests -> Requested]
       /\ request'[n].pc = "ssh" /\ request'[n].kind = k /\ request'[n].rev = revision + 1
       /\ request'[n].host = h
       /\ \A m \in Requests : m # n => request'[m] = request[m]
  <2> DEFINE r == [pc |-> "ssh", kind |-> k, rev |-> revision + 1, host |-> h]
  <2>1. r \in Requested /\ r.pc = "ssh" /\ r.kind = k /\ r.rev = revision + 1 /\ r.host = h
    BY <1>11 DEF Requested
  <2>2. request \in [Requests -> Requested] /\ request' = [request EXCEPT ![n] = r]
    BY <1>1 DEF TypedControl
  <2> HIDE DEF r
  <2> QED  BY <2>1, <2>2
<1>13. TypedControl'
  <2>1. revision' \in 0 .. MaxRevision + 1
    BY <1>11, RevisionAssumption
  <2>2. port' \in BOOLEAN /\ session' \in Hosts \cup {None}
    BY <1>1, <1>5 DEF TypedControl
  <2> QED  BY <1>1, <1>5, <1>10, <1>12, <2>1, <2>2 DEF TypedControl
<1>14. Booting'
  BY DEF Booting
<1>15. Calls'
  <2>1. \A m \in Requests : m # n => request'[m].pc = "idle" /\ request'[m].rev < revision'
    <3>1. \A m \in Requests : request[m].rev <= revision /\ request[m].rev \in Nat
      BY <1>1, Fields DEF Calls
    <3> QED  BY <1>2, <1>11, <1>12, <3>1
  <2>2. Open(n)' /\ Current(n)' /\ \A m \in Requests : Open(m)' => m = n
    BY <1>12, <2>1 DEF Open, Current
  <2>3. \A m \in Requests : request'[m].rev <= revision'
    <3>1. \A m \in Requests : request[m].rev <= revision /\ request[m].rev \in Nat
      BY <1>1, Fields DEF Calls
    <3> QED  BY <1>11, <1>12, <3>1
  <2> QED  BY <1>12, <2>1, <2>2, <2>3 DEF Calls
<1>16. Ports'
  BY <1>1, <1>5 DEF Ports
<1>17. Operated'
  <2>1. ASSUME NEW o \in Elems(network')
        PROVE  /\ o.by > 0 => o.op = "connect" /\ request'[o.by].pc = "ssh" /\ o.host = request'[o.by].host
               /\ o.by # -1 /\ o.op # "end"
    <3>1. CASE o \in Elems(network)
      BY <1>1, <1>6, <1>7, <3>1 DEF Operated
    <3>2. CASE o = RestoredOp(host)
      BY <1>3, <3>2
    <3>3. CASE o = e
      BY <1>3, <1>12, <3>3
    <3> QED  BY <1>6, <1>10, <3>1, <3>2, <3>3
  <2>2. ASSUME NEW m \in Requests, request'[m].pc = "ssh" PROVE \E o \in Elems(network') : o.by = m
    BY <1>2, <1>3, <1>10, <1>12, <2>2
  <2> QED  BY <1>10, <2>1, <2>2 DEF Operated
<1>18. Stored'
  <2>1. \A w \in Elems(writes) : ~(w.by > 0)
    BY <1>1, <1>2, ElemsTyped DEF Stored
  <2>2. \A m \in Requests : request'[m].pc # "save"
    BY <1>2, <1>12
  <2>3. Elems(writes') = Elems(writes)
    OBVIOUS
  <2> QED  BY <1>1, <2>1, <2>2, <2>3 DEF Stored
<1>19. Hosted'
  <2>1. enabled => \A o \in Elems(network') : o.op = "connect" => o.host = host
    BY <1>1, <1>3, <1>6, <1>10 DEF Hosted
  <2>2. session' \in {session, None}
    BY <1>5
  <2>3. ~enabled => session = None
    BY <1>1 DEF Ports
  <2>4. ASSUME ~enabled, NEW o \in Elems(network'), o.op = "connect" PROVE o.by = n
    <3>1. q = network
      BY <1>5, <2>4
    <3>2. o \notin Elems(network)
      BY <1>1, <2>4 DEF Operated
    <3> QED  BY <1>3, <1>6, <1>10, <3>1, <3>2
  <2>5. \A m \in Requests : Open(m)' => m = n
    BY <1>2, <1>12 DEF Open
  <2> QED  BY <1>1, <2>1, <2>2, <2>3, <2>4, <2>5 DEF Hosted
<1>20. Closing'
  BY DEF Closing
<1> QED  BY <1>13, <1>14, <1>15, <1>16, <1>17, <1>18, <1>19, <1>20 DEF Control

LEMMA ConnectControl ==
  ASSUME Control, NEW n \in Requests, (\E h \in Hosts : Connect(h, n)) \/ Reconnect(n)
  PROVE  Control'
<1>1. enabled \in BOOLEAN /\ host \in Hosts \cup {None}
  BY DEF Control, TypedControl
<1>2. ASSUME NEW h \in Hosts, Connect(h, n) PROVE Control'
  <2>1. enabled = FALSE /\ h \in Hosts \cup {None} /\ (enabled <=> "connect" = "reconnect")
    BY <1>1, <1>2 DEF Connect
  <2>2. /\ boot = "ready" /\ revision < MaxRevision /\ ~connecting /\ disc.pc = "none"
        /\ revision' = revision + 1 /\ connecting' = TRUE
        /\ request' = [request EXCEPT ![n] =
                         [pc |-> "ssh", kind |-> "connect", rev |-> revision + 1, host |-> h]]
        /\ connectNativeHost(enabled, host, timer, <<[op |-> "connect", by |-> n, host |-> h]>>)
        /\ UNCHANGED <<boot, enabled, host, disc, saved, routed, writes>>
    BY <1>2, <2>1 DEF Connect
  <2> QED  BY <2>1, <2>2, AskControl
<1>3. CASE Reconnect(n)
  <2>1. enabled = TRUE /\ (enabled <=> "reconnect" = "reconnect")
    BY <1>1, <1>3 DEF Reconnect
  <2>2. /\ boot = "ready" /\ revision < MaxRevision /\ ~connecting /\ disc.pc = "none"
        /\ revision' = revision + 1 /\ connecting' = TRUE
        /\ request' = [request EXCEPT ![n] =
                         [pc |-> "ssh", kind |-> "reconnect", rev |-> revision + 1, host |-> host]]
        /\ connectNativeHost(enabled, host, timer, <<[op |-> "connect", by |-> n, host |-> host]>>)
        /\ UNCHANGED <<boot, enabled, host, disc, saved, routed, writes>>
    BY <1>3, <2>1 DEF Reconnect
  <2> QED  BY <1>1, <2>1, <2>2, AskControl
<1> QED  BY <1>2, <1>3

\* Remote browsing is asked for, or turned off.
LEMMA NetworkSetControl ==
  ASSUME Control, NetworkSet
  PROVE  Control'
<1>1. /\ TypedControl /\ Booting /\ Calls /\ Ports /\ Operated /\ Stored /\ Hosted /\ Closing
  BY DEF Control
<1>2. UNCHANGED <<boot, enabled, connecting, revision, host, request, disc, port, timer, session,
                  saved, routed, writes>>
  BY DEF NetworkSet, connection, helper
<1>3. PICK e \in {[op |-> "on", by |-> 0, host |-> None], [op |-> "off", by |-> 0, host |-> None]} :
        network' = Append(network, e) /\ (e.op = "on" => enabled)
  <2>1. [op |-> "off", by |-> 0, host |-> None].op # "on"
    OBVIOUS
  <2> QED  BY <2>1 DEF NetworkSet
<1>4. e \in Operations /\ e.by = 0 /\ e.op \in {"on", "off"}
  BY DEF Operations
<1>5. e.op = "on" => \A o \in Elems(network) : o.by # -1
  BY <1>1, <1>3 DEF Calls, Operated
<1>6. /\ network' \in Seq(Operations) /\ Elems(network') = Elems(network) \cup {e}
      /\ Once(network') /\ Precede(network', Opening, Last(Operations))
  <2>1. network \in Seq(Operations) /\ Once(network) /\ Precede(network, Opening, Last(Operations))
    BY <1>1 DEF TypedControl, Operated
  <2>2. e.op \notin {"connect", "on"} \/ (e.by # -1 /\ \A o \in Elems(network) : o.by # -1)
    BY <1>4, <1>5
  <2> QED  BY <1>3, <1>4, <2>1, <2>2, NetworkAdds
<1>7. TypedControl'
  BY <1>1, <1>2, <1>6 DEF TypedControl
<1>8. Booting'
  BY <1>2 DEF Booting, NetworkSet
<1>9. Calls' /\ Ports' /\ Stored' /\ Closing'
  BY <1>1, <1>2, Zenon DEF Calls, Ports, Stored, Closing, Open, Current
<1>10. Operated'
  BY <1>1, <1>2, <1>3, <1>4, <1>6 DEF Operated
<1>11. Hosted'
  BY <1>1, <1>2, <1>4, <1>6 DEF Hosted, Open, Current
<1> QED  BY <1>7, <1>8, <1>9, <1>10, <1>11 DEF Control

-----------------------------------------------------------------------------
(* Control: the chain of network operations.                               *)

\* An operation that is neither a request's nor a Disconnect's is done.
LEMMA DoneControl ==
  ASSUME Control, NEW i \in 1 .. Len(network), Done(i), network[i].by = 0, network' = Without(i),
         UNCHANGED <<boot, enabled, connecting, revision, host, request, disc, port, timer, saved, writes>>,
         session' \in Hosts \cup {None}, session' # None => port, enabled => session' \in {host, None},
         session' = session \/ enabled \/ \A n \in Requests : ~(Open(n) /\ Current(n)),
         routed' \in BOOLEAN,
         routed' => routed \/ disc.pc \notin {"ssh", "settle", "detach", "commands"}
  PROVE  Control'
<1>1. /\ TypedControl /\ Booting /\ Calls /\ Ports /\ Operated /\ Stored /\ Hosted /\ Closing
  BY DEF Control
<1>2. /\ network' \in Seq(Operations) /\ Once(network') /\ Precede(network', Opening, Last(Operations))
      /\ Elems(network') \subseteq Elems(network) /\ network[i] \in Elems(network)
      /\ \A x \in Elems(network) : x # network[i] => x \in Elems(network')
  <2> DEFINE r == Without(i)
  <2>1. /\ r \in Seq(Operations) /\ Once(r) /\ Precede(r, Opening, Last(Operations))
        /\ Elems(r) \subseteq Elems(network) /\ network[i] \in Elems(network)
        /\ \A x \in Elems(network) : x # network[i] => x \in Elems(r)
    BY NetworkDone
  <2>2. network' = r
    OBVIOUS
  <2> HIDE DEF r
  <2> QED  BY <2>1, <2>2
<1>3. TypedControl'
  BY <1>1, <1>2 DEF TypedControl
<1>4. Booting' /\ Ports'
  BY <1>1, <1>2 DEF Booting, Ports
<1>5. Calls' /\ Stored'
  BY <1>1, Zenon DEF Calls, Stored, Open, Current
<1>6. Operated'
  <2>1. ASSUME NEW m \in Requests, request[m].pc = "ssh" PROVE \E o \in Elems(network') : o.by = m
    <3>1. PICK o \in Elems(network) : o.by = m
      BY <1>1, <2>1 DEF Operated
    <3>2. o # network[i]
      BY <3>1, RequestsAssumption
    <3> QED  BY <1>2, <3>1, <3>2
  <2> QED  BY <1>1, <1>2, <2>1 DEF Operated
<1>7. Hosted'
  BY <1>1, <1>2 DEF Hosted, Open, Current
<1>8. Closing'
  BY <1>1 DEF Closing
<1> QED  BY <1>3, <1>4, <1>5, <1>6, <1>7, <1>8 DEF Control

\* A connect is the worker's own, or asked for by a request that waits for it.
LEMMA ConnectsFor ==
  ASSUME Control, NEW i \in 1 .. Len(network), Done(i), network[i].op = "connect"
  PROVE  /\ network[i].host \in Hosts \cup {None} /\ (enabled => network[i].host = host)
         /\ \/ network[i].by = 0 /\ (enabled \/ \A n \in Requests : ~(Open(n) /\ Current(n)))
            \/ /\ network[i].by \in Requests /\ network[i].by > 0 /\ Open(network[i].by)
               /\ request[network[i].by].pc = "ssh" /\ request[network[i].by].host = network[i].host
<1>1. /\ TypedControl /\ Operated /\ Hosted
  BY DEF Control
<1>2. network[i] \in Elems(network) /\ network[i] \in Operations
  BY NetworkDone
<1>3. network[i].by \in Requests \cup {0, -1} /\ network[i].host \in Hosts \cup {None}
  BY <1>2 DEF Operations
<1>4. network[i].by # -1
  BY <1>1, <1>2 DEF Operated
<1>5. CASE network[i].by = 0
  <2>1. \A n \in Requests : n # 0
    BY RequestsAssumption
  <2> QED  BY <1>1, <1>2, <1>3, <1>5, <2>1 DEF Hosted
<1>6. CASE network[i].by \in Requests
  <2>1. network[i].by > 0
    BY <1>6, RequestsAssumption
  <2> QED  BY <1>1, <1>2, <1>3, <1>6, <2>1 DEF Operated, Hosted, Open
<1> QED  BY <1>3, <1>4, <1>5, <1>6

\* The connect of a request fails, was cancelled, or was the last thing to do.
LEMMA EndsControl ==
  ASSUME Control, NEW i \in 1 .. Len(network), Done(i), network[i].op = "connect", network[i].by \in Requests,
         failed(network[i].by, writes), network' = Without(i),
         UNCHANGED <<boot, host, port, saved, routed>>,
         session' \in {session, network[i].host}, session' = session \/ port
  PROVE  Control'
<1>1. /\ TypedControl /\ Ports /\ Operated /\ Stored /\ Hosted
  BY DEF Control
<1> DEFINE n == network[i].by
<1>2. /\ n \in Requests /\ request[n].pc = "ssh" /\ Open(n) /\ network[i].host \in Hosts \cup {None}
      /\ enabled => network[i].host = host
      /\ n # 0
  BY ConnectsFor, RequestsAssumption
<1>3. /\ network' \in Seq(Operations) /\ Once(network') /\ Precede(network', Opening, Last(Operations))
      /\ Less(network, network', n)
  <2> DEFINE r == Without(i)
  <2>1. /\ r \in Seq(Operations) /\ Once(r) /\ Precede(r, Opening, Last(Operations))
        /\ Elems(r) \subseteq Elems(network)
        /\ \A x \in Elems(network) : x # network[i] => x \in Elems(r)
        /\ network[i].by # 0 => \A x \in Elems(r) : x.by # network[i].by
    BY NetworkDone
  <2>2. network' = r
    OBVIOUS
  <2> HIDE DEF r
  <2> QED  BY <1>2, <2>1, <2>2 DEF Less
<1>4. failed(n, writes)
  OBVIOUS
<1> HIDE DEF n
<1>5. writes \in Seq(Saves) /\ Once(writes) /\ Precede(writes, Asked, Last(Saves)) /\ Less(writes, writes, n)
  <2>1. n > 0
    BY <1>2, RequestsAssumption
  <2>2. \A w \in Elems(writes) : w.by # n
    BY <1>1, <1>2, <2>1 DEF Stored
  <2> QED  BY <1>1, <2>2 DEF TypedControl, Stored, Less
<1>6. session' \in Hosts \cup {None} /\ (session' # None => port) /\ (enabled => session' \in {host, None})
  BY <1>1, <1>2 DEF TypedControl, Ports, Hosted
<1>7. saved' \in Stores /\ saved' = saved
  BY <1>1 DEF TypedControl
<1> QED  BY <1>2, <1>3, <1>4, <1>5, <1>6, <1>7, FailedControl

\* The helper has connected, and the request goes on to save itself.
LEMMA SavesControl ==
  ASSUME Control, NEW i \in 1 .. Len(network), Done(i), network[i].op = "connect", port,
         NEW n \in Requests, n = network[i].by, Current(n), request[n].kind = "connect",
         request' = [request EXCEPT ![n].pc = "save"],
         writes' = Append(writes, [enabled |-> "yes", host |-> network[i].host, by |-> n]),
         session' = network[i].host, network' = Without(i),
         UNCHANGED <<boot, enabled, connecting, revision, host, disc, port, timer, saved, routed>>
  PROVE  Control'
<1>1. /\ TypedControl /\ Booting /\ Calls /\ Ports /\ Operated /\ Stored /\ Hosted /\ Closing
  BY DEF Control
<1>2. /\ request[n].pc = "ssh" /\ Open(n) /\ request[n].host = network[i].host /\ n > 0 /\ n # 0
      /\ network[i].host \in Hosts \cup {None}
  BY ConnectsFor, RequestsAssumption
<1>3. connecting /\ ~enabled /\ disc.pc = "none" /\ boot = "ready"
  BY <1>1, <1>2 DEF Calls, Booting
<1>4. /\ network' \in Seq(Operations) /\ Once(network') /\ Precede(network', Opening, Last(Operations))
      /\ Elems(network') \subseteq Elems(network)
      /\ \A x \in Elems(network) : x # network[i] => x \in Elems(network')
      /\ \A x \in Elems(network') : x.by # n
  <2> DEFINE r == Without(i)
  <2>1. /\ r \in Seq(Operations) /\ Once(r) /\ Precede(r, Opening, Last(Operations))
        /\ Elems(r) \subseteq Elems(network)
        /\ \A x \in Elems(network) : x # network[i] => x \in Elems(r)
        /\ network[i].by # 0 => \A x \in Elems(r) : x.by # network[i].by
    BY NetworkDone
  <2>2. network' = r
    OBVIOUS
  <2> HIDE DEF r
  <2> QED  BY <1>2, <2>1, <2>2
<1> DEFINE e == [enabled |-> "yes", host |-> network[i].host, by |-> n]
<1>5. /\ writes' \in Seq(Saves) /\ Once(writes') /\ Precede(writes', Asked, Last(Saves))
      /\ Elems(writes') = Elems(writes) \cup {e} /\ e.by = n
  <2>1. e \in Saves /\ e.by = n /\ writes' = Append(writes, e)
    BY <1>2 DEF Saves
  <2> HIDE DEF e
  <2>2. \A w \in Elems(writes) : w.by # n /\ w.by # -1
    BY <1>1, <1>2, <1>3 DEF Stored
  <2>3. writes \in Seq(Saves) /\ Once(writes) /\ Precede(writes, Asked, Last(Saves))
    BY <1>1 DEF TypedControl, Stored
  <2> QED  BY <2>1, <2>2, <2>3, WritesAdds
<1> HIDE DEF e
<1>6. /\ request' \in [Requests -> Requested]
      /\ request'[n].pc = "save" /\ \A m \in Requests : m # n => request'[m] = request[m]
      /\ request'[n].kind = "connect" /\ request'[n].rev = request[n].rev /\ request'[n].host = request[n].host
  <2>1. request \in [Requests -> Requested]
    BY <1>1 DEF TypedControl
  <2> QED  BY <2>1, Moves
<1>7. \A m \in Requests : (Open(m)' <=> Open(m)) /\ (Current(m)' <=> Current(m))
  BY <1>2, <1>6 DEF Open, Current
<1>8. TypedControl'
  BY <1>1, <1>2, <1>4, <1>5, <1>6 DEF TypedControl
<1>9. Booting' /\ Ports' /\ Closing'
  BY <1>1, <1>3 DEF Booting, Ports, Closing
<1>10. Calls'
  <2>1. \A m \in Requests :
          /\ request'[m].rev <= revision
          /\ request'[m].pc # "closing"
          /\ request'[m].pc = "save" => request'[m].kind = "connect"
          /\ Open(m) /\ Current(m) => connecting /\ (enabled <=> request'[m].kind = "reconnect")
    BY <1>1, <1>3, <1>6 DEF Calls
  <2> QED  BY <1>1, <1>3, <1>7, <2>1 DEF Calls
<1>11. Operated'
  <2>1. ASSUME NEW o \in Elems(network')
        PROVE  /\ o.by > 0 => o.op = "connect" /\ request'[o.by].pc = "ssh" /\ o.host = request'[o.by].host
               /\ o.by = -1 => \/ o.op = "off" /\ disc'.pc = "off"
                               \/ o.op = "end" /\ disc'.pc = "ssh"
               /\ o.op = "end" => o.by = -1
               /\ o.op \in {"connect", "on"} => enabled' \/ connecting' \/ disc'.pc \in {"save", "off"}
    <3>1. o \in Elems(network) /\ o.by # n
      BY <1>4
    <3>2. o.by > 0 => o.by \in Requests
      BY <1>1, <3>1, ElemsTyped
    <3> QED  BY <1>1, <1>6, <3>1, <3>2 DEF Operated
  <2>2. ASSUME NEW m \in Requests, request'[m].pc = "ssh" PROVE \E o \in Elems(network') : o.by = m
    <3>1. m # n /\ request[m].pc = "ssh"
      BY <1>6, <2>2
    <3>2. PICK o \in Elems(network) : o.by = m
      BY <1>1, <3>1 DEF Operated
    <3> QED  BY <1>4, <3>1, <3>2
  <2> QED  BY <1>4, <2>1, <2>2 DEF Operated
<1>12. Stored'
  <2>1. ASSUME NEW w \in Elems(writes')
        PROVE  /\ w.by > 0  => request'[w.by].pc = "save"
               /\ w.by = -1 => disc'.pc = "save"
               /\ w.by = 0  => boot' = "save"
    <3>1. CASE w \in Elems(writes)
      <4>1. w.by > 0 => w.by \in Requests
        BY <1>1, <3>1, ElemsTyped
      <4> QED  BY <1>1, <1>6, <3>1, <4>1 DEF Stored
    <3>2. CASE w = e
      BY <1>2, <1>5, <1>6, <3>2
    <3> QED  BY <1>5, <3>1, <3>2
  <2>2. ASSUME NEW m \in Requests, request'[m].pc = "save" PROVE \E w \in Elems(writes') : w.by = m
    <3>1. CASE m = n
      BY <1>5, <3>1
    <3>2. CASE m # n
      BY <1>1, <1>5, <1>6, <2>2, <3>2 DEF Stored
    <3> QED  BY <3>1, <3>2
  <2> QED  BY <1>5, <2>1, <2>2 DEF Stored
<1>13. Hosted'
  <2>1. \A m \in Requests : Open(m) /\ Current(m) => m = n
    BY <1>1, <1>2 DEF Calls
  <2>2. \A o \in Elems(network') : o.op # "connect"
    BY <1>1, <1>2, <1>3, <1>4 DEF Hosted
  <2> QED  BY <1>2, <1>3, <1>6, <1>7, <2>1, <2>2 DEF Hosted
<1> QED  BY <1>8, <1>9, <1>10, <1>11, <1>12, <1>13 DEF Control

LEMMA SSHControl ==
  ASSUME Control, NEW i \in 1 .. Len(network), SSHConnected(i) \/ SSHFails(i)
  PROVE  Control'
<1> DEFINE o == network[i]
<1>1. /\ Done(i) /\ o.op = "connect" /\ network' = Without(i) /\ UNCHANGED <<boot, host, port, saved, routed>>
      /\ session' \in {session, o.host} /\ (session' = session \/ port)
  BY DEF SSHConnected, SSHFails
<1>2. TypedControl /\ Ports /\ Hosted
  BY DEF Control
<1>3. /\ o.host \in Hosts \cup {None} /\ (enabled => o.host = host)
      /\ \/ o.by = 0 /\ (enabled \/ \A n \in Requests : ~(Open(n) /\ Current(n)))
         \/ o.by \in Requests /\ o.by > 0
  BY <1>1, ConnectsFor
<1>4. CASE o.by = 0
  <2>1. UNCHANGED <<revision, enabled, connecting, request, disc, writes, timer>>
    BY <1>4 DEF SSHConnected, SSHFails
  <2>2. enabled \/ \A n \in Requests : ~(Open(n) /\ Current(n))
    BY <1>3, <1>4
  <2>3. /\ session' \in Hosts \cup {None} /\ (session' # None => port) /\ (enabled => session' \in {host, None})
    BY <1>1, <1>2, <1>3 DEF TypedControl, Ports, Hosted
  <2>4. routed' \in BOOLEAN /\ routed' = routed
    BY <1>1, <1>2 DEF TypedControl
  <2> QED  BY <1>1, <1>4, <2>1, <2>2, <2>3, <2>4, DoneControl
<1>5. CASE o.by # 0 /\ failed(o.by, writes)
  BY <1>1, <1>3, <1>5, EndsControl
<1>6. ASSUME o.by # 0, ~failed(o.by, writes) PROVE Control'
  <2>1. /\ SSHConnected(i) /\ port /\ session' = o.host
        /\ o.by \in Requests
    BY <1>3, <1>6 DEF SSHConnected, SSHFails
  <2>2. request[o.by].rev = revision
    BY <1>6, <2>1 DEF SSHConnected
  <2>3. request[o.by].kind = "connect"
    <3>1. SUFFICES ASSUME request[o.by].kind # "connect" PROVE failed(o.by, writes)
      BY <1>6
    <3> QED  BY <1>6, <2>1, <2>2, <3>1 DEF SSHConnected, failed
  <2>4. /\ request' = [request EXCEPT ![o.by].pc = "save"]
        /\ writes' = Append(writes, [enabled |-> "yes", host |-> o.host, by |-> o.by])
        /\ UNCHANGED <<revision, enabled, connecting, disc, timer>>
    BY <1>6, <2>1, <2>2, <2>3 DEF SSHConnected
  <2>5. Current(o.by)
    BY <2>2 DEF Current
  <2> QED  BY <1>1, <2>1, <2>3, <2>4, <2>5, SavesControl
<1> QED  BY <1>4, <1>5, <1>6

\* Remote browsing is on or off.
LEMMA OnOffControl ==
  ASSUME Control, NEW i \in 1 .. Len(network), On(i) \/ Off(i)
  PROVE  Control'
<1>1. /\ Done(i) /\ network' = Without(i)
      /\ UNCHANGED <<boot, enabled, connecting, revision, host, request, disc, port, timer, session, saved,
                     writes>>
  BY DEF On, Off, connection, helper
<1>2. /\ TypedControl /\ Calls /\ Ports /\ Operated /\ Hosted
  BY DEF Control
<1>3. network[i] \in Elems(network) /\ network[i] \in Operations
  BY <1>1, NetworkDone
<1>4. network[i].by = 0
  <2>1. network[i].op \in {"on", "off"} /\ (network[i].op = "off" => network[i].by = 0)
    BY DEF On, Off
  <2>2. network[i].by \in Requests \cup {0, -1}
    BY <1>3 DEF Operations
  <2>3. network[i].by \in Requests => network[i].by > 0
    BY <1>2, Fields
  <2> QED  BY <1>2, <1>3, <2>1, <2>2, <2>3 DEF Operated
<1>5. routed' \in BOOLEAN /\ (routed' => routed \/ disc.pc \notin {"ssh", "settle", "detach", "commands"})
  <2>1. routed \in BOOLEAN
    BY <1>2 DEF TypedControl
  <2>2. CASE On(i)
    <3>1. enabled \/ connecting \/ disc.pc \in {"save", "off"}
      BY <1>2, <1>3, <2>2 DEF On, Operated
    <3>2. disc.pc \notin {"ssh", "settle", "detach", "commands"}
      BY <1>2, <3>1 DEF Calls
    <3> QED  BY <2>1, <2>2, <3>2 DEF On
  <2>3. CASE Off(i)
    BY <2>1, <2>3 DEF Off
  <2> QED  BY <2>2, <2>3
<1>6. session' \in Hosts \cup {None} /\ (session' # None => port) /\ (enabled => session' \in {host, None})
  BY <1>1, <1>2 DEF TypedControl, Ports, Hosted
<1> QED  BY <1>1, <1>4, <1>5, <1>6, DoneControl

\* What a Disconnect does with the chain.
LEMMA DiscOperation ==
  ASSUME Control, NEW i \in 1 .. Len(network), Done(i), network[i].by = -1
  PROVE  /\ boot = "ready" /\ ~enabled /\ ~connecting /\ disc.pc # "none" /\ disc.pc # "save"
         /\ \A n \in Requests : ~Open(n)
         /\ \A w \in Elems(writes) : w.by # -1
         /\ \A o \in Elems(Without(i)) : ~(o.by > 0) /\ o.by # -1 /\ o.op \notin {"connect", "on", "end"}
<1>1. /\ TypedControl /\ Booting /\ Calls /\ Operated /\ Stored /\ Closing
  BY DEF Control
<1> DEFINE r == Without(i)
<1>2. /\ network[i] \in Elems(network) /\ Elems(r) \subseteq Elems(network)
      /\ \A x \in Elems(r) : x.by # -1
      /\ \A x \in Elems(network) : x.op \notin {"connect", "on"}
  BY NetworkDone
<1> HIDE DEF r
<1>3. disc.pc # "none" /\ disc.pc # "save"
  BY <1>1, <1>2 DEF Operated
<1>4. boot = "ready" /\ ~enabled /\ ~connecting
  BY <1>1, <1>3 DEF Booting, Calls
<1>5. \A n \in Requests : ~Open(n)
  <2> SUFFICES ASSUME NEW n \in Requests, Open(n) PROVE FALSE
    OBVIOUS
  <2>1. request[n].pc = "ssh"
    BY <1>1, <1>3, Fields DEF Closing, Open
  <2>2. PICK o \in Elems(network) : o.by = n
    BY <1>1, <2>1 DEF Operated
  <2>3. n > 0
    BY <1>1, Fields
  <2> QED  BY <1>1, <1>2, <2>2, <2>3 DEF Operated
<1>6. \A w \in Elems(writes) : w.by # -1
  BY <1>1, <1>3 DEF Stored
<1>7. \A o \in Elems(r) : ~(o.by > 0) /\ o.by # -1 /\ o.op \notin {"connect", "on", "end"}
  BY <1>1, <1>2 DEF Operated
<1> QED  BY <1>3, <1>4, <1>5, <1>6, <1>7 DEF r

\* A Disconnect goes on.
LEMMA DiscGoesOn ==
  ASSUME Control, NEW i \in 1 .. Len(network), Done(i), network[i].by = -1,
         network' \in Seq(Operations), Once(network'), Precede(network', Opening, Last(Operations)),
         \A o \in Elems(network') : o \in Elems(Without(i)) \/ (o.by = -1 /\ o.op = "end" /\ disc'.pc = "ssh"),
         disc' \in Disconnects, disc'.by = disc.by, disc'.pc \in {"ssh", "settle"},
         ~disc'.failed => ~disc.failed /\ (disc.pc = "off" => ~routed'), routed' \in BOOLEAN,
         routed' => routed,
         UNCHANGED <<boot, enabled, connecting, revision, host, request, saved, writes>>,
         port' \in BOOLEAN, timer' \in BOOLEAN, port' => disc'.pc = "ssh",
         session' \in Hosts \cup {None}, session' # None => port'
  PROVE  Control'
<1>1. /\ TypedControl /\ Booting /\ Calls /\ Ports /\ Operated /\ Stored /\ Hosted /\ Closing
  BY DEF Control
<1>2. /\ boot = "ready" /\ ~enabled /\ ~connecting /\ disc.pc # "none" /\ disc.pc # "save"
      /\ \A n \in Requests : ~Open(n)
      /\ \A w \in Elems(writes) : w.by # -1
      /\ \A o \in Elems(Without(i)) : ~(o.by > 0) /\ o.by # -1 /\ o.op \notin {"connect", "on", "end"}
  BY DiscOperation
<1>3. TypedControl'
  BY <1>1 DEF TypedControl
<1>4. Booting' /\ Ports'
  BY <1>2 DEF Booting, Ports
<1>5. Calls'
  BY <1>1, <1>2 DEF Calls, Open, Current
<1>6. Operated'
  <2>1. \A o \in Elems(network') :
          /\ ~(o.by > 0) /\ o.op \notin {"connect", "on"}
          /\ o.by = -1 => o.op = "end" /\ disc'.pc = "ssh"
          /\ o.op = "end" => o.by = -1
    BY <1>2
  <2>2. \A n \in Requests : request'[n].pc # "ssh"
    BY <1>2 DEF Open
  <2> QED  BY <2>1, <2>2 DEF Operated
<1>7. Stored'
  BY <1>1, <1>2 DEF Stored
<1>8. Hosted'
  BY <1>2 DEF Hosted, Open
<1>9. Closing'
  <2>1. \A n \in Requests : request'[n].pc # "ssh" /\ request'[n].pc # "save"
    BY <1>2 DEF Open
  <2>2. ~disc.failed => saved.enabled = "no"
    BY <1>1, <1>2, Fields DEF Closing
  <2>3. ~disc.failed /\ disc.pc # "off" => ~routed
    BY <1>1, <1>2, Fields DEF Closing
  <2> QED  BY <2>1, <2>2, <2>3 DEF Closing
<1> QED  BY <1>3, <1>4, <1>5, <1>6, <1>7, <1>8, <1>9 DEF Control

LEMMA DiscOffControl ==
  ASSUME Control, NEW i \in 1 .. Len(network), DiscOff(i)
  PROVE  Control'
<1>1. /\ Done(i) /\ network[i].by = -1 /\ network[i].op = "off"
      /\ UNCHANGED <<boot, enabled, connecting, revision, host, request, port, timer, session, saved, writes>>
  BY DEF DiscOff, helper
<1>2. /\ TypedControl /\ Ports /\ Operated
  BY DEF Control
<1> DEFINE r == Without(i)
           e == [op |-> "end", by |-> -1, host |-> None]
<1>3. /\ r \in Seq(Operations) /\ Once(r) /\ Precede(r, Opening, Last(Operations))
      /\ network[i] \in Elems(network)
  BY <1>1, NetworkDone
<1>4. \A o \in Elems(r) : o.by # -1
  BY <1>1, DiscOperation
<1>5. e \in Operations /\ e.by = -1 /\ e.op = "end"
  BY DEF Operations
<1>6. network' = IF port THEN Append(r, e) ELSE r
  BY DEF DiscOff
<1>7. disc.pc = "off"
  BY <1>1, <1>2, <1>3 DEF Operated
<1> HIDE DEF r, e
<1>8. /\ network' \in Seq(Operations) /\ Once(network') /\ Precede(network', Opening, Last(Operations))
      /\ \A o \in Elems(network') : o \in Elems(r) \/ (o = e /\ port)
  <2>1. CASE port
    <3>1. /\ Append(r, e) \in Seq(Operations) /\ Elems(Append(r, e)) = Elems(r) \cup {e}
          /\ Once(Append(r, e)) /\ Precede(Append(r, e), Opening, Last(Operations))
      BY <1>3, <1>4, <1>5, NetworkAdds
    <3> QED  BY <1>6, <2>1, <3>1
  <2>2. CASE ~port
    BY <1>3, <1>6, <2>2
  <2> QED  BY <2>1, <2>2
<1>9. /\ disc' \in Disconnects /\ disc'.by = disc.by /\ disc'.pc = (IF port THEN "ssh" ELSE "settle")
      /\ ~disc'.failed => ~disc.failed /\ ~routed'
      /\ routed' \in BOOLEAN /\ (routed' => routed)
  <2>1. disc \in Disconnects /\ routed \in BOOLEAN
    BY <1>2 DEF TypedControl
  <2>2. CASE /\ routed' = FALSE
             /\ disc' = [disc EXCEPT !.pc = IF port THEN "ssh" ELSE "settle"]
    BY <2>1, <2>2 DEF Disconnects
  <2>3. CASE /\ UNCHANGED routed
             /\ disc' = [disc EXCEPT !.pc = IF port THEN "ssh" ELSE "settle", !.failed = TRUE]
    BY <2>1, <2>3 DEF Disconnects
  <2> QED  BY <2>2, <2>3 DEF DiscOff
<1>10. /\ port' \in BOOLEAN /\ timer' \in BOOLEAN /\ session' \in Hosts \cup {None}
       /\ session' # None => port'
  BY <1>1, <1>2 DEF TypedControl, Ports
<1>11. /\ \A o \in Elems(network') : o \in Elems(Without(i)) \/ (o.by = -1 /\ o.op = "end" /\ disc'.pc = "ssh")
       /\ port' => disc'.pc = "ssh"
       /\ disc'.pc \in {"ssh", "settle"}
  <2>1. r = Without(i)
    BY DEF r
  <2> QED  BY <1>1, <1>5, <1>8, <1>9, <2>1
<1> QED  BY <1>1, <1>8, <1>9, <1>10, <1>11, DiscGoesOn

LEMMA DiscSSHControl ==
  ASSUME Control, NEW i \in 1 .. Len(network), DiscSSH(i)
  PROVE  Control'
<1>1. /\ Done(i) /\ network[i].op = "end" /\ network' = Without(i) /\ port' = FALSE /\ session' = None
      /\ UNCHANGED <<boot, enabled, connecting, revision, host, request, saved, routed, writes>>
  BY DEF DiscSSH
<1>2. /\ TypedControl /\ Operated
  BY DEF Control
<1>3. /\ Without(i) \in Seq(Operations) /\ Once(Without(i)) /\ Precede(Without(i), Opening, Last(Operations))
      /\ network[i] \in Elems(network)
  BY <1>1, NetworkDone
<1>4. network[i].by = -1 /\ disc.pc = "ssh"
  BY <1>1, <1>2, <1>3 DEF Operated
<1>5. /\ disc' \in Disconnects /\ disc'.by = disc.by /\ disc'.pc = "settle" /\ (~disc'.failed => ~disc.failed)
  <2>1. disc \in Disconnects
    BY <1>2 DEF TypedControl
  <2>2. CASE disc' = [disc EXCEPT !.pc = "settle"]
    BY <2>1, <2>2 DEF Disconnects
  <2>3. CASE disc' = [disc EXCEPT !.pc = "settle", !.failed = TRUE]
    BY <2>1, <2>3 DEF Disconnects
  <2> QED  BY <2>2, <2>3 DEF DiscSSH
<1>6. /\ routed' \in BOOLEAN /\ (routed' => routed) /\ timer' \in BOOLEAN /\ port' \in BOOLEAN
      /\ session' \in Hosts \cup {None}
  <2>1. timer' = (timer \/ (port /\ (enabled \/ connecting)))
    BY DEF DiscSSH
  <2>2. timer' \in BOOLEAN
    BY <2>1
  <2> QED  BY <1>1, <1>2, <2>2 DEF TypedControl
<1>7. /\ network' \in Seq(Operations) /\ Once(network') /\ Precede(network', Opening, Last(Operations))
      /\ \A o \in Elems(network') : o \in Elems(Without(i)) \/ (o.by = -1 /\ o.op = "end" /\ disc'.pc = "ssh")
  BY <1>1, <1>3
<1>8. /\ ~disc'.failed => ~disc.failed /\ (disc.pc = "off" => ~routed')
      /\ port' => disc'.pc = "ssh"
      /\ session' # None => port'
      /\ disc'.pc \in {"ssh", "settle"}
  BY <1>1, <1>4, <1>5
<1> QED  BY <1>1, <1>4, <1>5, <1>6, <1>7, <1>8, DiscGoesOn

-----------------------------------------------------------------------------
(* Control: the chain of writes.                                           *)

\* A Connect is saved: Tether is connected.
LEMMA ConnectedControl ==
  ASSUME Control, NEW i \in 1 .. Len(writes), Written(i), NEW n \in Requests, n = writes[i].by, Current(n),
         saved' = [enabled |-> "yes", host |-> request[n].host],
         host' = request[n].host, enabled' = TRUE, connecting' = FALSE,
         request' = [request EXCEPT ![n] = Idle], writes' = Unwritten(i),
         UNCHANGED <<boot, revision, disc, port, timer, session, routed, network>>
  PROVE  Control'
<1>1. /\ TypedControl /\ Booting /\ Calls /\ Ports /\ Operated /\ Stored /\ Hosted /\ Closing
  BY DEF Control
<1>2. /\ writes' \in Seq(Saves) /\ Once(writes') /\ Precede(writes', Asked, Last(Saves))
      /\ writes[i] \in Elems(writes) /\ Elems(writes') \subseteq Elems(writes)
      /\ \A w \in Elems(writes') : w.by # n
  <2> DEFINE r == Unwritten(i)
  <2>1. /\ r \in Seq(Saves) /\ Once(r) /\ Precede(r, Asked, Last(Saves))
        /\ writes[i] \in Elems(writes) /\ Elems(r) \subseteq Elems(writes)
        /\ writes[i].by # 0 => \A x \in Elems(r) : x.by # writes[i].by
    BY WritesDone
  <2>2. writes' = r
    OBVIOUS
  <2> HIDE DEF r
  <2> QED  BY <1>1, <2>1, <2>2, Fields
<1>3. n > 0 /\ request[n].pc = "save" /\ Open(n) /\ request[n].kind = "connect"
  <2>1. n > 0
    BY <1>1, Fields
  <2> QED  BY <1>1, <1>2, <2>1 DEF Stored, Calls, Open
<1>4. connecting /\ ~enabled /\ disc.pc = "none" /\ boot = "ready"
  BY <1>1, <1>3 DEF Calls, Booting
<1>5. \A m \in Requests : m # n => request[m].pc = "idle"
  <2> SUFFICES ASSUME NEW m \in Requests, m # n PROVE request[m].pc = "idle"
    OBVIOUS
  <2>1. ~Open(m)
    BY <1>1, <1>3, <1>4 DEF Calls
  <2>2. request[m].pc # "closing"
    BY <1>1, <1>4 DEF Calls
  <2> QED  BY <1>1, <2>1, <2>2, Fields DEF Open
<1>6. /\ request' \in [Requests -> Requested] /\ \A m \in Requests : request'[m].pc = "idle"
      /\ \A m \in Requests : request'[m].rev <= revision
  <2>1. request \in [Requests -> Requested] /\ request'[n] = Idle /\ request' \in [Requests -> Requested]
        /\ \A m \in Requests : m # n => request'[m] = request[m]
    BY <1>1, IdleTyped DEF TypedControl
  <2>2. revision \in Nat /\ \A m \in Requests : request[m].rev <= revision
    BY <1>1, Fields DEF Calls
  <2> QED  BY <1>5, <2>1, <2>2, IdleTyped
<1>7. request[n].host \in Hosts \cup {None}
  BY <1>1, Fields
<1>8. TypedControl'
  <2>1. saved' \in Stores
    BY <1>7 DEF Stores
  <2> QED  BY <1>1, <1>2, <1>6, <1>7, <2>1 DEF TypedControl
<1>9. Booting' /\ Ports' /\ Closing'
  BY <1>1, <1>4 DEF Booting, Ports, Closing
<1>10. Calls'
  BY <1>4, <1>6 DEF Calls, Open
<1>11. \A o \in Elems(network) : /\ ~(o.by > 0) /\ o.by # -1 /\ o.op # "connect" /\ o.op # "end"
  <2> SUFFICES ASSUME NEW o \in Elems(network)
               PROVE  ~(o.by > 0) /\ o.by # -1 /\ o.op # "connect" /\ o.op # "end"
    OBVIOUS
  <2>1. o.by > 0 => o.by \in Requests /\ request[o.by].pc = "ssh"
    BY <1>1, ElemsTyped DEF Operated
  <2>2. ~(o.by > 0)
    BY <1>3, <1>5, <2>1
  <2>3. o.op # "connect"
    BY <1>1, <1>3, <1>4, <2>2 DEF Hosted
  <2> QED  BY <1>1, <1>4, <2>2, <2>3 DEF Operated
<1>12. Operated'
  <2>1. Elems(network') = Elems(network) /\ Once(network') /\ Precede(network', Opening, Last(Operations))
    BY <1>1 DEF Operated
  <2> QED  BY <1>6, <1>11, <2>1 DEF Operated
<1>13. Stored'
  <2>1. ASSUME NEW w \in Elems(writes') PROVE ~(w.by > 0) /\ w.by # -1 /\ w.by # 0
    <3>1. w \in Elems(writes) /\ w.by # n
      BY <1>2
    <3>2. w.by > 0 => w.by \in Requests /\ request[w.by].pc = "save"
      BY <1>1, <3>1, ElemsTyped DEF Stored
    <3> QED  BY <1>1, <1>4, <1>5, <3>1, <3>2 DEF Stored
  <2> QED  BY <1>2, <1>6, <2>1 DEF Stored
<1>14. Hosted'
  BY <1>1, <1>3, <1>4, <1>11 DEF Hosted
<1> QED  BY <1>8, <1>9, <1>10, <1>12, <1>13, <1>14 DEF Control

LEMMA ConnectSavedControl ==
  ASSUME Control, NEW i \in 1 .. Len(writes), NEW ok \in BOOLEAN, ConnectSaved(i, ok)
  PROVE  Control'
<1> DEFINE n == writes[i].by
<1>1. /\ Written(i) /\ n > 0
      /\ saved' = (IF ok THEN [enabled |-> "yes", host |-> request[n].host] ELSE saved)
      /\ UNCHANGED <<boot, port, routed, network, session>>
  BY DEF ConnectSaved
<1>2. /\ TypedControl /\ Calls /\ Ports /\ Operated /\ Stored /\ Hosted
  BY DEF Control
<1>3. /\ Unwritten(i) \in Seq(Saves) /\ Once(Unwritten(i)) /\ Precede(Unwritten(i), Asked, Last(Saves))
      /\ writes[i] \in Elems(writes) /\ Less(writes, Unwritten(i), n)
  <2> DEFINE r == Unwritten(i)
  <2>1. /\ r \in Seq(Saves) /\ Once(r) /\ Precede(r, Asked, Last(Saves))
        /\ writes[i] \in Elems(writes) /\ Elems(r) \subseteq Elems(writes)
        /\ \A x \in Elems(writes) : x # writes[i] => x \in Elems(r)
        /\ n # 0 => \A x \in Elems(r) : x.by # n
    BY <1>1, WritesDone
  <2> HIDE DEF r
  <2>2. Less(writes, r, n)
    BY <2>1 DEF Less
  <2> QED  BY <2>1, <2>2 DEF r
<1>4. n \in Requests /\ request[n].pc = "save" /\ Open(n) /\ n # 0
  <2>1. n \in Requests
    BY <1>1, <1>2, <1>3, ElemsTyped
  <2> QED  BY <1>1, <1>2, <1>3, <2>1 DEF Stored, Open
<1>5. CASE ok /\ Current(n)
  <2>1. /\ host' = request[n].host /\ enabled' = TRUE /\ connecting' = FALSE
        /\ request' = [request EXCEPT ![n] = Idle] /\ writes' = Unwritten(i)
        /\ UNCHANGED <<revision, disc, timer>>
    BY <1>5 DEF ConnectSaved
  <2>2. saved' = [enabled |-> "yes", host |-> request[n].host]
    BY <1>1, <1>5
  <2> QED  BY <1>1, <1>4, <1>5, <2>1, <2>2, ConnectedControl
<1>6. CASE ~(ok /\ Current(n))
  <2>1. failed(n, Unwritten(i)) /\ UNCHANGED host
    BY <1>6 DEF ConnectSaved
  <2>2. /\ network' \in Seq(Operations) /\ Once(network') /\ Precede(network', Opening, Last(Operations))
        /\ Less(network, network', n)
    <3>1. network' = network
      BY <1>1
    <3>2. \A o \in Elems(network) : o.by # n
      BY <1>1, <1>2, <1>4 DEF Operated
    <3> QED  BY <1>2, <3>1, <3>2 DEF TypedControl, Operated, Less
  <2>3. /\ saved' \in Stores /\ (saved' = saved \/ (~Current(n) /\ request[n].pc = "save"))
    <3>1. request[n].host \in Hosts \cup {None} /\ saved \in Stores
      BY <1>2, <1>4, Fields DEF TypedControl
    <3>2. [enabled |-> "yes", host |-> request[n].host] \in Stores
      BY <3>1 DEF Stores
    <3> QED  BY <1>1, <1>4, <1>6, <3>1, <3>2
  <2>4. session' \in Hosts \cup {None} /\ (session' # None => port) /\ (enabled => session' \in {host, None})
    BY <1>1, <1>2 DEF TypedControl, Ports, Hosted
  <2> HIDE DEF n
  <2> QED  BY <1>1, <1>3, <1>4, <2>1, <2>2, <2>3, <2>4, FailedControl
<1> QED  BY <1>5, <1>6

LEMMA DiscSavedControl ==
  ASSUME Control, NEW i \in 1 .. Len(writes), NEW ok \in BOOLEAN, DiscSaved(i, ok)
  PROVE  Control'
<1> DEFINE e == [op |-> "off", by |-> -1, host |-> None]
<1>1. /\ Written(i) /\ writes[i].by = -1 /\ writes' = Unwritten(i) /\ network' = Append(network, e)
      /\ saved' = (IF ok THEN [saved EXCEPT !.enabled = "no"] ELSE saved)
      /\ disc' = [disc EXCEPT !.pc = "off", !.failed = ~ok]
      /\ UNCHANGED <<boot, enabled, connecting, revision, host, request, port, timer, session, routed>>
  BY DEF DiscSaved, helper
<1>2. /\ TypedControl /\ Booting /\ Calls /\ Ports /\ Operated /\ Stored /\ Hosted /\ Closing
  BY DEF Control
<1>3. /\ writes' \in Seq(Saves) /\ Once(writes') /\ Precede(writes', Asked, Last(Saves))
      /\ writes[i] \in Elems(writes) /\ Elems(writes') \subseteq Elems(writes)
      /\ \A w \in Elems(writes) : ~(w.by > 0)
      /\ \A w \in Elems(writes') : w.by # -1
  <2> DEFINE r == Unwritten(i)
  <2>1. /\ r \in Seq(Saves) /\ Once(r) /\ Precede(r, Asked, Last(Saves))
        /\ writes[i] \in Elems(writes) /\ Elems(r) \subseteq Elems(writes)
        /\ writes[i].by # 0 => \A x \in Elems(r) : x.by # writes[i].by
        /\ writes[i].by = -1 => \A x \in Elems(writes) : ~(x.by > 0)
    BY <1>1, WritesDone
  <2>2. writes' = r
    BY <1>1
  <2> HIDE DEF r
  <2> QED  BY <1>1, <2>1, <2>2
<1>4. disc.pc = "save" /\ boot = "ready" /\ ~enabled /\ ~connecting
  BY <1>1, <1>2, <1>3 DEF Stored, Booting, Calls
<1>5. \A m \in Requests : request[m].pc # "save"
  BY <1>2, <1>3, Fields DEF Stored
<1>6. e \in Operations /\ e.by = -1 /\ e.op = "off"
  BY DEF Operations
<1> HIDE DEF e
<1>7. \A o \in Elems(network) : o.by # -1 /\ o.op # "end"
  BY <1>2, <1>4 DEF Operated
<1>8. /\ network' \in Seq(Operations) /\ Elems(network') = Elems(network) \cup {e}
      /\ Once(network') /\ Precede(network', Opening, Last(Operations))
  <2>1. network \in Seq(Operations) /\ Once(network) /\ Precede(network, Opening, Last(Operations))
    BY <1>2 DEF TypedControl, Operated
  <2> QED  BY <1>1, <1>6, <1>7, <2>1, NetworkAdds
<1>9. disc' \in Disconnects /\ disc'.pc = "off" /\ disc'.by = disc.by /\ disc'.failed = ~ok
  <2>1. disc \in Disconnects
    BY <1>2 DEF TypedControl
  <2> QED  BY <1>1, <2>1 DEF Disconnects
<1>10. saved' \in Stores /\ (ok => saved'.enabled = "no")
  <2>1. saved \in Stores
    BY <1>2 DEF TypedControl
  <2> QED  BY <1>1, <2>1 DEF Stores
<1>11. TypedControl'
  BY <1>1, <1>2, <1>3, <1>8, <1>9, <1>10 DEF TypedControl
<1>12. Booting' /\ Ports'
  BY <1>1, <1>2, <1>4, <1>9 DEF Booting, Ports
<1>13. Calls'
  BY <1>1, <1>2, <1>4, <1>9 DEF Calls, Open, Current
<1>14. Operated'
  <2>1. ASSUME NEW o \in Elems(network')
        PROVE  /\ o.by > 0 => o.op = "connect" /\ request'[o.by].pc = "ssh" /\ o.host = request'[o.by].host
               /\ o.by = -1 => o.op = "off" /\ disc'.pc = "off"
               /\ o.op # "end"
    BY <1>1, <1>2, <1>6, <1>7, <1>8, <1>9 DEF Operated
  <2>2. ASSUME NEW m \in Requests, request'[m].pc = "ssh" PROVE \E o \in Elems(network') : o.by = m
    BY <1>1, <1>2, <1>8, <2>2 DEF Operated
  <2> QED  BY <1>8, <1>9, <2>1, <2>2 DEF Operated
<1>15. Stored'
  <2>1. \A w \in Elems(writes') : ~(w.by > 0) /\ w.by # -1 /\ w.by # 0
    BY <1>2, <1>3, <1>4 DEF Stored
  <2> QED  BY <1>1, <1>3, <1>5, <2>1 DEF Stored
<1>16. Hosted'
  BY <1>1, <1>2, <1>4 DEF Hosted, Calls, Open, Current
<1>17. Closing'
  BY <1>1, <1>5, <1>9, <1>10 DEF Closing
<1> QED  BY <1>11, <1>12, <1>13, <1>14, <1>15, <1>16, <1>17 DEF Control

LEMMA BootSavedControl ==
  ASSUME Control, NEW i \in 1 .. Len(writes), NEW ok \in BOOLEAN, BootSaved(i, ok)
  PROVE  Control'
<1>1. /\ Written(i) /\ writes[i].by = 0 /\ boot' = "ready" /\ writes' = Unwritten(i)
      /\ UNCHANGED <<connecting, revision, host, request, disc, routed>>
  BY DEF BootSaved
<1>2. /\ TypedControl /\ Booting /\ Calls /\ Ports /\ Operated /\ Stored /\ Hosted /\ Closing
  BY DEF Control
<1>3. /\ writes' \in Seq(Saves) /\ Once(writes') /\ Precede(writes', Asked, Last(Saves))
      /\ writes[i] \in Elems(writes) /\ Len(writes') = Len(writes) - 1
  <2> DEFINE r == Unwritten(i)
  <2>1. /\ r \in Seq(Saves) /\ Once(r) /\ Precede(r, Asked, Last(Saves))
        /\ writes[i] \in Elems(writes) /\ Len(r) = Len(writes) - 1
    BY <1>1, WritesDone
  <2>2. writes' = r
    BY <1>1
  <2> HIDE DEF r
  <2> QED  BY <2>1, <2>2
<1>4. boot = "save" /\ Len(writes) = 1
  BY <1>1, <1>2, <1>3 DEF Stored, Booting
<1>5. Elems(writes') = {}
  BY <1>3, <1>4 DEF Elems
<1>6. /\ ~enabled /\ ~connecting /\ disc.pc = "none" /\ ~port /\ session = None /\ Elems(network) = {}
      /\ \A n \in Requests : request[n].pc = "idle"
  BY <1>2, <1>4 DEF Booting, Ports
<1>7. CASE ok
  <2>1. /\ saved' = [enabled |-> "yes", host |-> host] /\ enabled' = TRUE
        /\ connectNativeHost(TRUE, host, timer, <<>>)
    BY <1>7 DEF BootSaved
  <2>2. host \in Hosts \cup {None} /\ host' = host
    BY <1>1, <1>2 DEF TypedControl
  <2> QED  BY <1>1, <1>3, <1>4, <1>5, <2>1, <2>2, StartControl
<1>8. CASE ~ok
  <2>1. UNCHANGED <<saved, enabled, port, timer, session, network>>
    BY <1>8 DEF BootSaved, helper
  <2>2. TypedControl' /\ Booting' /\ Ports' /\ Stored'
    BY <1>1, <1>2, <1>3, <1>5, <1>6, <2>1 DEF TypedControl, Booting, Ports, Stored
  <2>3. Calls' /\ Closing'
    BY <1>1, <1>2, <2>1 DEF Calls, Closing, Open, Current
  <2>4. Operated'
    BY <1>1, <1>2, <2>1, Zenon DEF Operated
  <2>5. Hosted'
    BY <1>1, <1>6, <2>1 DEF Hosted, Open
  <2> QED  BY <2>2, <2>3, <2>4, <2>5 DEF Control
<1> QED  BY <1>7, <1>8

\* A worker that starts has begun nothing.
LEMMA ForgetControl ==
  ASSUME Control, Restart
  PROVE  Control'
<1>1. /\ boot' = "read" /\ enabled' = FALSE /\ connecting' = FALSE /\ revision' = 0 /\ host' = None
      /\ request' = [n \in Requests |-> Idle] /\ disc' = NotDisconnecting
      /\ port' = FALSE /\ timer' = FALSE /\ session' = None
      /\ writes' = <<>> /\ network' = <<>> /\ UNCHANGED <<saved, routed>>
  BY DEF Restart, Forget
<1>2. NotDisconnecting \in Disconnects /\ NotDisconnecting.pc = "none" /\ NotDisconnecting.by = 0
  BY DEF NotDisconnecting, Disconnects
<1>3. /\ request' \in [Requests -> Requested] /\ \A n \in Requests : request'[n].pc = "idle" /\ request'[n].rev = 0
  BY <1>1, IdleTyped
<1>4. /\ Elems(writes') = {} /\ Elems(network') = {} /\ Once(writes') /\ Once(network')
      /\ Precede(writes', Asked, Last(Saves)) /\ Precede(network', Opening, Last(Operations))
  BY <1>1, NoElems
<1>5. writes' \in Seq(Saves) /\ network' \in Seq(Operations) /\ Len(writes') = 0
  BY <1>1
<1>6. TypedControl'
  <2>1. saved \in Stores /\ routed \in BOOLEAN /\ 0 \in 0 .. MaxRevision + 1
    BY RevisionAssumption DEF Control, TypedControl
  <2> QED  BY <1>1, <1>2, <1>3, <1>5, <2>1 DEF TypedControl
<1>7. Booting' /\ Ports' /\ Closing'
  BY <1>1, <1>2, <1>3, <1>4, <1>5 DEF Booting, Ports, Closing
<1>8. Calls' /\ Hosted'
  BY <1>1, <1>2, <1>3 DEF Calls, Hosted, Open
<1>9. Operated' /\ Stored'
  BY <1>3, <1>4 DEF Operated, Stored
<1> QED  BY <1>6, <1>7, <1>8, <1>9 DEF Control

\* Every step keeps Control.
LEMMA ControlKept ==
  ASSUME Control, [Next]_vars
  PROVE  Control'
<1>1. ASSUME UNCHANGED <<boot, connection, helper, chains>> PROVE Control'
  BY <1>1, SameControl
<1>2. CASE User
  <2>1. ASSUME NEW n \in Requests, Reconnect(n) \/ \E h \in Hosts : Connect(h, n) PROVE Control'
    BY <2>1, ConnectControl
  <2>2. CASE Disconnect
    BY <2>2, DisconnectControl
  <2>3. CASE NetworkSet
    BY <2>3, NetworkSetControl
  <2>4. ASSUME NEW c \in Commands, NEW t \in Tabs, Start(c, t) PROVE Control'
    BY <1>1, <2>4 DEF Start
  <2> QED  BY <1>2, <2>1, <2>2, <2>3, <2>4 DEF User
<1>3. CASE Restore
  BY <1>3, RestoreControl
<1>4. CASE TimerFires \/ Alarm
  BY <1>4, TimerControl
<1>5. CASE PortLost
  BY <1>5, PortLostControl
<1>6. CASE Restart
  BY <1>6, ForgetControl
<1>7. CASE NetworkStep
  <2>1. PICK i \in 1 .. Len(network) :
          SSHConnected(i) \/ SSHFails(i) \/ On(i) \/ Off(i) \/ DiscOff(i) \/ DiscSSH(i)
    BY <1>7 DEF NetworkStep
  <2>2. CASE SSHConnected(i) \/ SSHFails(i)
    BY <2>2, SSHControl
  <2>3. CASE On(i) \/ Off(i)
    BY <2>3, OnOffControl
  <2>4. CASE DiscOff(i)
    BY <2>4, DiscOffControl
  <2>5. CASE DiscSSH(i)
    BY <2>5, DiscSSHControl
  <2> QED  BY <2>1, <2>2, <2>3, <2>4, <2>5
<1>8. CASE WriteStep
  <2>1. PICK i \in 1 .. Len(writes), ok \in BOOLEAN :
          ConnectSaved(i, ok) \/ DiscSaved(i, ok) \/ BootSaved(i, ok)
    BY <1>8 DEF WriteStep
  <2> QED  BY <2>1, ConnectSavedControl, DiscSavedControl, BootSavedControl
<1>9. CASE DiscStep
  BY <1>9, DiscControl
<1>10. ASSUME NEW c \in Commands, End(c) \/ ensureAttached(c) \/ Send(c) \/ Answered(c) PROVE Control'
  <2>1. UNCHANGED <<boot, connection, helper, chains>>
    BY <1>10 DEF End, ensureAttached, Send, Answered
  <2> QED  BY <1>1, <2>1
<1>11. ASSUME NEW t \in Tabs, AttachStep(t) \/ Detached(t) PROVE Control'
  <2>1. UNCHANGED <<boot, connection, helper, chains>>
    BY <1>11 DEF AttachStep, TabChecked, DebuggerAttached, DebuggerDetached, FocusEmulated, Detached
  <2> QED  BY <1>1, <2>1
<1>12. CASE UNCHANGED vars
  <2>1. UNCHANGED <<boot, connection, helper, chains>>
    BY <1>12 DEF vars
  <2> QED  BY <1>1, <2>1
<1> QED  BY <1>2, <1>3, <1>4, <1>5, <1>6, <1>7, <1>8, <1>9, <1>10, <1>11, <1>12 DEF Next

-----------------------------------------------------------------------------
(* Automation: what a Disconnect finds, and what it leaves.                *)

\* A Disconnect begins, or the worker leaves the debugger and its commands alone
\* and does not yet reach the steps of a Disconnect that close them.
Turned ==
  \/ /\ UNCHANGED automation
     /\ \/ UNCHANGED disc /\ (enabled => enabled')
        \/ disc'.pc \in {"off", "ssh", "settle"}
  \/ /\ UNCHANGED <<command, attaching, attached, debugging>> /\ stale' = Active
     /\ disc'.pc = "save"

LEMMA FailedTurns ==
  ASSUME NEW n, NEW rest, failed(n, rest), UNCHANGED <<command, attaching, attached, debugging>>
  PROVE  Turned
<1>1. CASE beginDisconnect(n, rest)
  BY <1>1 DEF beginDisconnect, Turned
<1>2. CASE UNCHANGED <<enabled, disc, stale>>
  BY <1>2 DEF Turned, automation
<1> QED  BY <1>1, <1>2 DEF failed

LEMMA Turns ==
  ASSUME Control,
         \/ \E n \in Requests : Reconnect(n) \/ \E h \in Hosts : Connect(h, n)
         \/ Disconnect \/ NetworkSet \/ Restore \/ TimerFires \/ Alarm \/ PortLost
         \/ NetworkStep \/ WriteStep
  PROVE  Turned
<1>1. ASSUME UNCHANGED automation, UNCHANGED disc, enabled => enabled' PROVE Turned
  BY <1>1 DEF Turned
<1>2. ASSUME NEW n \in Requests, Reconnect(n) \/ \E h \in Hosts : Connect(h, n) PROVE Turned
  BY <1>1, <1>2 DEF Reconnect, Connect
<1>3. CASE Disconnect
  BY <1>3 DEF Disconnect, beginDisconnect, Turned
<1>4. CASE NetworkSet \/ TimerFires \/ Alarm \/ PortLost
  BY <1>1, <1>4 DEF NetworkSet, TimerFires, Alarm, PortLost, connection
<1>5. CASE Restore
  BY <1>1, <1>5 DEF Restore
<1>6. ASSUME NEW i \in 1 .. Len(network), SSHConnected(i) PROVE Turned
  <2>1. UNCHANGED <<command, attaching, attached, debugging>>
    BY <1>6 DEF SSHConnected
  <2>2. CASE failed(network[i].by, writes)
    BY <2>1, <2>2, FailedTurns
  <2>3. CASE ~failed(network[i].by, writes)
    <3>1. UNCHANGED <<disc, stale, enabled>>
      BY <1>6, <2>3 DEF SSHConnected
    <3> QED  BY <1>1, <2>1, <3>1 DEF automation
  <2> QED  BY <2>2, <2>3
<1>7. ASSUME NEW i \in 1 .. Len(network), SSHFails(i) PROVE Turned
  <2>1. UNCHANGED <<command, attaching, attached, debugging>>
    BY <1>7 DEF SSHFails
  <2>2. CASE failed(network[i].by, writes)
    BY <2>1, <2>2, FailedTurns
  <2>3. CASE ~failed(network[i].by, writes)
    <3>1. UNCHANGED <<disc, stale, enabled>>
      BY <1>7, <2>3 DEF SSHFails
    <3> QED  BY <1>1, <2>1, <3>1 DEF automation
  <2> QED  BY <2>2, <2>3
<1>8. ASSUME NEW i \in 1 .. Len(network), On(i) \/ Off(i) PROVE Turned
  BY <1>1, <1>8 DEF On, Off, connection
<1>9. disc \in Disconnects
  BY DEF Control, TypedControl
<1>10. ASSUME NEW i \in 1 .. Len(network), DiscOff(i) PROVE Turned
  <2>1. disc'.pc \in {"ssh", "settle"} /\ UNCHANGED automation
    BY <1>9, <1>10 DEF DiscOff, Disconnects
  <2> QED  BY <2>1 DEF Turned
<1>11. ASSUME NEW i \in 1 .. Len(network), DiscSSH(i) PROVE Turned
  <2>1. disc'.pc \in {"ssh", "settle"} /\ UNCHANGED automation
    BY <1>9, <1>11 DEF DiscSSH, Disconnects
  <2> QED  BY <2>1 DEF Turned
<1>12. ASSUME NEW i \in 1 .. Len(writes), NEW ok \in BOOLEAN, ConnectSaved(i, ok) PROVE Turned
  <2>1. UNCHANGED <<command, attaching, attached, debugging>>
    BY <1>12 DEF ConnectSaved
  <2>2. CASE failed(writes[i].by, Unwritten(i))
    BY <2>1, <2>2, FailedTurns
  <2>3. CASE ~failed(writes[i].by, Unwritten(i))
    <3>1. UNCHANGED <<disc, stale>> /\ enabled' = TRUE
      BY <1>12, <2>3 DEF ConnectSaved
    <3> QED  BY <1>1, <2>1, <3>1 DEF automation
  <2> QED  BY <2>2, <2>3
<1>13. ASSUME NEW i \in 1 .. Len(writes), NEW ok \in BOOLEAN, DiscSaved(i, ok) PROVE Turned
  <2>1. disc'.pc = "off" /\ UNCHANGED automation
    BY <1>9, <1>13 DEF DiscSaved, Disconnects
  <2> QED  BY <2>1 DEF Turned
<1>14. ASSUME NEW i \in 1 .. Len(writes), NEW ok \in BOOLEAN, BootSaved(i, ok) PROVE Turned
  BY <1>1, <1>14 DEF BootSaved
<1>15. CASE NetworkStep
  BY <1>6, <1>7, <1>8, <1>10, <1>11, <1>15 DEF NetworkStep
<1>16. CASE WriteStep
  BY <1>12, <1>13, <1>14, <1>16 DEF WriteStep
<1> QED  BY <1>2, <1>3, <1>4, <1>5, <1>15, <1>16

\* What holds of the debugger when every tab and Tether itself stay as they are.
LEMMA TurnedKept ==
  ASSUME Control, Automation, Turned
  PROVE  Automation'
<1>1. TypedAutomation /\ Debugged /\ Awaited
  BY DEF Automation
<1>2. CASE UNCHANGED automation /\ UNCHANGED disc /\ (enabled => enabled')
  <2>1. UNCHANGED <<command, stale, attaching, attached, debugging, disc>>
    BY <1>2 DEF automation
  <2>2. Active' = Active
    BY <2>1 DEF Active
  <2> QED  BY <1>1, <1>2, <2>1, <2>2 DEF Automation, TypedAutomation, Debugged, Awaited
<1>3. CASE UNCHANGED automation /\ disc'.pc \in {"off", "ssh", "settle"}
  <2>1. UNCHANGED <<command, stale, attaching, attached, debugging>>
    BY <1>3 DEF automation
  <2>2. Active' = Active
    BY <2>1 DEF Active
  <2> QED  BY <1>1, <1>3, <2>1, <2>2 DEF Automation, TypedAutomation, Debugged, Awaited
<1>4. CASE UNCHANGED <<command, attaching, attached, debugging>> /\ stale' = Active /\ disc'.pc = "save"
  <2>1. Active' = Active /\ Active \subseteq Commands
    BY <1>4 DEF Active
  <2> QED  BY <1>1, <1>4, <2>1 DEF Automation, TypedAutomation, Debugged, Awaited
<1> QED  BY <1>2, <1>3, <1>4 DEF Turned

\* A Disconnect detaches every tab, waits for the commands it found, and is over.
LEMMA DiscStepAutomation ==
  ASSUME Control, Automation, DiscStep
  PROVE  Automation'
<1>1. TypedAutomation /\ Debugged /\ Awaited
  BY DEF Automation
<1>2. disc \in Disconnects /\ (disc.pc # "none" => ~enabled)
  BY DEF Control, TypedControl, Calls
<1>3. CASE DiscSettle
  <2>1. /\ UNCHANGED <<command, stale, attaching, attached, debugging, enabled>> /\ disc'.pc = "detach"
        /\ \A t \in Tabs : attaching[t] = "none"
    BY <1>2, <1>3 DEF DiscSettle, automation, Disconnects
  <2>2. Active' = Active
    BY <2>1 DEF Active
  <2> QED  BY <1>1, <2>1, <2>2 DEF Automation, TypedAutomation, Debugged, Awaited
<1>4. CASE DiscDetach
  <2>1. /\ UNCHANGED <<command, stale>> /\ debugging' = debugging \ attached /\ attached' = {}
        /\ attaching' = [t \in Tabs |-> "none"] /\ disc.pc = "detach"
    BY <1>4 DEF DiscDetach
  <2>2. disc'.pc = "commands" /\ disc'.waits = Active
    BY <1>2, <1>4 DEF DiscDetach, Disconnects
  <2>3. debugging' = {}
    BY <1>1, <2>1 DEF Debugged, TypedAutomation
  <2>4. Active' = Active
    BY <2>1 DEF Active
  <2> QED  BY <1>1, <2>1, <2>2, <2>3, <2>4 DEF Automation, TypedAutomation, Debugged, Awaited
<1>5. CASE DiscEnd
  <2>1. /\ UNCHANGED <<command, stale, attaching, attached, debugging, enabled>> /\ disc'.pc = "none"
        /\ disc.pc = "commands" /\ disc.waits \cap Active = {}
    BY <1>5 DEF DiscEnd, automation, NotDisconnecting
  <2>2. stale = {}
    BY <1>1, <2>1 DEF Awaited
  <2>3. Active' = Active
    BY <2>1 DEF Active
  <2> QED  BY <1>1, <1>2, <2>1, <2>2, <2>3 DEF Automation, TypedAutomation, Debugged, Awaited
<1> QED  BY <1>3, <1>4, <1>5 DEF DiscStep

LEMMA Commanded ==
  NoCommand \in Stages /\ NoCommand.pc = "idle"
<1>1. (CHOOSE t \in Tabs : TRUE) \in Tabs
  BY TabsAssumption
<1> QED  BY <1>1 DEF NoCommand, Stages

\* A command starts, goes on or ends.
LEMMA CommandAutomation ==
  ASSUME Control, Automation, NEW c \in Commands, NEW k \in Stages, command' = [command EXCEPT ![c] = k],
         stale' \subseteq stale, k.pc = "idle" => c \notin stale', c \in stale => c \in stale' \/ k.pc = "idle",
         UNCHANGED <<attached, debugging, disc, enabled>>,
         attaching' \in [Tabs -> {"none", "tab", "debugger", "detach", "focus"}],
         attaching' = attaching \/ enabled,
         \A t \in Tabs : attaching[t] = "detach" => attaching'[t] = "detach"
  PROVE  Automation'
<1>1. TypedAutomation /\ Debugged /\ Awaited
  BY DEF Automation
<1>2. /\ command' \in [Commands -> Stages] /\ command'[c] = k
      /\ \A d \in Commands : d # c => command'[d] = command[d]
  BY <1>1 DEF TypedAutomation
<1>3. stale' \subseteq Active'
  BY <1>1, <1>2 DEF Awaited, Active
<1>4. enabled => disc.pc = "none"
  BY Fields DEF Control, Calls
<1>5. TypedAutomation' /\ Awaited'
  BY <1>1, <1>2, <1>3 DEF TypedAutomation, Awaited
<1>6. Debugged'
  BY <1>1, <1>4 DEF Debugged, TypedAutomation
<1> QED  BY <1>5, <1>6 DEF Automation

\* The attachment of a tab ends, and those who waited for it go on or fail.
LEMMA AttachmentAutomation ==
  ASSUME Control, Automation, NEW t \in Tabs, NEW ok \in BOOLEAN, Attachment(t, ok),
         UNCHANGED <<attached, disc, enabled>>, attaching[t] # "none",
         debugging' = debugging \/ debugging' = debugging \ {t},
         attaching[t] = "detach" => debugging' = debugging \ {t}
  PROVE  Automation'
<1>1. TypedAutomation /\ Debugged /\ Awaited
  BY DEF Automation
<1> DEFINE waiting == {c \in Commands : command[c].pc = "attach" /\ command[c].tab = t}
<1>2. /\ attaching' = [attaching EXCEPT ![t] = "none"]
      /\ command' = [c \in Commands |-> IF c \notin waiting THEN command[c]
                                        ELSE IF ok THEN [command[c] EXCEPT !.pc = "check"]
                                        ELSE NoCommand]
      /\ stale' = IF ok THEN stale ELSE stale \ waiting
  BY DEF Attachment
<1>3. ASSUME NEW c \in Commands
      PROVE  /\ command'[c] \in Stages
             /\ c \notin waiting => command'[c] = command[c]
             /\ ok /\ c \in waiting => command'[c].pc = "check"
  <2>1. command[c] \in Stages
    BY <1>1 DEF TypedAutomation
  <2>2. [command[c] EXCEPT !.pc = "check"] \in Stages /\ [command[c] EXCEPT !.pc = "check"].pc = "check"
    BY <2>1 DEF Stages
  <2> QED  BY <1>2, <2>1, <2>2, Commanded
<1> HIDE DEF waiting
<1>4. command' \in [Commands -> Stages]
  BY <1>2, <1>3
<1>5. stale' \subseteq Active' /\ stale' \subseteq stale
  BY <1>1, <1>2, <1>3 DEF Awaited, Active
<1>6. /\ attaching' \in [Tabs -> {"none", "tab", "debugger", "detach", "focus"}]
      /\ attaching'[t] = "none" /\ \A u \in Tabs : u # t => attaching'[u] = attaching[u]
  BY <1>1, <1>2 DEF TypedAutomation
<1>7. TypedAutomation' /\ Awaited'
  BY <1>1, <1>4, <1>5, <1>6 DEF TypedAutomation, Awaited
<1>8. Debugged'
  <2>1. \A u \in debugging' : u \in attached' \/ attaching'[u] = "detach"
    BY <1>1, <1>6 DEF Debugged, TypedAutomation
  <2> QED  BY <1>1, <1>6, <2>1 DEF Debugged
<1> QED  BY <1>7, <1>8 DEF Automation

LEMMA CommandsKept ==
  ASSUME Control, Automation, NEW c \in Commands,
         End(c) \/ ensureAttached(c) \/ Send(c) \/ Answered(c) \/ \E t \in Tabs : Start(c, t)
  PROVE  Automation'
<1>1. /\ command[c] \in Stages /\ stale \subseteq Commands
      /\ attaching \in [Tabs -> {"none", "tab", "debugger", "detach", "focus"}]
  BY DEF Automation, TypedAutomation
<1>2. UNCHANGED <<attached, debugging, disc, enabled>>
  BY DEF End, ensureAttached, Send, Answered, Start, connection
<1>3. CASE End(c)
  <2>1. command' = [command EXCEPT ![c] = NoCommand] /\ stale' = stale \ {c} /\ UNCHANGED attaching
    BY <1>3 DEF End, Ends
  <2> QED  BY <1>1, <1>2, <2>1, Commanded, CommandAutomation
<1>4. ASSUME NEW p \in {"handler", "attach", "check", "sent"}, command' = [command EXCEPT ![c].pc = p],
             UNCHANGED stale,
             \/ UNCHANGED attaching
             \/ /\ enabled /\ attaching[command[c].tab] = "none"
                /\ attaching' = [attaching EXCEPT ![command[c].tab] = "tab"]
      PROVE  Automation'
  <2> DEFINE k == [command[c] EXCEPT !.pc = p]
  <2>1. k \in Stages /\ k.pc # "idle" /\ command' = [command EXCEPT ![c] = k] /\ command[c].tab \in Tabs
    BY <1>1, <1>4 DEF Stages
  <2> HIDE DEF k
  <2>2. /\ attaching' \in [Tabs -> {"none", "tab", "debugger", "detach", "focus"}]
        /\ attaching' = attaching \/ enabled
        /\ \A t \in Tabs : attaching[t] = "detach" => attaching'[t] = "detach"
    BY <1>1, <1>4, <2>1
  <2> QED  BY <1>2, <1>4, <2>1, <2>2, CommandAutomation
<1>5. CASE ensureAttached(c)
  <2>1. enabled /\ UNCHANGED stale
    BY <1>5 DEF ensureAttached
  <2>2. CASE command[c].tab \in attached
    <3>1. command' = [command EXCEPT ![c].pc = "check"] /\ UNCHANGED attaching
      BY <1>5, <2>2 DEF ensureAttached
    <3> QED  BY <1>4, <2>1, <3>1
  <2>3. CASE command[c].tab \notin attached
    <3>1. /\ command' = [command EXCEPT ![c].pc = "attach"]
          /\ attaching' = IF attaching[command[c].tab] = "none"
                            THEN [attaching EXCEPT ![command[c].tab] = "tab"] ELSE attaching
      BY <1>5, <2>3 DEF ensureAttached
    <3> QED  BY <1>4, <2>1, <3>1
  <2> QED  BY <2>2, <2>3
<1>6. CASE Send(c)
  <2>1. command' = [command EXCEPT ![c].pc = "sent"] /\ UNCHANGED <<stale, attaching>>
    BY <1>6 DEF Send
  <2> QED  BY <1>4, <2>1
<1>7. CASE Answered(c)
  <2>1. command' = [command EXCEPT ![c].pc = "handler"] /\ UNCHANGED <<stale, attaching>>
    BY <1>7 DEF Answered
  <2> QED  BY <1>4, <2>1
<1>8. ASSUME NEW t \in Tabs, Start(c, t) PROVE Automation'
  <2> DEFINE k == [pc |-> "handler", tab |-> t]
  <2>1. k \in Stages /\ k.pc # "idle"
    BY DEF Stages
  <2>2. command' = [command EXCEPT ![c] = k] /\ UNCHANGED <<stale, attaching>>
    BY <1>8 DEF Start
  <2> HIDE DEF k
  <2> QED  BY <1>1, <1>2, <2>1, <2>2, CommandAutomation
<1> QED  BY <1>3, <1>5, <1>6, <1>7, <1>8

LEMMA TabsKept ==
  ASSUME Control, Automation, NEW t \in Tabs, AttachStep(t) \/ Detached(t)
  PROVE  Automation'
<1>1. TypedAutomation /\ Debugged /\ Awaited
  BY DEF Automation
<1>2. attaching \in [Tabs -> {"none", "tab", "debugger", "detach", "focus"}] /\ enabled \in BOOLEAN
  BY <1>1 DEF TypedAutomation, Control, TypedControl
<1>3. UNCHANGED <<disc, enabled>>
  BY DEF AttachStep, TabChecked, DebuggerAttached, DebuggerDetached, FocusEmulated, Detached, connection
<1>4. CASE TabChecked(t)
  <2>1. attaching[t] = "tab" /\ UNCHANGED <<attached, debugging>>
    BY <1>4 DEF TabChecked
  <2>2. CASE Attachment(t, FALSE)
    BY <1>3, <2>1, <2>2, AttachmentAutomation
  <2>3. CASE attaching' = [attaching EXCEPT ![t] = "debugger"] /\ UNCHANGED <<command, stale>>
    <3>1. Active' = Active
      BY <2>3 DEF Active
    <3>2. /\ attaching' \in [Tabs -> {"none", "tab", "debugger", "detach", "focus"}]
          /\ attaching'[t] = "debugger" /\ \A u \in Tabs : u # t => attaching'[u] = attaching[u]
      BY <1>2, <2>3
    <3>3. TypedAutomation' /\ Awaited'
      BY <1>1, <1>3, <2>1, <2>3, <3>1, <3>2 DEF TypedAutomation, Awaited
    <3>4. Debugged'
      BY <1>1, <1>3, <2>1, <3>2 DEF Debugged, TypedAutomation
    <3> QED  BY <3>3, <3>4 DEF Automation
  <2> QED  BY <1>4, <2>2, <2>3 DEF TabChecked
<1>5. CASE DebuggerAttached(t)
  <2>1. attaching[t] = "debugger"
    BY <1>5 DEF DebuggerAttached
  <2>2. CASE Attachment(t, FALSE) /\ UNCHANGED <<attached, debugging>>
    BY <1>3, <2>1, <2>2, AttachmentAutomation
  <2>3. CASE /\ debugging' = debugging \cup {t}
             /\ attached' = IF enabled THEN attached \cup {t} ELSE attached
             /\ attaching' = [attaching EXCEPT ![t] = IF enabled THEN "focus" ELSE "detach"]
             /\ UNCHANGED <<command, stale>>
    <3>1. Active' = Active
      BY <2>3 DEF Active
    <3>2. /\ attaching' \in [Tabs -> {"none", "tab", "debugger", "detach", "focus"}]
          /\ attaching'[t] = (IF enabled THEN "focus" ELSE "detach")
          /\ \A u \in Tabs : u # t => attaching'[u] = attaching[u]
      BY <1>2, <2>3
    <3>3. TypedAutomation' /\ Awaited'
      BY <1>1, <1>3, <2>3, <3>1, <3>2 DEF TypedAutomation, Awaited
    <3>4. Debugged'
      <4>1. \A u \in debugging' : u \in attached' \/ attaching'[u] = "detach"
        BY <1>1, <2>3, <3>2 DEF Debugged, TypedAutomation
      <4>2. ~(disc.pc \in {"detach", "commands"} \/ (~enabled /\ disc.pc = "none"))
        BY <1>1, <2>1 DEF Debugged
      <4>3. disc.pc = "commands" => disc.pc \in {"detach", "commands"}
        OBVIOUS
      <4> QED  BY <1>3, <4>1, <4>2, <4>3 DEF Debugged
    <3> QED  BY <3>3, <3>4 DEF Automation
  <2> QED  BY <1>5, <2>2, <2>3 DEF DebuggerAttached
<1>6. CASE DebuggerDetached(t)
  BY <1>3, <1>6, AttachmentAutomation DEF DebuggerDetached
<1>7. CASE FocusEmulated(t)
  BY <1>3, <1>7, AttachmentAutomation DEF FocusEmulated
<1>8. CASE Detached(t)
  <2>1. /\ debugging' = debugging \ {t} /\ (attached' = attached \ {t} \/ attached' = attached)
        /\ UNCHANGED <<command, stale, attaching>>
    BY <1>8 DEF Detached
  <2>2. Active' = Active
    BY <2>1 DEF Active
  <2>3. TypedAutomation' /\ Awaited'
    BY <1>1, <1>3, <2>1, <2>2 DEF TypedAutomation, Awaited
  <2>4. Debugged'
    BY <1>1, <1>3, <2>1 DEF Debugged
  <2> QED  BY <2>3, <2>4 DEF Automation
<1> QED  BY <1>4, <1>5, <1>6, <1>7, <1>8 DEF AttachStep

LEMMA AutomationKept ==
  ASSUME Control, Automation, [Next]_vars
  PROVE  Automation'
<1>1. CASE \/ \E n \in Requests : Reconnect(n) \/ \E h \in Hosts : Connect(h, n)
           \/ Disconnect \/ NetworkSet \/ Restore \/ TimerFires \/ Alarm \/ PortLost
           \/ NetworkStep \/ WriteStep
  BY <1>1, Turns, TurnedKept
<1>2. CASE DiscStep
  BY <1>2, DiscStepAutomation
<1>3. CASE Restart
  <2>1. /\ command' = [c \in Commands |-> NoCommand] /\ stale' = {} /\ disc' = NotDisconnecting
        /\ attaching' = [t \in Tabs |-> "none"] /\ attached' = {} /\ debugging' = {}
    BY <1>3 DEF Restart, Forget
  <2>2. NotDisconnecting.pc = "none"
    BY DEF NotDisconnecting
  <2>3. TypedAutomation'
    BY <2>1, Commanded DEF TypedAutomation
  <2> QED  BY <2>1, <2>2, <2>3 DEF Automation, Debugged, Awaited
<1>4. ASSUME NEW c \in Commands, End(c) \/ ensureAttached(c) \/ Send(c) \/ Answered(c)
      PROVE  Automation'
  BY <1>4, CommandsKept
<1>5. ASSUME NEW t \in Tabs, AttachStep(t) \/ Detached(t) PROVE Automation'
  BY <1>5, TabsKept
<1>6. ASSUME NEW c \in Commands, NEW t \in Tabs, Start(c, t) PROVE Automation'
  BY <1>6, CommandsKept
<1>7. CASE UNCHANGED vars
  <2>1. UNCHANGED automation /\ UNCHANGED disc /\ UNCHANGED enabled
    BY <1>7 DEF vars, connection
  <2> QED  BY <2>1, TurnedKept DEF Turned
<1> QED  BY <1>1, <1>2, <1>3, <1>4, <1>5, <1>6, <1>7 DEF Next, User

-----------------------------------------------------------------------------
(* The theorems.                                                           *)

LEMMA InitIInv == Init => IInv
<1> SUFFICES ASSUME Init PROVE IInv
  OBVIOUS
<1>1. /\ boot = "read" /\ enabled = FALSE /\ connecting = FALSE /\ revision = 0 /\ host = None
      /\ request = [n \in Requests |-> Idle] /\ disc = NotDisconnecting
      /\ port = FALSE /\ timer = FALSE /\ session = None /\ writes = <<>> /\ network = <<>>
      /\ command = [c \in Commands |-> NoCommand] /\ stale = {}
      /\ attaching = [t \in Tabs |-> "none"] /\ attached = {} /\ debugging = {}
  BY DEF Init
<1>2. saved \in Stores /\ routed \in BOOLEAN
  <2>1. ASSUME NEW e \in {"yes", "no", "unset"}, NEW h \in Hosts \cup {None}, saved = [enabled |-> e, host |-> h]
        PROVE  saved \in Stores
    BY <2>1 DEF Stores
  <2>2. ASSUME NEW h \in Hosts, NEW e \in {"yes", "no"}, routed \in {FALSE, e = "yes"} PROVE routed \in BOOLEAN
    <3>1. (e = "yes") \in BOOLEAN
      OBVIOUS
    <3> QED  BY <2>2, <3>1
  <2>3. CASE saved = [enabled |-> "unset", host |-> None] /\ routed = FALSE
    BY <2>1, <2>3
  <2>4. CASE \E h \in Hosts : saved = [enabled |-> "unset", host |-> h] /\ routed = TRUE
    BY <2>1, <2>4
  <2>5. CASE \E h \in Hosts, e \in {"yes", "no"} :
               saved = [enabled |-> e, host |-> h] /\ routed \in {FALSE, e = "yes"}
    BY <2>1, <2>2, <2>5
  <2> QED  BY <2>3, <2>4, <2>5 DEF Init
<1>3. NotDisconnecting \in Disconnects /\ NotDisconnecting.pc = "none" /\ NotDisconnecting.by = 0
  BY DEF NotDisconnecting, Disconnects
<1>4. /\ request \in [Requests -> Requested] /\ \A n \in Requests : request[n].pc = "idle" /\ request[n].rev = 0
  BY <1>1, IdleTyped
<1>5. /\ Elems(writes) = {} /\ Elems(network) = {} /\ Once(writes) /\ Once(network)
      /\ Precede(writes, Asked, Last(Saves)) /\ Precede(network, Opening, Last(Operations))
      /\ writes \in Seq(Saves) /\ network \in Seq(Operations) /\ Len(writes) = 0
  BY <1>1, NoElems
<1>6. TypedControl
  <2>1. 0 \in 0 .. MaxRevision + 1
    BY RevisionAssumption
  <2> QED  BY <1>1, <1>2, <1>3, <1>4, <1>5, <2>1 DEF TypedControl
<1>7. Booting /\ Ports /\ Closing
  BY <1>1, <1>3, <1>4, <1>5 DEF Booting, Ports, Closing
<1>8. Calls /\ Hosted
  BY <1>1, <1>3, <1>4 DEF Calls, Hosted, Open
<1>9. Operated /\ Stored
  BY <1>4, <1>5 DEF Operated, Stored
<1>10. TypedAutomation
  BY <1>1, Commanded DEF TypedAutomation
<1>11. Debugged /\ Awaited
  BY <1>1, <1>3 DEF Debugged, Awaited
<1> QED  BY <1>6, <1>7, <1>8, <1>9, <1>10, <1>11 DEF IInv, Control, Automation

\* The invariant the results below rest on: the chains hold what the calls in
\* progress asked for, in an order in which a Disconnect comes last; the port, the
\* helper and the debugger are those of a Tether that is wanted (background.js:
\* 20-60, 150-335, 440-520).
THEOREM Invariant == Spec => []IInv
<1>1. IInv /\ [Next]_vars => IInv'
  BY ControlKept, AutomationKept DEF IInv
<1> QED  BY <1>1, InitIInv, PTL DEF Spec

\* Every variable keeps its type.
THEOREM LifecycleTypes == Spec => []TypeOK
<1>1. IInv => TypeOK
  <2> SUFFICES ASSUME IInv PROVE TypeOK
    OBVIOUS
  <2>1. TypedControl /\ TypedAutomation
    BY DEF IInv, Control, Automation
  <2>2. \A i \in DOMAIN writes : writes[i] \in Saves
    BY <2>1 DEF TypedControl
  <2>3. \A i \in DOMAIN network : network[i] \in Operations
    BY <2>1 DEF TypedControl
  <2> QED  BY <2>1, <2>2, <2>3, Zenon
           DEF TypeOK, TypedControl, TypedAutomation, Requested, Disconnects, Stores, Stages, Saves
<1> QED  BY <1>1, Invariant, PTL

\* When a Disconnect is over, the port is closed, the SSH session is gone, no tab
\* is debugged and no command that it found goes on, for any number of tabs,
\* commands and requests and however the Disconnect's own steps failed
\* (background.js:277-332, 445-467).
THEOREM NothingIsLeft == Spec => []DisconnectLeavesNothing
<1>1. IInv => DisconnectLeavesNothing
  BY DEF IInv, Control, Automation, Ports, Debugged, Awaited, DisconnectLeavesNothing, DisconnectedIsClosed,
         NoStaleCommand
<1> QED  BY <1>1, Invariant, PTL

\* What is connecting is the latest request, and what is enabled is what a
\* restart finds and the only host the helper serves (background.js:45-49, 172,
\* 244-255).
THEOREM LatestHolds == Spec => []LatestRequestHolds
<1>1. IInv => LatestRequestHolds
  <2> SUFFICES ASSUME IInv PROVE LatestRequestHolds
    OBVIOUS
  <2>1. TypedControl /\ Calls /\ Hosted
    BY DEF IInv, Control
  <2>2. connecting => \E n \in Requests : request[n].rev = revision /\ request[n].pc # "idle"
    BY <2>1 DEF Calls, Open, Current
  <2>3. ASSUME NEW n \in Requests, request[n].pc \in {"ssh", "save"}
        PROVE  IF request[n].rev = revision THEN connecting ELSE disc.pc # "none"
    BY <2>1, <2>3 DEF Calls, Open, Current
  <2>4. EnabledAgrees
    BY <2>1 DEF Hosted, EnabledAgrees
  <2> QED  BY <2>2, <2>3, <2>4 DEF LatestRequestHolds, ConnectingIsCurrent
<1> QED  BY <1>1, Invariant, PTL

\* A Disconnect that ends without a failure has turned remote browsing off, and a
\* restart finds Tether disconnected (background.js:287-297).
THEOREM DisconnectKeepsItsWord == Spec => DisconnectCompletes
<1>1. IInv /\ [Next]_vars =>
        (disc.pc = "commands" /\ disc'.pc = "none" /\ boot' = "ready" /\ ~disc.failed
           => ~routed' /\ saved'.enabled = "no")
  <2> SUFFICES ASSUME IInv, [Next]_vars, disc.pc = "commands", disc'.pc = "none", boot' = "ready", ~disc.failed
               PROVE  ~routed' /\ saved'.enabled = "no"
    OBVIOUS
  <2>1. ~routed /\ saved.enabled = "no"
    BY DEF IInv, Control, Closing
  <2>2. ASSUME Turned PROVE FALSE
    <3>1. "commands" \notin {"off", "ssh", "settle", "save", "none"}
      OBVIOUS
    <3> QED  BY <2>2, <3>1 DEF Turned
  <2>3. CASE DiscStep \/ Restart
    BY <2>1, <2>3 DEF DiscStep, DiscSettle, DiscDetach, DiscEnd, chains, Restart
  <2>4. ASSUME UNCHANGED disc PROVE FALSE
    BY <2>4
  <2>5. ASSUME NEW c \in Commands, NEW t \in Tabs,
               \/ End(c) \/ ensureAttached(c) \/ Send(c) \/ Answered(c) \/ Start(c, t)
               \/ AttachStep(t) \/ Detached(t)
        PROVE  FALSE
    <3>1. UNCHANGED disc
      BY <2>5 DEF End, ensureAttached, Send, Answered, Start, AttachStep, TabChecked, DebuggerAttached,
                  DebuggerDetached, FocusEmulated, Detached, connection
    <3> QED  BY <2>4, <3>1
  <2>6. ASSUME NEW c \in Commands, End(c) \/ ensureAttached(c) \/ Send(c) \/ Answered(c) PROVE FALSE
    BY <2>5, <2>6, TabsAssumption
  <2>7. ASSUME NEW t \in Tabs, AttachStep(t) \/ Detached(t) PROVE FALSE
    <3>1. UNCHANGED disc
      BY <2>7 DEF AttachStep, TabChecked, DebuggerAttached, DebuggerDetached, FocusEmulated, Detached,
                  connection
    <3> QED  BY <2>4, <3>1
  <2>8. CASE UNCHANGED vars
    BY <2>4, <2>8 DEF vars, connection
  <2>9. CASE \/ \E n \in Requests : Reconnect(n) \/ \E h \in Hosts : Connect(h, n)
             \/ Disconnect \/ NetworkSet \/ Restore \/ TimerFires \/ Alarm \/ PortLost
             \/ NetworkStep \/ WriteStep
    BY <2>2, <2>9, Turns DEF IInv
  <2> QED  BY <2>3, <2>5, <2>6, <2>7, <2>8, <2>9 DEF Next, User
<1> QED  BY <1>1, Invariant, PTL DEF Spec, DisconnectCompletes
=============================================================================
