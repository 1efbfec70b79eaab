-------------------------- MODULE TabGroup_proofs ---------------------------
(***************************************************************************)
(* Proofs about TabGroup: the requests keep to the tabs of Tether, share   *)
(* the attachment of Chrome's debugger, and name elements of the document  *)
(* the worker was last told of.                                            *)
(***************************************************************************)
EXTENDS TabGroup, FiniteSetTheorems, FunctionTheorems, SequenceTheorems,
        WellFoundedInduction, TLAPS

-----------------------------------------------------------------------------
(* The values the variables take.                                          *)

Ops == {"attach", "enable", "ref", "try", "cdp", "hit", "poll", "pause", "get", "tree", "ensure",
        "open", "look", "live", "list", "remove", "switch", "create", "group", "title", "join",
        "navigate"}

Args == {"", "new", "url", "css", "tab", "window", "Input", "hitTest", "focus", "evaluate",
         "scrollIntoViewIfNeeded", "getBoxModel", "getDocument", "querySelector", "mouseMoved",
         "mousePressed", "mouseReleased", "mouseWheel", "selectAll", "insertText", "rawKeyDown",
         "char", "keyUp", "getLayoutMetrics", "captureScreenshot", "getFullAXTree"}

Steps == {x \in Ops \X (Tabs \cup Domains \cup Args) :
            /\ x[1] = "enable" => x[2] \in Domains
            /\ x[1] \in {"open", "join"} => x[2] # "tab"}

Records == [tab : Tabs, page : Nat, tree : Trees, generation : Nat, current : BOOLEAN]
States  == [generation : Nat, hash : Nat \X Nat]
News    == {"loading", "internal", "detached", "activated", "created"} \X (Tabs \cup {None})
Replies == {"looked", "joined"} \X (Groups \cup {None, "none", "unborn", "closed"})
Events  == News \cup Replies

Requests == [at    : {"idle", "checks", "run", "attaching", "sent"},
             todo  : Seq(Steps),
             param : Tabs \cup {None},
             tab   : Tabs \cup {None},
             held  : Tabs \cup {None},
             url   : Nat,
             last  : Records \cup {None}]

\* A script that attaches has its tab by then: it goes on without one only
\* before it opens or joins one.
HasTab(tab, s) ==
  \/ tab \in Tabs
  \/ \A i \in 1 .. Len(s) : s[i][1] = "attach" => \E j \in 1 .. i - 1 : s[j][1] \in {"open", "join"}

\* What holds of every request, whatever happens beside it.
Formed(k) ==
  /\ k \in Requests
  /\ (k.at = "idle") = (k.todo = <<>>)
  /\ k.at \in {"attaching", "sent"} => k.tab \in Tabs
  /\ k.at = "run" => HasTab(k.tab, k.todo)
  /\ k.at = "checks" => (k.todo[1][1] = "list" => Len(k.todo) = 1)

ChromeTyped ==
  /\ page \in [Tabs -> Nat] /\ tree \in [Tabs -> Trees]
  /\ web \subseteq Tabs /\ debugging \subseteq Tabs
  /\ events \in [Tabs -> Seq(Events)]

WorkerTyped ==
  /\ link \in {"on", "off", "cleared"}
  /\ attached \in [Tabs -> {None} \cup SUBSET Domains]
  /\ attaching \in [Tabs -> {"no", "check", "attach", "focus", "undo"}]
  /\ refs \in [Tabs -> Nat \cup {None}] /\ snaps \in [Tabs -> States \cup {None}]
  /\ seen \in [Tabs -> Nat]

AgentTyped ==
  /\ cmd = [c \in Commands |-> cmd[c]] /\ \A c \in Commands : Formed(cmd[c])
  /\ known \in Records \cup {None}
  /\ budget \in [requests : Nat, user : Nat, page : Nat]

Typed == ChromeTyped /\ WorkerTyped /\ AgentTyped

-----------------------------------------------------------------------------
(* The invariants.                                                         *)

\* The tabs that Tether groups, lists and acts on are its own.
Grouped ==
  /\ group \in [Tabs -> Groups \cup {"none", "unborn", "closed"}] /\ named \subseteq Groups
  /\ groupId \in Groups \cup {None}
  /\ groupTabs \subseteq given /\ given \subseteq Tabs /\ active \in {None} \cup given
  /\ \A t \in Tabs : group[t] \in Groups => t \in given

\* So is the tab that a request has made and not yet grouped.
Held == \A c \in Commands : cmd[c].held \in {None} \cup given

\* A tab is one of Tether's when Chrome answers that it joins a group or is in one.
Admits(own, t, e) == (e[1] = "joined" \/ (e[1] = "looked" /\ e[2] \in Groups)) => t \in own

Admitted == \A t \in Tabs : \A i \in 1 .. Len(events[t]) : Admits(given, t, events[t][i])

\* The worker knows of a session of the debugger, or is about to end it; one of
\* whose end it has still to be told is over; and an attachment that is not made
\* has no session.
Attended ==
  /\ \A t \in debugging : attached[t] # None \/ attaching[t] = "undo"
  /\ \A t \in debugging : \A i \in 1 .. Len(events[t]) : events[t][i][1] # "detached"
  /\ \A t \in debugging : attaching[t] \notin {"check", "attach"}

\* Once Tether is disconnected nothing of it is left.
Cleared ==
  link = "cleared" => /\ debugging = {}
                      /\ \A t \in Tabs : attaching[t] = "no" /\ refs[t] = None

IsUpdate(e) == e[1] \in {"loading", "internal"}

Change(e) == IF IsUpdate(e) THEN 1 ELSE 0

\* The events es lead who knows the document s to the document p: d tells which
\* one is known after each of them.
Leads(s, es, p) ==
  \E d \in [0 .. Len(es) -> Nat] :
    /\ d[0] = s /\ d[Len(es)] = p
    /\ \A i \in 1 .. Len(es) : d[i] = d[i - 1] + Change(es[i])

\* What a tab shows is what the worker was told of and the changes it will be.
Told == \A t \in Tabs : Leads(seen[t], events[t], page[t])

Bounded ==
  \A t \in Tabs : /\ page[t] + budget.page <= MaxMoves
                  /\ tree[t].text + budget.page <= MaxMoves /\ tree[t].focus + budget.page <= MaxMoves
                  /\ refs[t] # None => refs[t] <= page[t]

\* What a snapshot told in this connection is still what the worker holds, unless the
\* document, the generation or what is shown has changed since.
Fits(L, documents, states) ==
  L # None /\ L.current =>
    /\ L.page <= documents[L.tab]
    /\ L.page = documents[L.tab] =>
         /\ states[L.tab] # None /\ L.generation <= states[L.tab].generation
         /\ L.generation = states[L.tab].generation =>
              states[L.tab].hash[2] = L.tree.text

Comparable == Fits(known, seen, snaps) /\ \A c \in Commands : Fits(cmd[c].last, seen, snaps)

IInv == /\ Typed /\ Grouped /\ Held /\ Admitted /\ Attended /\ AttachmentsShared
        /\ Cleared /\ Told /\ Bounded /\ RefsOfSeenPage /\ Comparable /\ UnmodifiedIsSame

-----------------------------------------------------------------------------
(* The operators of the model.                                             *)

Below == {p \in Nat \X Nat : p[1] < p[2]}

LEMMA BelowWellFounded == IsWellFoundedOn(Below, Nat)
BY NatLessThanWellFounded DEF Below, OpToRel

\* Min picks the least number of a set that has one.
LEMMA MinIsLeast ==
  ASSUME NEW S \in SUBSET Nat, S # {}
  PROVE  Min(S) \in S /\ \A i \in S : Min(S) <= i
<1>1. PICK x \in S : \A y \in S : ~(<<y, x>> \in Below)
  BY BelowWellFounded, WFMin
<1>2. ASSUME NEW y \in S PROVE x <= y
  <2>1. <<y, x>> \in Nat \X Nat
    OBVIOUS
  <2>2. ~(y < x)
    BY <1>1, <2>1 DEF Below
  <2> QED  BY <2>2
<1> QED  BY <1>2 DEF Min

\* From keeps an end of the script, which begins with the first step to stop at.
LEMMA FromIsSuffix ==
  ASSUME NEW s \in Seq(Steps), NEW stops \in SUBSET (1 .. Len(s)), stops # {}
  PROVE  \E m \in stops :
           /\ \A i \in 1 .. m - 1 : i \notin stops
           /\ From(s, stops) \in Seq(Steps)
           /\ Len(From(s, stops)) = Len(s) - m + 1
           /\ \A i \in 1 .. Len(s) - m + 1 : From(s, stops)[i] = s[m + i - 1]
<1>1. Len(s) \in Nat /\ \A i \in 1 .. Len(s) : s[i] \in Steps
  BY LenProperties, ElementOfSeq
<1>2. PICK m \in stops : m = Min(stops) /\ \A i \in stops : m <= i
  <2>1. stops \in SUBSET Nat
    BY <1>1
  <2> QED  BY <2>1, MinIsLeast
<1>3. m \in 1 .. Len(s) /\ \A i \in m .. Len(s) : s[i] \in Steps
  BY <1>1
<1>4. /\ SubSeq(s, m, Len(s)) \in Seq(Steps)
      /\ Len(SubSeq(s, m, Len(s))) = IF m <= Len(s) THEN Len(s) - m + 1 ELSE 0
      /\ \A i \in 1 .. Len(s) - m + 1 : SubSeq(s, m, Len(s))[i] = s[m + i - 1]
  <2>1. m \in Int /\ Len(s) \in Int
    BY <1>1, <1>3
  <2> QED  BY <2>1, <1>3, SubSeqProperties, SMTT(20)
<1>5. \A i \in 1 .. m - 1 : i \notin stops
  BY <1>1, <1>2, <1>3
<1>6. From(s, stops) = SubSeq(s, m, Len(s)) /\ m <= Len(s)
  BY <1>2, <1>3, <1>1 DEF From
<1> QED  BY <1>4, <1>5, <1>6

LEMMA FromTyped ==
  ASSUME NEW s \in Seq(Steps), NEW stops \in SUBSET (1 .. Len(s))
  PROVE  From(s, stops) \in Seq(Steps)
<1>1. CASE stops = {}
  BY <1>1, EmptySeq DEF From
<1>2. CASE stops # {}
  BY <1>2, FromIsSuffix
<1> QED  BY <1>1, <1>2

-----------------------------------------------------------------------------
(* A script on its way.                                                    *)

LEMMA HasTabTail ==
  ASSUME NEW tab, NEW s \in Seq(Steps), s # <<>>, s[1][1] \notin {"open", "join"},
         HasTab(tab, s)
  PROVE  HasTab(tab, Tail(s))
<1> SUFFICES ASSUME tab \notin Tabs, NEW i \in 1 .. Len(Tail(s)), Tail(s)[i][1] = "attach"
             PROVE  \E j \in 1 .. i - 1 : Tail(s)[j][1] \in {"open", "join"}
  BY DEF HasTab
<1>1. /\ Len(s) \in Nat /\ Len(Tail(s)) = Len(s) - 1
      /\ \A j \in 1 .. Len(Tail(s)) : Tail(s)[j] = s[j + 1]
  BY LenProperties, HeadTailProperties
<1>2. i + 1 \in 1 .. Len(s) /\ s[i + 1][1] = "attach"
  BY <1>1
<1>3. PICK j \in 1 .. i : s[j][1] \in {"open", "join"}
  BY <1>1, <1>2 DEF HasTab
<1>4. j # 1
  BY <1>3
<1>5. j - 1 \in 1 .. i - 1 /\ Tail(s)[j - 1] = s[j]
  BY <1>1, <1>3, <1>4
<1> QED  BY <1>3, <1>5

LEMMA HasTabInsert ==
  ASSUME NEW tab, NEW p \in Seq(Steps), NEW s \in Seq(Steps), HasTab(tab, s),
         \A i \in 1 .. Len(p) : p[i][1] # "attach"
  PROVE  HasTab(tab, p \o s)
<1> SUFFICES ASSUME tab \notin Tabs, NEW i \in 1 .. Len(p \o s), (p \o s)[i][1] = "attach"
             PROVE  \E j \in 1 .. i - 1 : (p \o s)[j][1] \in {"open", "join"}
  BY DEF HasTab
<1>1. /\ Len(p) \in Nat /\ Len(s) \in Nat /\ Len(p \o s) = Len(p) + Len(s)
      /\ \A j \in 1 .. Len(p) + Len(s) :
           (p \o s)[j] = IF j <= Len(p) THEN p[j] ELSE s[j - Len(p)]
  BY LenProperties, ConcatProperties
<1>2. ~(i <= Len(p))
  BY <1>1
<1>3. i - Len(p) \in 1 .. Len(s) /\ s[i - Len(p)][1] = "attach"
  BY <1>1, <1>2
<1>4. PICK j \in 1 .. (i - Len(p)) - 1 : s[j][1] \in {"open", "join"}
  BY <1>3 DEF HasTab
<1>5. j + Len(p) \in 1 .. i - 1 /\ (p \o s)[j + Len(p)] = s[j]
  BY <1>1, <1>2, <1>3, <1>4
<1> QED  BY <1>4, <1>5

LEMMA HasTabFrom ==
  ASSUME NEW tab, NEW s \in Seq(Steps), NEW stops \in SUBSET (1 .. Len(s)), HasTab(tab, s),
         \A i \in 1 .. Len(s) : s[i][1] \in {"open", "join"} => i \in stops
  PROVE  HasTab(tab, From(s, stops))
<1> DEFINE r == From(s, stops)
<1> SUFFICES ASSUME tab \notin Tabs, NEW i \in 1 .. Len(r), r[i][1] = "attach"
             PROVE  \E j \in 1 .. i - 1 : r[j][1] \in {"open", "join"}
  BY DEF HasTab
<1>1. stops # {}
  <2>1. CASE stops = {}
    BY <2>1, EmptySeq DEF From
  <2> QED  BY <2>1
<1>2. PICK m \in stops :
        /\ \A j \in 1 .. m - 1 : j \notin stops
        /\ Len(r) = Len(s) - m + 1
        /\ \A j \in 1 .. Len(s) - m + 1 : r[j] = s[m + j - 1]
  BY <1>1, FromIsSuffix
<1> HIDE DEF r
<1>3. Len(s) \in Nat /\ m \in 1 .. Len(s)
  BY LenProperties
<1>4. m + i - 1 \in 1 .. Len(s) /\ s[m + i - 1][1] = "attach"
  BY <1>2, <1>3
<1>5. PICK j \in 1 .. (m + i - 1) - 1 : s[j][1] \in {"open", "join"}
  BY <1>4 DEF HasTab
<1>6. j \in 1 .. Len(s) /\ j \in stops
  BY <1>5, <1>3, <1>4
<1>7. j >= m
  BY <1>2, <1>3, <1>5, <1>6
<1>8. j - m + 1 \in 1 .. i - 1 /\ r[j - m + 1] = s[j]
  BY <1>2, <1>3, <1>4, <1>5, <1>6, <1>7
<1> QED  BY <1>5, <1>8

\* What a request may become when it goes on: it waits or has ended, and has no
\* new tab in hand and nothing new to compare with.
Follows(k, n) ==
  /\ Formed(n) /\ n.at \in {"idle", "run"}
  /\ n.held \in {None, k.held} /\ n.last \in {None, k.last}

LEMMA IdleFormed == Formed(Idle) /\ Idle.at = "idle" /\ Idle.held = None /\ Idle.last = None
<1>1. <<>> \in Seq(Steps)
  BY EmptySeq
<1> QED  BY <1>1 DEF Idle, Formed, Requests

LEMMA PairTyped ==
  ASSUME NEW a \in Steps, NEW b \in Steps
  PROVE  /\ <<a>> \in Seq(Steps) /\ Len(<<a>>) = 1
         /\ <<a, b>> \in Seq(Steps) /\ Len(<<a, b>>) = 2
OBVIOUS

\* A script of a request that is run, or nothing.
LEMMA RunFollows ==
  ASSUME NEW k \in Requests, NEW s \in Seq(Steps), s # <<>>, NEW t \in {k.tab} \cup Tabs,
         HasTab(t, s), NEW n, n = [k EXCEPT !.at = "run", !.todo = s, !.tab = t]
  PROVE  Follows(k, n)
BY DEF Follows, Formed, Requests

LEMMA OpensFollows ==
  ASSUME NEW k \in Requests, NEW s \in Seq(Steps), s # <<>>, s[1][1] = "open",
         groupTabs' \subseteq Tabs
  PROVE  Follows(k, Opens(k, s))
<1> DEFINE t == resolveTargetTabId(k.param)
<1> DEFINE make == <<<<"create", "">>, <<"join", "">>>> \o Tail(s)
<1> DEFINE go == <<<<"navigate", "">>>> \o Tail(s)
<1>1. <<"create", "">> \in Steps /\ <<"join", "">> \in Steps /\ <<"navigate", "">> \in Steps
  BY DEF Steps, Ops, Args
<1>2. Tail(s) \in Seq(Steps)
  BY HeadTailProperties
<1>3. /\ make \in Seq(Steps) /\ make # <<>>
      /\ \A i \in 1 .. Len(make) : i <= 2 => make[i][1] \in {"create", "join"}
      /\ 2 \in 1 .. Len(make) /\ make[2][1] = "join"
  <2> DEFINE p == <<<<"create", "">>, <<"join", "">>>>
  <2>1. p \in Seq(Steps) /\ Len(p) = 2 /\ p[1][1] = "create" /\ p[2][1] = "join"
    BY <1>1, PairTyped
  <2> HIDE DEF p
  <2>2. /\ p \o Tail(s) \in Seq(Steps) /\ Len(p \o Tail(s)) = Len(p) + Len(Tail(s))
        /\ \A i \in 1 .. Len(p) + Len(Tail(s)) : (p \o Tail(s))[i] =
             IF i <= Len(p) THEN p[i] ELSE Tail(s)[i - Len(p)]
    BY <1>2, <2>1, ConcatProperties
  <2>3. Len(Tail(s)) \in Nat
    BY <1>2, LenProperties
  <2>4. make = p \o Tail(s)
    BY DEF p
  <2> HIDE DEF make
  <2>5. \A i \in 1 .. Len(make) : i <= 2 => make[i] = p[i]
    BY <2>1, <2>2, <2>3, <2>4
  <2>6. \A i \in 1 .. Len(make) : i <= 2 => i = 1 \/ i = 2
    BY <2>2, <2>3, <2>4, <2>1
  <2>7. make # <<>> /\ 2 \in 1 .. Len(make)
    BY <2>1, <2>2, <2>3, <2>4, EmptySeq
  <2> QED  BY <2>1, <2>2, <2>4, <2>5, <2>6, <2>7
<1>4. HasTab(k.tab, make)
  <2> SUFFICES ASSUME NEW i \in 1 .. Len(make), make[i][1] = "attach"
               PROVE  \E j \in 1 .. i - 1 : make[j][1] \in {"open", "join"}
    BY DEF HasTab
  <2> HIDE DEF make
  <2>1. Len(make) \in Nat
    BY <1>3, LenProperties
  <2>2. i > 2
    BY <1>3, <2>1
  <2> QED  BY <1>3, <2>1, <2>2
<1>5. go \in Seq(Steps) /\ go # <<>>
  <2>1. <<<<"navigate", "">>>> \in Seq(Steps) /\ Len(<<<<"navigate", "">>>>) = 1
    BY <1>1, PairTyped
  <2>2. Len(go) = 1 + Len(Tail(s)) /\ go \in Seq(Steps)
    BY <1>2, <2>1, ConcatProperties
  <2> HIDE DEF go
  <2>3. Len(Tail(s)) \in Nat
    BY <1>2, LenProperties
  <2>4. Len(<<>>) = 0
    OBVIOUS
  <2> QED  BY <2>2, <2>3, <2>4
<1>6. CASE s[1][2] = "new" \/ t \notin groupTabs'
  <2>1. Opens(k, s) = [k EXCEPT !.at = "run", !.todo = make]
    BY <1>6 DEF Opens
  <2> HIDE DEF make
  <2>2. Opens(k, s) = [k EXCEPT !.at = "run", !.todo = make, !.tab = k.tab]
    BY <2>1 DEF Requests
  <2>3. make \in Seq(Steps) /\ make # <<>>
    BY <1>3
  <2> DEFINE n == [k EXCEPT !.at = "run", !.todo = make, !.tab = k.tab]
  <2>4. Follows(k, n)
    <3>1. n = [k EXCEPT !.at = "run", !.todo = make, !.tab = k.tab]
      OBVIOUS
    <3> HIDE DEF n
    <3> QED  BY <3>1, <2>3, <1>4, RunFollows
  <2> HIDE DEF n
  <2>5. Opens(k, s) = n
    BY <2>2 DEF n
  <2> QED  BY <2>4, <2>5
<1>7. CASE ~(s[1][2] = "new" \/ t \notin groupTabs')
  <2>1. Opens(k, s) = [k EXCEPT !.at = "run", !.todo = go, !.tab = t]
    BY <1>7 DEF Opens
  <2>2. t \in Tabs
    BY <1>7
  <2>3. HasTab(t, go)
    BY <2>2 DEF HasTab
  <2> HIDE DEF t, go
  <2> QED  BY <2>1, <2>2, <2>3, <1>5, RunFollows
<1> QED  BY <1>6, <1>7

\* A request that goes on with a script is left with an end of it, or is over.
LEMMA GoesFollows ==
  ASSUME NEW k \in Requests, NEW s \in Seq(Steps), HasTab(k.tab, s), groupTabs' \subseteq Tabs
  PROVE  Follows(k, Goes(k, s))
<1> DEFINE stops == {i \in 1 .. Len(s) : ~Passed(k, s[i])}
<1> DEFINE rest == From(s, stops)
<1>1. Follows(k, Idle)
  BY IdleFormed DEF Follows
<1>2. stops \in SUBSET (1 .. Len(s)) /\ \A i \in 1 .. Len(s) : s[i][1] \in {"open", "join"} => i \in stops
  BY DEF Passed
<1> HIDE DEF stops
<1>3. rest \in Seq(Steps) /\ HasTab(k.tab, rest)
  BY <1>2, FromTyped, HasTabFrom
<1>4. Goes(k, s) = IF rest = <<>> \/ rest[1][1] = "ref" THEN Idle
                   ELSE IF rest[1][1] = "open" THEN Opens(k, rest)
                   ELSE [k EXCEPT !.at = "run", !.todo = rest]
  BY DEF Goes, stops
<1> HIDE DEF rest
<1>5. CASE rest = <<>> \/ rest[1][1] = "ref"
  BY <1>1, <1>4, <1>5
<1>6. CASE rest # <<>> /\ rest[1][1] # "ref" /\ rest[1][1] = "open"
  BY <1>3, <1>4, <1>6, OpensFollows
<1>7. CASE rest # <<>> /\ rest[1][1] # "ref" /\ rest[1][1] # "open"
  <2>1. Goes(k, s) = [k EXCEPT !.at = "run", !.todo = rest, !.tab = k.tab]
    BY <1>4, <1>7 DEF Requests
  <2>2. k.tab \in {k.tab} \cup Tabs
    OBVIOUS
  <2> QED  BY <2>1, <2>2, <1>3, <1>7, RunFollows
<1> QED  BY <1>5, <1>6, <1>7

\* The same after the step the request waited for, done or failed.
LEMMA RestFollows ==
  ASSUME NEW k, Formed(k), k.at \in {"run", "attaching", "sent"},
         NEW r \in Requests, r.todo = k.todo, r.held = k.held, r.last = k.last,
         groupTabs' \subseteq Tabs, (r.tab = k.tab /\ Op(k) \notin {"open", "join"}) \/ r.tab \in Tabs
  PROVE  Follows(k, Goes(r, Tail(k.todo)))
<1>1. k \in Requests /\ k.todo \in Seq(Steps) /\ k.todo # <<>> /\ HasTab(k.tab, k.todo)
  BY DEF Formed, Requests, HasTab
<1>2. Tail(k.todo) \in Seq(Steps) /\ HasTab(r.tab, Tail(k.todo))
  <2>1. Tail(k.todo) \in Seq(Steps)
    BY <1>1, HeadTailProperties
  <2>2. CASE r.tab \in Tabs
    BY <2>1, <2>2 DEF HasTab
  <2>3. CASE r.tab = k.tab /\ Op(k) \notin {"open", "join"}
    BY <1>1, <2>1, <2>3, HasTabTail DEF Op
  <2> QED  BY <2>2, <2>3
<1>3. Follows(r, Goes(r, Tail(k.todo)))
  BY <1>1, <1>2, GoesFollows
<1> QED  BY <1>3 DEF Follows

LEMMA FailsFollows ==
  ASSUME NEW k, Formed(k), k.at \in {"run", "attaching", "sent"}, groupTabs' \subseteq Tabs
  PROVE  Follows(k, Fails(k))
<1>1. Follows(k, Idle)
  BY IdleFormed DEF Follows
<1>2. k \in Requests
  BY DEF Formed
<1>3. CASE Op(k) \in {"try", "hit", "poll"}
  <2>1. Follows(k, Goes(k, Tail(k.todo)))
    BY <1>2, <1>3, RestFollows
  <2> QED  BY <1>3, <2>1 DEF Fails
<1> QED  BY <1>1, <1>3 DEF Fails

-----------------------------------------------------------------------------
(* The scripts of the handlers.                                            *)

\* Only browser.close makes a list.
Plain == {x \in Steps : x[1] # "list"}

Script(s) == s \in Seq(Plain) /\ s # <<>>

LEMMA StepTyped ==
  /\ \A op \in Ops \ {"enable", "open", "join", "list"}, arg \in Tabs \cup Domains \cup Args :
       <<op, arg>> \in Plain
  /\ \A d \in Domains : <<"enable", d>> \in Plain
  /\ \A sel \in {"new", "url"} : <<"open", sel>> \in Plain
  /\ <<"join", "">> \in Plain
<1>1. ASSUME NEW op \in Ops \ {"enable", "open", "join", "list"}, NEW arg \in Tabs \cup Domains \cup Args
      PROVE  <<op, arg>> \in Plain
  BY DEF Plain, Steps
<1>2. ASSUME NEW d \in Domains PROVE <<"enable", d>> \in Plain
  BY DEF Plain, Steps, Ops
<1>3. ASSUME NEW sel \in {"new", "url"} PROVE <<"open", sel>> \in Plain
  BY DEF Plain, Steps, Ops, Args
<1>4. <<"join", "">> \in Plain
  BY DEF Plain, Steps, Ops, Args
<1> QED  BY <1>1, <1>2, <1>3, <1>4

LEMMA ConcatTyped ==
  ASSUME NEW s \in Seq(Plain), NEW t \in Seq(Plain)
  PROVE  s \o t \in Seq(Plain)
BY ConcatProperties

LEMMA ConcatScript ==
  ASSUME NEW s \in Seq(Plain), NEW t \in Seq(Plain), s # <<>> \/ t # <<>>
  PROVE  s \o t \in Seq(Plain) /\ Script(s \o t)
BY ConcatProperties, EmptySeq, ConcatEqualIffEmpty DEF Script

LEMMA ShortScripts ==
  ASSUME NEW a \in Plain, NEW b \in Plain, NEW c \in Plain
  PROVE  Script(<<a>>) /\ Script(<<a, b>>) /\ Script(<<a, b, c>>)
BY DEF Script

LEMMA PlainPair ==
  ASSUME NEW a \in Plain, NEW b \in Plain
  PROVE  <<a, b>> \in Seq(Plain) /\ Len(<<a, b>>) = 2
OBVIOUS

LEMMA DomainScript ==
  ASSUME NEW d \in Domains \cup {"Input"}
  PROVE  Script(ensureDomain(d))
<1>1. <<"attach", d>> \in Plain
  BY StepTyped DEF Ops, Args
<1>2. d # "Input" => <<"enable", d>> \in Plain
  BY StepTyped
<1> QED  BY <1>1, <1>2, ShortScripts DEF ensureDomain

LEMMA CdpScripts ==
  ASSUME NEW op \in {"try", "cdp", "hit", "pause", "get", "tree", "ensure", "look", "live",
                     "remove", "switch", "attach", "ref"},
         NEW x \in Args, NEW y \in Args, NEW z \in Args
  PROVE  /\ Script(<<<<op, x>>>>)
         /\ Script(<<<<"cdp", x>>, <<"cdp", y>>>>)
         /\ Script(<<<<"try", x>>, <<"cdp", y>>>>)
         /\ Script(<<<<"cdp", x>>, <<"cdp", y>>, <<"cdp", z>>>>)
<1>1. <<op, x>> \in Plain /\ <<"cdp", x>> \in Plain /\ <<"cdp", y>> \in Plain
      /\ <<"cdp", z>> \in Plain /\ <<"try", x>> \in Plain
  BY StepTyped DEF Ops
<1> QED  BY <1>1, ShortScripts

LEMMA CoordinateScripts ==
  ASSUME NEW sel \in {"ref", "css", "xy"}
  PROVE  /\ resolveCoordinates(sel) \in Seq(Plain)
         /\ Script(handleClick(sel)) /\ Script(focusAndClick(sel)) /\ Script(handleHover(sel))
<1> USE DEF Script
<1>1. Script(ensureDomain("DOM")) /\ Script(ensureDomain("Input"))
  BY DomainScript DEF Domains
<1>2. /\ Script(<<<<"ref", "">>>>) /\ Script(<<<<"hit", "hitTest">>>>)
      /\ Script(<<<<"try", "focus">>>>) /\ Script(<<<<"cdp", "mouseMoved">>>>)
  <2>1. {"", "hitTest", "focus", "mouseMoved"} \subseteq Args
    BY DEF Args
  <2> QED  BY <2>1, CdpScripts
<1>10. /\ Script(<<<<"try", "scrollIntoViewIfNeeded">>, <<"cdp", "getBoxModel">>>>)
       /\ Script(<<<<"cdp", "getDocument">>, <<"cdp", "querySelector">>, <<"cdp", "getBoxModel">>>>)
       /\ Script(<<<<"cdp", "mouseMoved">>, <<"cdp", "mousePressed">>, <<"cdp", "mouseReleased">>>>)
  <2>1. {"scrollIntoViewIfNeeded", "getBoxModel", "getDocument", "querySelector", "mouseMoved",
         "mousePressed", "mouseReleased"} \subseteq Args
    BY DEF Args
  <2> QED  BY <2>1, CdpScripts
<1>3. <<>> \in Seq(Plain)
  BY EmptySeq
<1>4. Script(resolveRefCoordinates)
  BY <1>1, <1>2, <1>10, ConcatScript DEF resolveRefCoordinates
<1>5. Script(resolveSelectorCoordinates)
  BY <1>1, <1>10, ConcatScript DEF resolveSelectorCoordinates
<1>6. resolveCoordinates(sel) \in Seq(Plain)
  BY <1>3, <1>4, <1>5 DEF resolveCoordinates
<1>7. Script(handleClick(sel))
  <2> DEFINE hit == IF sel = "ref" THEN <<<<"hit", "hitTest">>>> ELSE <<>>
  <2>1. hit \in Seq(Plain)
    BY <1>2, <1>3
  <2> HIDE DEF hit
  <2>2. (resolveCoordinates(sel) \o hit) \o ensureDomain("Input") \in Seq(Plain)
    BY <1>1, <1>6, <2>1, ConcatTyped
  <2> QED  BY <1>10, <2>2, ConcatScript DEF handleClick, hit
<1>8. Script(focusAndClick(sel))
  <2> DEFINE focus == IF sel = "ref" THEN ensureDomain("DOM") \o <<<<"try", "focus">>>> ELSE <<>>
  <2>1. focus \in Seq(Plain)
    BY <1>1, <1>2, <1>3, ConcatTyped
  <2> HIDE DEF focus
  <2>2. (resolveCoordinates(sel) \o focus) \o handleClick(sel) \in Seq(Plain)
    BY <1>6, <1>7, <2>1, ConcatTyped
  <2> QED  BY <1>1, <2>2, ConcatScript DEF focusAndClick, focus
<1>9. Script(handleHover(sel))
  BY <1>1, <1>2, <1>6, ConcatScript DEF handleHover
<1> QED  BY <1>6, <1>7, <1>8, <1>9

LEMMA PageScripts ==
  ASSUME NEW sel \in {"time", "css"}
  PROVE  /\ Script(handlePress) /\ Script(handleScroll) /\ Script(handleEval)
         /\ Script(handleScreenshot) /\ Script(handleSnapshot) /\ Script(handleWait(sel))
<1> USE DEF Script
<1>1. /\ Script(ensureDomain("DOM")) /\ Script(ensureDomain("Input"))
      /\ Script(ensureDomain("Runtime")) /\ Script(ensureDomain("Page"))
      /\ Script(ensureDomain("Accessibility"))
  BY DomainScript DEF Domains
<1>2. /\ Script(<<<<"cdp", "mouseWheel">>>>) /\ Script(<<<<"cdp", "evaluate">>>>)
      /\ Script(<<<<"pause", "">>>>)
      /\ Script(<<<<"cdp", "rawKeyDown">>, <<"cdp", "char">>, <<"cdp", "keyUp">>>>)
      /\ Script(<<<<"cdp", "evaluate">>, <<"cdp", "getLayoutMetrics">>,
                  <<"cdp", "captureScreenshot">>>>)
  <2>1. {"", "mouseWheel", "evaluate", "rawKeyDown", "char", "keyUp", "getLayoutMetrics",
         "captureScreenshot"} \subseteq Args
    BY DEF Args
  <2> QED  BY <2>1, CdpScripts
<1>3. Script(handlePress) /\ Script(handleScroll) /\ Script(handleEval)
  BY <1>1, <1>2, ConcatScript DEF handlePress, handleScroll, handleEval
<1>4. Script(handleScreenshot)
  BY <1>1, <1>2, ConcatScript DEF handleScreenshot
<1>5. Script(handleSnapshot)
  <2>1. <<"get", "">> \in Plain /\ <<"tree", "getFullAXTree">> \in Plain
    BY StepTyped DEF Ops, Args
  <2>2. Script(<<<<"get", "">>, <<"tree", "getFullAXTree">>>>)
    BY <2>1, ShortScripts
  <2>3. ensureDomain("Accessibility") \o ensureDomain("DOM") \in Seq(Plain)
    BY <1>1, ConcatTyped
  <2> QED  BY <2>2, <2>3, ConcatScript DEF handleSnapshot
<1>6. CASE sel = "time"
  BY <1>2, <1>3, <1>4, <1>5, <1>6 DEF handleWait
<1>7. CASE sel = "css"
  <2> DEFINE polls == [i \in 1 .. 2 * MaxPolls |->
                         IF i % 2 = 1 THEN <<"poll", sel>> ELSE <<"pause", "">>]
  <2>1. <<"poll", sel>> \in Plain /\ <<"pause", "">> \in Plain
    <3>1. "poll" \in Ops /\ "pause" \in Ops /\ "css" \in Args /\ "" \in Args
      BY DEF Ops, Args
    <3> QED  BY <1>7, <3>1, StepTyped
  <2>2. 2 * MaxPolls \in Nat
    BY BoundsAssumption
  <2>3. polls \in [1 .. 2 * MaxPolls -> Plain]
    BY <2>1, <2>2
  <2>4. polls \in Seq(Plain)
    <3> DEFINE n == 2 * MaxPolls
    <3> HIDE DEF n, polls
    <3>1. polls \in UNION {[1 .. k -> Plain] : k \in Nat}
      BY <2>2, <2>3 DEF n
    <3> QED  BY <3>1, SeqDef
  <2> HIDE DEF polls
  <2>5. Script(ensureDomain("DOM") \o polls)
    BY <1>1, <2>4, ConcatScript
  <2> QED  BY <1>3, <1>4, <1>5, <1>7, <2>5 DEF handleWait, polls
<1> QED  BY <1>6, <1>7

LEMMA InputScripts ==
  ASSUME NEW sel \in {"ref", "css", "xy"}
  PROVE  Script(handleFill(sel)) /\ Script(handleType(sel)) /\ Script(handleFocus(sel))
<1> USE DEF Script
<1>1. /\ Script(<<<<"cdp", "selectAll">>, <<"cdp", "insertText">>>>)
      /\ Script(<<<<"cdp", "insertText">>>>) /\ Script(<<<<"ref", "">>>>)
      /\ Script(<<<<"cdp", "getDocument">>, <<"cdp", "querySelector">>>>)
      /\ Script(<<<<"cdp", "focus">>>>)
  <2>1. {"", "selectAll", "insertText", "getDocument", "querySelector", "focus"} \subseteq Args
    BY DEF Args
  <2> QED  BY <2>1, CdpScripts
<1>2. Script(handleFill(sel)) /\ Script(handleType(sel))
  BY <1>1, CoordinateScripts, ConcatScript DEF handleFill, handleType
<1>3. Script(handleFocus(sel))
  <2> DEFINE find == IF sel = "ref" THEN <<<<"ref", "">>>>
                     ELSE <<<<"cdp", "getDocument">>, <<"cdp", "querySelector">>>>
  <2>1. find \in Seq(Plain)
    BY <1>1
  <2> HIDE DEF find
  <2>2. Script(ensureDomain("DOM"))
    BY DomainScript DEF Domains
  <2>3. ensureDomain("DOM") \o find \in Seq(Plain)
    BY <2>1, <2>2, ConcatTyped
  <2> QED  BY <1>1, <2>3, ConcatScript DEF handleFocus, find
<1> QED  BY <1>2, <1>3

\* browser.open opens before it attaches; the others that need no tab do not attach.
LEMMA TablessScripts ==
  ASSUME NEW sel \in {"new", "url"}, NEW tab
  PROVE  /\ Script(handleOpen(sel)) /\ HasTab(tab, handleOpen(sel))
         /\ Script(handleStatus) /\ HasTab(tab, handleStatus)
         /\ Script(handleTabList) /\ HasTab(tab, handleTabList)
<1>1. /\ <<"ensure", "">> \in Plain /\ <<"look", "">> \in Plain /\ <<"live", "">> \in Plain
      /\ <<"open", sel>> \in Plain
  BY StepTyped DEF Ops, Args
<1>2. Script(handleStatus) /\ Script(handleTabList)
  BY <1>1, ShortScripts DEF handleStatus, handleTabList
<1>3. HasTab(tab, handleStatus) /\ HasTab(tab, handleTabList)
  <2>1. Len(handleStatus) = 2 /\ handleStatus[1][1] = "look" /\ handleStatus[2][1] = "live"
    BY DEF handleStatus
  <2>2. handleTabList = handleStatus
    BY DEF handleStatus, handleTabList
  <2>3. \A i \in 1 .. 2 : i = 1 \/ i = 2
    OBVIOUS
  <2> QED  BY <2>1, <2>2, <2>3 DEF HasTab
<1> DEFINE begin == <<<<"ensure", "">>, <<"open", sel>>>>
<1>4. begin \in Seq(Plain) /\ Len(begin) = 2
  BY <1>1, PlainPair
<1>5. begin[1][1] = "ensure" /\ begin[2][1] = "open"
  OBVIOUS
<1> HIDE DEF begin
<1>6. ensureDomain("Page") \in Seq(Plain)
  BY DomainScript DEF Domains, Script
<1>7. handleOpen(sel) = begin \o ensureDomain("Page")
  BY DEF handleOpen, begin
<1>8. /\ Script(handleOpen(sel)) /\ Len(ensureDomain("Page")) \in Nat
      /\ Len(handleOpen(sel)) = 2 + Len(ensureDomain("Page"))
      /\ \A i \in 1 .. Len(handleOpen(sel)) : i <= 2 => handleOpen(sel)[i] = begin[i]
  <2>1. Len(ensureDomain("Page")) \in Nat
    BY <1>6, LenProperties
  <2>2. begin # <<>>
    BY <1>4, EmptySeq
  <2>3. Script(handleOpen(sel))
    BY <1>4, <1>6, <1>7, <2>2, ConcatScript
  <2>4. /\ Len(begin \o ensureDomain("Page")) = Len(begin) + Len(ensureDomain("Page"))
        /\ \A i \in 1 .. Len(begin) + Len(ensureDomain("Page")) :
             (begin \o ensureDomain("Page"))[i] =
                IF i <= Len(begin) THEN begin[i] ELSE ensureDomain("Page")[i - Len(begin)]
    BY <1>4, <1>6, ConcatProperties
  <2> QED  BY <1>4, <1>7, <2>1, <2>3, <2>4
<1>9. HasTab(tab, handleOpen(sel))
  <2> SUFFICES ASSUME NEW i \in 1 .. Len(handleOpen(sel)), handleOpen(sel)[i][1] = "attach"
               PROVE  \E j \in 1 .. i - 1 : handleOpen(sel)[j][1] \in {"open", "join"}
    BY DEF HasTab
  <2>1. ~(i <= 2)
    <3>1. i <= 2 => i = 1 \/ i = 2
      BY <1>8
    <3> QED  BY <3>1, <1>5, <1>8
  <2>2. 2 \in 1 .. Len(handleOpen(sel)) /\ 2 \in 1 .. i - 1
    BY <1>8, <2>1
  <2>3. handleOpen(sel)[2][1] = "open"
    BY <1>5, <1>8, <2>2
  <2> QED  BY <2>2, <2>3
<1> QED  BY <1>2, <1>3, <1>8, <1>9

\* What a handler starts with.  One whose script begins with the list of the tabs
\* has no other step.
LEMMA HandlerScripts ==
  ASSUME NEW m \in Methods \cup Later, NEW sel \in Forms(m)
  PROVE  /\ nativeHandlers(m, sel) \in Seq(Steps) /\ nativeHandlers(m, sel) # <<>>
         /\ nativeHandlers(m, sel)[1][1] = "list" => Len(nativeHandlers(m, sel)) = 1
         /\ m \in {"open", "status", "tab.list"} => \A tab : HasTab(tab, nativeHandlers(m, sel))
<1> DEFINE s == nativeHandlers(m, sel)
<1>1. ASSUME Script(s) PROVE s \in Seq(Steps) /\ s # <<>> /\ s[1][1] # "list"
  <2>1. s \in Seq(Plain) /\ s # <<>>
    BY <1>1 DEF Script
  <2> HIDE DEF s
  <2>2. s[1] \in Plain
    BY <2>1, EmptySeq, ElementOfSeq
  <2>3. Plain \subseteq Steps
    BY DEF Plain
  <2> QED  BY <2>1, <2>2, <2>3, SeqMonotonic DEF Plain
<1>2. CASE m \in {"open", "status", "tab.list"}
  <2>1. Script(s) /\ \A tab : HasTab(tab, s)
    <3>1. CASE m = "open"
      BY <3>1, TablessScripts DEF nativeHandlers, Forms
    <3>2. CASE m \in {"status", "tab.list"}
      BY <3>2, TablessScripts DEF nativeHandlers
    <3> QED  BY <1>2, <3>1, <3>2
  <2> QED  BY <1>1, <2>1
<1>3. CASE m \in {"click", "hover", "fill", "type", "focus"}
  <2>1. sel \in {"ref", "css", "xy"}
    BY <1>3 DEF Forms
  <2>2. Script(s)
    BY <1>3, <2>1, CoordinateScripts, InputScripts DEF nativeHandlers
  <2> QED  BY <1>1, <1>3, <2>2
<1>4. CASE m \in {"snapshot", "press", "wait", "scroll", "eval", "screenshot"}
  <2>1. m = "wait" => sel \in {"time", "css"}
    BY DEF Forms
  <2>2. Script(s)
    BY <1>4, <2>1, PageScripts DEF nativeHandlers
  <2> QED  BY <1>1, <1>4, <2>2
<1>5. CASE m = "switch"
  <2>1. <<"switch", "">> \in Plain /\ <<"attach", "">> \in Plain
    BY StepTyped DEF Ops, Args
  <2>2. Script(s)
    BY <1>5, <2>1, ShortScripts DEF nativeHandlers, handleTabSwitch
  <2> QED  BY <1>1, <1>5, <2>2
<1>6. CASE m = "close" /\ sel = "all"
  <2>1. s = <<<<"list", "">>>>
    BY <1>6 DEF nativeHandlers, handleClose
  <2>2. <<"list", "">> \in Steps
    BY DEF Steps, Ops, Args
  <2>3. <<<<"list", "">>>> \in Seq(Steps) /\ Len(<<<<"list", "">>>>) = 1
    BY <2>2, PairTyped
  <2>4. <<<<"list", "">>>> # <<>>
    OBVIOUS
  <2>5. m \notin {"open", "status", "tab.list"}
    BY <1>6
  <2> QED  BY <2>1, <2>3, <2>4, <2>5
<1>7. CASE m = "close" /\ sel # "all"
  <2>1. <<"remove", "">> \in Plain
    BY StepTyped DEF Ops, Args
  <2>2. Script(s)
    BY <1>7, <2>1, ShortScripts DEF nativeHandlers, handleClose
  <2> QED  BY <1>1, <1>7, <2>2
<1> QED  BY <1>2, <1>3, <1>4, <1>5, <1>6, <1>7, MethodsAssumption

-----------------------------------------------------------------------------
(* What a step makes of the requests.                                      *)

\* What k may become in a step: the tab in its hand is one it had or one of
\* Tether's, it compares with what the agent knows or knew, and it waits for an
\* attachment in progress.
Becomes(k, n) ==
  /\ Formed(n)
  /\ n.held \in {None, k.held} \cup given'
  /\ n.last \in {None, k.last, known, Earlier(k.last)}
  /\ n.at = "attaching" => attaching'[n.tab] # "no"

Works ==
  /\ cmd' = [d \in Commands |-> cmd'[d]]
  /\ \A d \in Commands : Becomes(cmd[d], cmd'[d])

LEMMA FollowsBecomes ==
  ASSUME NEW k, NEW n, Follows(k, n)
  PROVE  Becomes(k, n)
BY DEF Follows, Becomes

LEMMA OneWorks ==
  ASSUME AgentTyped, WaitersAwaited, attaching' = attaching, NEW c \in Commands,
         NEW n, Becomes(cmd[c], n), cmd' = [cmd EXCEPT ![c] = n]
  PROVE  Works
<1>1. cmd' = [d \in Commands |-> IF d = c THEN n ELSE cmd[d]]
  BY DEF AgentTyped
<1>2. ASSUME NEW d \in Commands, d # c PROVE Becomes(cmd[d], cmd'[d])
  BY <1>1, <1>2 DEF AgentTyped, WaitersAwaited, Becomes
<1> QED  BY <1>1, <1>2 DEF Works

LEMMA NoneWorks ==
  ASSUME AgentTyped, WaitersAwaited, attaching' = attaching, cmd' = cmd
  PROVE  Works
BY DEF AgentTyped, WaitersAwaited, Becomes, Works

LEMMA ContinueWorks ==
  ASSUME AgentTyped, WaitersAwaited, attaching' = attaching, groupTabs' \subseteq Tabs,
         NEW c \in Commands, cmd[c].at \in {"run", "sent"},
         cmd[c].tab \in Tabs \/ Op(cmd[c]) \notin {"open", "join"},
         Continue(c)
  PROVE  Works
<1>1. Formed(cmd[c]) /\ cmd[c] \in Requests
  BY DEF AgentTyped, Formed
<1>2. Becomes(cmd[c], Goes(cmd[c], Tail(cmd[c].todo)))
  BY <1>1, RestFollows, FollowsBecomes
<1>3. cmd' = [cmd EXCEPT ![c] = Goes(cmd[c], Tail(cmd[c].todo))]
  BY DEF Continue
<1> QED  BY <1>2, <1>3, OneWorks

LEMMA FailWorks ==
  ASSUME AgentTyped, WaitersAwaited, attaching' = attaching, groupTabs' \subseteq Tabs,
         NEW c \in Commands, cmd[c].at \in {"run", "sent"}, FailStep(c)
  PROVE  Works
<1>1. Becomes(cmd[c], Fails(cmd[c]))
  BY FailsFollows, FollowsBecomes DEF AgentTyped
<1>2. cmd' = [cmd EXCEPT ![c] = Fails(cmd[c])]
  BY DEF FailStep
<1> QED  BY <1>1, <1>2, OneWorks

LEMMA RejectWorks ==
  ASSUME AgentTyped, WaitersAwaited, attaching' = attaching, groupTabs' \subseteq Tabs,
         NEW S, Reject(S)
  PROVE  Works
<1>1. cmd' = [c \in Commands |-> IF cmd[c].at = "sent" /\ cmd[c].tab \in S
                                   THEN Fails(cmd[c]) ELSE cmd[c]]
  BY DEF Reject
<1>2. ASSUME NEW d \in Commands PROVE Becomes(cmd[d], cmd'[d])
  <2>1. CASE cmd[d].at = "sent" /\ cmd[d].tab \in S
    BY <1>1, <2>1, FailsFollows, FollowsBecomes DEF AgentTyped
  <2>2. CASE ~(cmd[d].at = "sent" /\ cmd[d].tab \in S)
    BY <1>1, <2>2 DEF AgentTyped, WaitersAwaited, Becomes
  <2> QED  BY <2>1, <2>2
<1> QED  BY <1>1, <1>2 DEF Works

\* Three steps put before a script that waits for its tab.
LEMMA InsertFollows ==
  ASSUME NEW k \in Requests, NEW s \in Seq(Steps), HasTab(k.tab, s),
         NEW a \in Steps, NEW b \in Steps, NEW e \in Steps, "attach" \notin {a[1], b[1], e[1]},
         NEW held \in {None, k.held},
         NEW n, n = [k EXCEPT !.at = "run", !.held = held, !.todo = <<a, b, e>> \o s]
  PROVE  Follows(k, n)
<1> DEFINE p == <<a, b, e>>
<1>1. p \in Seq(Steps) /\ Len(p) = 3 /\ p[1] = a /\ p[2] = b /\ p[3] = e
  OBVIOUS
<1>2. n = [k EXCEPT !.at = "run", !.held = held, !.todo = p \o s]
  OBVIOUS
<1> HIDE DEF p
<1>3. \A i \in 1 .. Len(p) : p[i][1] # "attach"
  <2>1. \A i \in 1 .. 3 : i = 1 \/ i = 2 \/ i = 3
    OBVIOUS
  <2> QED  BY <1>1, <2>1
<1>4. p \o s \in Seq(Steps) /\ HasTab(k.tab, p \o s)
  BY <1>1, <1>3, HasTabInsert, ConcatProperties
<1>5. p \o s # <<>>
  <2>1. Len(s) \in Nat
    BY LenProperties
  <2>2. p \in Seq(Steps) /\ Len(p) = 3
    BY <1>1
  <2>3. Len(p \o s) = Len(p) + Len(s)
    BY <2>2, ConcatProperties
  <2>4. Len(p \o s) = 3 + Len(s)
    BY <2>2, <2>3
  <2> QED  BY <2>1, <2>4, EmptySeq
<1> QED  BY <1>2, <1>4, <1>5 DEF Follows, Formed, Requests

LEMMA MakesGroupFollows ==
  ASSUME NEW k \in Requests, k.at = "run", NEW where \in {"tab", "window"},
         NEW s \in Seq(Steps), HasTab(k.tab, s)
  PROVE  Follows(k, MakesGroup(k, where, s))
<1>1. <<"create", where>> \in Steps /\ <<"group", where>> \in Steps /\ <<"title", where>> \in Steps
  BY DEF Steps, Ops, Args
<1>2. MakesGroup(k, where, s) =
        [k EXCEPT !.at = "run", !.held = None,
                  !.todo = <<<<"create", where>>, <<"group", where>>, <<"title", where>>>> \o s]
  BY DEF MakesGroup, Requests
<1>3. None \in {None, k.held}
  OBVIOUS
<1> QED  BY <1>1, <1>2, <1>3, InsertFollows

LEMMA GroupFailsWorks ==
  ASSUME AgentTyped, WaitersAwaited, attaching' = attaching,
         NEW c \in Commands, cmd[c].at = "run", GroupFails(c)
  PROVE  Works
<1> DEFINE k == cmd[c]
<1> DEFINE stops == {i \in 1 .. Len(k.todo) : k.todo[i][2] # "tab"}
<1> DEFINE window == MakesGroup(k, "window", From(k.todo, stops))
<1>1. Formed(k) /\ k \in Requests /\ k.todo \in Seq(Steps) /\ HasTab(k.tab, k.todo)
  BY DEF AgentTyped, Formed, Requests
<1>2. Becomes(k, Idle)
  BY IdleFormed DEF Becomes
<1>3. Becomes(k, window)
  <2>1. \A i \in 1 .. Len(k.todo) : k.todo[i][1] \in {"open", "join"} => i \in stops
    <3>1. \A i \in 1 .. Len(k.todo) : k.todo[i] \in Steps
      BY <1>1, ElementOfSeq
    <3> QED  BY <3>1 DEF Steps
  <2>2. stops \in SUBSET (1 .. Len(k.todo))
    OBVIOUS
  <2> HIDE DEF stops
  <2>3. From(k.todo, stops) \in Seq(Steps) /\ HasTab(k.tab, From(k.todo, stops))
    BY <1>1, <2>1, <2>2, FromTyped, HasTabFrom
  <2> HIDE DEF k
  <2> QED  BY <1>1, <2>3, MakesGroupFollows, FollowsBecomes DEF k
<1>4. cmd' = [cmd EXCEPT ![c] = IF k.todo[1][2] # "tab" \/ link # "on" THEN Idle ELSE window]
  BY DEF GroupFails
<1> HIDE DEF window, k
<1>5. Becomes(k, IF k.todo[1][2] # "tab" \/ link # "on" THEN Idle ELSE window)
  BY <1>2, <1>3
<1> QED  BY <1>4, <1>5, OneWorks DEF k

LEMMA FreshFormed ==
  ASSUME NEW at \in {"run", "checks"}, NEW s \in Seq(Steps), s # <<>>,
         NEW p \in Tabs \cup {None}, NEW tab \in Tabs \cup {None},
         NEW last \in Records \cup {None},
         s[1][1] = "list" => Len(s) = 1, at = "run" => HasTab(tab, s)
  PROVE  Formed([at |-> at, todo |-> s, param |-> p, tab |-> tab, held |-> None, url |-> 0,
                 last |-> last])
BY DEF Formed, Requests

LEMMA AsksWorks ==
  ASSUME IInv, NEW c \in Commands, Asks(c)
  PROVE  Works
<1>1. PICK m \in IF budget.requests = MaxRequests THEN Methods ELSE Later :
        \E sel \in Forms(m), p \in {None} \cup Named :
          cmd' = [cmd EXCEPT ![c] = Asked(m, sel, p)]
  BY DEF Asks
<1>2. PICK sel \in Forms(m), p \in {None} \cup Named : cmd' = [cmd EXCEPT ![c] = Asked(m, sel, p)]
  BY <1>1
<1> DEFINE s == nativeHandlers(m, sel)
<1>3. m \in Methods \cup Later
  OBVIOUS
<1>4. /\ s \in Seq(Steps) /\ s # <<>>
      /\ s[1][1] = "list" => Len(s) = 1
      /\ m \in {"open", "status", "tab.list"} => \A tab : HasTab(tab, s)
  BY <1>3, HandlerScripts
<1>5. active' = active /\ attaching' = attaching
  BY DEF Asks, worker
<1>6. p \in Tabs \cup {None} /\ resolveTargetTabId(p) \in Tabs \cup {None}
  BY <1>5, TabsAssumption DEF resolveTargetTabId, IInv, Grouped
<1> DEFINE at == IF m \in {"open", "status", "tab.list"} THEN "run" ELSE "checks"
<1> DEFINE last == IF m = "snapshot" THEN known ELSE None
<1> DEFINE n == [at |-> at, todo |-> s, param |-> p, tab |-> resolveTargetTabId(p),
                 held |-> None, url |-> 0, last |-> last]
<1>7. Asked(m, sel, p) = n
  BY DEF Asked
<1>8. at \in {"run", "checks"} /\ last \in Records \cup {None} /\ last \in {None, known}
  BY DEF IInv, Typed, AgentTyped
<1>9. at = "run" => HasTab(resolveTargetTabId(p), s)
  BY <1>4
<1> HIDE DEF s, at, last
<1>10. Formed(n)
  BY <1>4, <1>6, <1>8, <1>9, FreshFormed
<1>11. Becomes(cmd[c], n)
  BY <1>8, <1>10 DEF Becomes
<1> HIDE DEF n
<1> QED  BY <1>2, <1>5, <1>7, <1>11, OneWorks DEF IInv, Typed, AttachmentsShared

-----------------------------------------------------------------------------
(* The actions of the handlers.                                            *)

\* The tabs stay Tether's own, and so do those it ever had.
Kept == Grouped' /\ given \subseteq given'

\* A group that is looked for has only tabs of Tether.
LEMMA LooksKept ==
  ASSUME IInv, Looks \/ UNCHANGED <<groupId, groupTabs>>, UNCHANGED <<group, named, active, given>>
  PROVE  Kept /\ groupTabs' \subseteq Tabs
<1>1. Grouped
  BY DEF IInv
<1>2. CASE UNCHANGED <<groupId, groupTabs>>
  BY <1>1, <1>2 DEF Grouped, Kept
<1>3. CASE Looks /\ Found # {}
  <2>1. PICK g \in Found : groupId' = g /\ groupTabs' = Members(g)
    BY <1>3 DEF Looks
  <2>2. g \in Groups
    BY <1>1, <2>1 DEF Found, LiveGroups, Grouped
  <2> QED  BY <1>1, <2>1, <2>2 DEF Members, Grouped, Kept
<1>4. CASE Looks /\ ~(Found # {})
  BY <1>1, <1>4 DEF Looks, Grouped, Kept
<1> QED  BY <1>2, <1>3, <1>4

LEMMA CheckedWorks ==
  ASSUME IInv, NEW c \in Commands, Checked(c)
  PROVE  Works /\ Kept
<1> DEFINE k == [cmd[c] EXCEPT !.tab = resolveTargetTabId(cmd[c].param)]
<1>1. /\ cmd[c].at = "checks" /\ attaching' = attaching /\ UNCHANGED <<group, named, active, given>>
      /\ Looks \/ UNCHANGED <<groupId, groupTabs>>
  BY DEF Checked, chrome
<1>2. Kept /\ groupTabs' \subseteq Tabs
  BY <1>1, LooksKept
<1>3. Formed(cmd[c]) /\ cmd[c] \in Requests
  BY DEF IInv, Typed, AgentTyped, Formed
<1>4. resolveTargetTabId(cmd[c].param) \in Tabs \cup {None}
  BY <1>1, <1>3 DEF resolveTargetTabId, IInv, Grouped, Requests
<1>5. /\ k \in Requests /\ k.todo = cmd[c].todo /\ k.held = cmd[c].held /\ k.last = cmd[c].last
      /\ k.todo \in Seq(Steps) /\ k.todo # <<>>
  BY <1>1, <1>3, <1>4 DEF Requests, Formed
<1>6. PICK inGroup \in BOOLEAN :
        cmd' = [cmd EXCEPT ![c] = IF inGroup /\ link = "on" /\ (k.tab # None \/ Op(k) = "list")
                                    THEN Goes(k, k.todo) ELSE Idle]
  <2> DEFINE inGroup == cmd[c].tab = None \/ group[cmd[c].tab] = groupId'
  <2>1. cmd' = [cmd EXCEPT ![c] = IF inGroup /\ link = "on" /\ (k.tab # None \/ Op(k) = "list")
                                    THEN Goes(k, k.todo) ELSE Idle]
    BY DEF Checked
  <2>2. inGroup \in BOOLEAN
    OBVIOUS
  <2> HIDE DEF inGroup, k
  <2> QED  BY <2>1, <2>2
<1>7. Becomes(cmd[c], Idle)
  BY IdleFormed DEF Becomes
<1>8. ASSUME k.tab # None \/ Op(k) = "list" PROVE Becomes(cmd[c], Goes(k, k.todo))
  <2>1. HasTab(k.tab, k.todo)
    <3>1. CASE k.tab # None
      BY <1>5, <3>1 DEF HasTab, Requests
    <3>2. CASE Op(k) = "list"
      <4>1. Len(k.todo) = 1 /\ k.todo[1][1] = "list"
        BY <1>1, <1>3, <1>5, <3>2 DEF Formed, Op
      <4> HIDE DEF k
      <4> QED  BY <4>1 DEF HasTab
    <3> QED  BY <1>8, <3>1, <3>2
  <2> HIDE DEF k
  <2>2. Follows(k, Goes(k, k.todo))
    BY <1>2, <1>5, <2>1, GoesFollows
  <2>3. Follows(cmd[c], Goes(k, k.todo))
    BY <1>5, <2>2 DEF Follows
  <2> QED  BY <2>3, FollowsBecomes
<1> HIDE DEF k
<1>9. Works
  BY <1>1, <1>6, <1>7, <1>8, OneWorks DEF IInv, Typed, AttachmentsShared
<1> QED  BY <1>2, <1>9

LEMMA LookWorks ==
  ASSUME IInv, NEW c \in Commands, Look(c)
  PROVE  Works /\ Kept
<1>1. /\ cmd[c].at = "run" /\ Op(cmd[c]) \in {"look", "live", "ensure"}
      /\ attaching' = attaching /\ UNCHANGED <<group, named, active, given>>
      /\ Looks \/ UNCHANGED <<groupId, groupTabs>>
  BY DEF Look, getLiveTabs, chrome
<1>2. Kept /\ groupTabs' \subseteq Tabs
  BY <1>1, LooksKept
<1>3. Formed(cmd[c]) /\ AgentTyped /\ WaitersAwaited
  BY DEF IInv, Typed, AgentTyped, AttachmentsShared
<1>4. CASE Found # {} \/ Op(cmd[c]) # "ensure"
  BY <1>1, <1>2, <1>3, <1>4, ContinueWorks DEF Look
<1>5. CASE ~(Found # {} \/ Op(cmd[c]) # "ensure")
  <2> DEFINE k == cmd[c]
  <2> DEFINE make == MakesGroup(k, "tab", Tail(k.todo))
  <2>1. cmd' = [cmd EXCEPT ![c] = IF link # "on" THEN Idle ELSE make]
    BY <1>5 DEF Look
  <2>2. Becomes(k, Idle)
    BY IdleFormed DEF Becomes
  <2>3. k \in Requests /\ k.todo \in Seq(Steps) /\ k.todo # <<>> /\ HasTab(k.tab, k.todo)
    BY <1>1, <1>3 DEF Formed, Requests
  <2>4. Tail(k.todo) \in Seq(Steps) /\ HasTab(k.tab, Tail(k.todo))
    BY <1>1, <2>3, HeadTailProperties, HasTabTail DEF Op
  <2>5. Becomes(k, make)
    BY <1>1, <2>3, <2>4, MakesGroupFollows, FollowsBecomes
  <2> HIDE DEF make
  <2>6. Becomes(k, IF link # "on" THEN Idle ELSE make)
    BY <2>2, <2>5
  <2>7. Works
    BY <1>1, <1>3, <2>1, <2>6, OneWorks
  <2> QED  BY <1>2, <2>7
<1> QED  BY <1>2, <1>4, <1>5

\* What the steps of a request start from.
LEMMA Begins ==
  ASSUME IInv, NEW c \in Commands
  PROVE  /\ AgentTyped /\ WaitersAwaited /\ Grouped
         /\ Formed(cmd[c]) /\ cmd[c] \in Requests
         /\ cmd[c].held \in {None} \cup given
BY DEF IInv, Typed, AgentTyped, AttachmentsShared, Formed, Held

LEMMA Parts ==
  ASSUME IInv
  PROVE  AgentTyped /\ WaitersAwaited /\ Grouped
BY DEF IInv, Typed, AttachmentsShared

LEMMA StillKept ==
  ASSUME Grouped, UNCHANGED <<group, named, groupId, groupTabs, active, given>>
  PROVE  Kept /\ groupTabs' \subseteq Tabs
BY DEF Kept, Grouped

LEMMA CreateWorks ==
  ASSUME IInv, NEW c \in Commands, Create(c)
  PROVE  Works /\ Kept
<1>1. /\ cmd[c].at = "run" /\ Op(cmd[c]) = "create" /\ attaching' = attaching
      /\ UNCHANGED <<named, groupId, groupTabs, active>>
  BY DEF Create, worker
<1>2. CASE UNCHANGED <<group, given>> /\ GroupFails(c)
  BY <1>1, <1>2, Begins, StillKept, GroupFailsWorks
<1>3. ASSUME NEW t \in Tabs,
             group' = [group EXCEPT ![t] = "none"], given' = given \cup {t},
             cmd' = [cmd EXCEPT ![c] = Goes([@ EXCEPT !.held = t], Tail(@.todo))]
      PROVE  Works /\ Kept
  <2> DEFINE k == [cmd[c] EXCEPT !.held = t]
  <2>1. Kept /\ groupTabs' \subseteq Tabs
    BY <1>1, <1>3, Begins, GroupsAssumption DEF Kept, Grouped
  <2>2. /\ k \in Requests /\ k.todo = cmd[c].todo /\ k.tab = cmd[c].tab /\ k.last = cmd[c].last
        /\ k.todo \in Seq(Steps) /\ k.todo # <<>> /\ HasTab(k.tab, k.todo) /\ k.held = t
    BY <1>1, Begins DEF Requests, Formed
  <2>3. Tail(k.todo) \in Seq(Steps) /\ HasTab(k.tab, Tail(k.todo))
    BY <1>1, <2>2, HeadTailProperties, HasTabTail DEF Op
  <2>4. cmd' = [cmd EXCEPT ![c] = Goes(k, Tail(k.todo))]
    BY <1>3, <2>2
  <2> HIDE DEF k
  <2>5. Follows(k, Goes(k, Tail(k.todo)))
    BY <2>1, <2>2, <2>3, GoesFollows
  <2>6. Becomes(cmd[c], Goes(k, Tail(k.todo)))
    BY <1>3, <2>2, <2>5 DEF Follows, Becomes
  <2> QED  BY <1>1, <2>1, <2>4, <2>6, Begins, OneWorks
<1> QED  BY <1>2, <1>3 DEF Create

LEMMA GroupWorks ==
  ASSUME IInv, NEW c \in Commands, Group(c)
  PROVE  Works /\ Kept
<1> DEFINE t == cmd[c].held
<1> DEFINE to == IF Op(cmd[c]) = "group" THEN Groups \ LiveGroups ELSE LiveGroups \cap {groupId}
<1>1. /\ cmd[c].at = "run" /\ Op(cmd[c]) \in {"group", "join"} /\ attaching' = attaching
      /\ UNCHANGED <<named, groupId, given>> /\ to \subseteq Groups
  BY DEF Group, LiveGroups
<1>2. CASE UNCHANGED <<group, groupTabs, active>> /\ GroupFails(c)
  BY <1>1, <1>2, Begins, StillKept, GroupFailsWorks
<1>3. ASSUME t \in Alive, NEW g \in to, group' = [group EXCEPT ![t] = g],
             groupTabs' \in {groupTabs, groupTabs \cup {t}}, active' \in {active, t}
      PROVE  Kept /\ groupTabs' \subseteq Tabs /\ t \in Tabs
  <2>1. t \in Tabs /\ t \in given
    BY <1>3, Begins, NoneAssumption DEF Alive
  <2> HIDE DEF t, to
  <2> QED  BY <1>1, <1>3, <2>1, Begins DEF Kept, Grouped
<1>4. CASE /\ t \in Alive /\ \E g \in to : group' = [group EXCEPT ![t] = g]
           /\ Op(cmd[c]) = "join"
           /\ groupTabs' = groupTabs \cup {t} /\ active' = t
           /\ cmd' = [cmd EXCEPT ![c] = Goes([@ EXCEPT !.tab = t], Tail(@.todo))]
  <2> DEFINE k == [cmd[c] EXCEPT !.tab = t]
  <2>1. Kept /\ groupTabs' \subseteq Tabs /\ t \in Tabs
    BY <1>3, <1>4
  <2>2. /\ k \in Requests /\ k.todo = cmd[c].todo /\ k.held = cmd[c].held
        /\ k.last = cmd[c].last /\ k.tab \in Tabs
    BY <2>1, Begins DEF Requests
  <2>3. cmd' = [cmd EXCEPT ![c] = Goes(k, Tail(cmd[c].todo))]
    BY <1>4
  <2> HIDE DEF k
  <2>4. Becomes(cmd[c], Goes(k, Tail(cmd[c].todo)))
    BY <1>1, <2>1, <2>2, Begins, RestFollows, FollowsBecomes
  <2> QED  BY <1>1, <2>1, <2>3, <2>4, Begins, OneWorks
<1>5. CASE /\ t \in Alive /\ \E g \in to : group' = [group EXCEPT ![t] = g]
           /\ Op(cmd[c]) # "join" /\ UNCHANGED <<groupTabs, active>> /\ Continue(c)
  <2>1. Kept /\ groupTabs' \subseteq Tabs
    BY <1>3, <1>5
  <2> QED  BY <1>1, <1>5, <2>1, Begins, ContinueWorks
<1> QED  BY <1>2, <1>4, <1>5 DEF Group

LEMMA TitleWorks ==
  ASSUME IInv, NEW c \in Commands, Title(c)
  PROVE  Works /\ Kept
<1> DEFINE t == cmd[c].held
<1>1. /\ cmd[c].at = "run" /\ Op(cmd[c]) = "title" /\ attaching' = attaching
      /\ UNCHANGED <<group, given>>
  BY DEF Title
<1>2. CASE t \in Alive /\ group[t] \in Groups
  <2>1. /\ named' = named \cup {group[t]}
        /\ groupId' = group[t] /\ groupTabs' = {t} /\ active' = t /\ Continue(c)
    BY <1>2 DEF Title
  <2>2. t \in Tabs /\ t \in given
    BY <1>2, Begins, NoneAssumption DEF Alive
  <2>3. Kept /\ groupTabs' \subseteq Tabs
    BY <1>1, <1>2, <2>1, <2>2, Begins DEF Kept, Grouped
  <2> QED  BY <1>1, <2>1, <2>3, Begins, ContinueWorks
<1>3. CASE ~(t \in Alive /\ group[t] \in Groups)
  BY <1>1, <1>3, Begins, StillKept, GroupFailsWorks DEF Title, worker
<1> QED  BY <1>2, <1>3

LEMMA AwaitWorks ==
  ASSUME IInv, NEW c \in Commands, Await(c)
  PROVE  Works /\ Kept
<1> DEFINE t == IF cmd[c].tab = None THEN cmd[c].param ELSE cmd[c].tab
<1> DEFINE u == IF t \in Alive THEN page[t] + 1 ELSE 0
<1>1. /\ cmd[c].at = "run" /\ Op(cmd[c]) \in {"get", "navigate", "pause"}
      /\ UNCHANGED <<group, named, groupId, groupTabs, active, given, attaching>>
  BY DEF Await, chrome, worker
<1>2. Kept /\ groupTabs' \subseteq Tabs
  BY <1>1, Begins, StillKept
<1>3. CASE Continue(c) \/ FailStep(c)
  BY <1>1, <1>2, <1>3, Begins, ContinueWorks, FailWorks
<1>4. CASE cmd' = [cmd EXCEPT ![c] = Goes([@ EXCEPT !.url = u], Tail(@.todo))]
  <2> DEFINE k == [cmd[c] EXCEPT !.url = u]
  <2>1. u \in Nat
    BY DEF Alive, IInv, Typed, ChromeTyped
  <2> HIDE DEF u
  <2>2. /\ k \in Requests /\ k.todo = cmd[c].todo /\ k.held = cmd[c].held
        /\ k.last = cmd[c].last /\ k.tab = cmd[c].tab
    BY <2>1, Begins DEF Requests
  <2>3. cmd' = [cmd EXCEPT ![c] = Goes(k, Tail(cmd[c].todo))]
    BY <1>4
  <2> HIDE DEF k
  <2>4. Becomes(cmd[c], Goes(k, Tail(cmd[c].todo)))
    BY <1>1, <1>2, <2>2, Begins, RestFollows, FollowsBecomes
  <2> QED  BY <1>1, <1>2, <2>3, <2>4, Begins, OneWorks
<1> QED  BY <1>1, <1>3, <1>4 DEF Await

LEMMA SwitchTabWorks ==
  ASSUME IInv, NEW c \in Commands, SwitchTab(c)
  PROVE  Works /\ Kept
<1> DEFINE t == cmd[c].param
<1>1. /\ cmd[c].at = "run" /\ Op(cmd[c]) = "switch" /\ attaching' = attaching
      /\ UNCHANGED <<named, groupId>>
  BY DEF SwitchTab
<1>2. CASE t \in Alive /\ t \in web /\ link = "on"
  <2> DEFINE k == [cmd[c] EXCEPT !.tab = t]
  <2>1. t \in Tabs
    BY <1>2 DEF Alive
  <2>2. /\ active' = t /\ given' = given \cup {t}
        /\ \/ UNCHANGED <<group, groupTabs>>
           \/ /\ groupId \in LiveGroups
              /\ group' = [group EXCEPT ![t] = groupId] /\ groupTabs' = groupTabs \cup {t}
        /\ cmd' = [cmd EXCEPT ![c] = Goes(k, Tail(cmd[c].todo))]
    BY <1>2 DEF SwitchTab
  <2>3. Kept /\ groupTabs' \subseteq Tabs
    <3> HIDE DEF t, k
    <3>1. CASE UNCHANGED <<group, groupTabs>>
      BY <1>1, <2>1, <2>2, <3>1, Begins DEF Kept, Grouped
    <3>2. CASE groupId \in LiveGroups /\ group' = [group EXCEPT ![t] = groupId]
               /\ groupTabs' = groupTabs \cup {t}
      BY <1>1, <2>1, <2>2, <3>2, Begins DEF Kept, Grouped, LiveGroups
    <3> QED  BY <2>2, <3>1, <3>2
  <2>4. /\ k \in Requests /\ k.todo = cmd[c].todo /\ k.held = cmd[c].held
        /\ k.last = cmd[c].last /\ k.tab \in Tabs
    BY <2>1, Begins DEF Requests
  <2> HIDE DEF k
  <2>5. Becomes(cmd[c], Goes(k, Tail(cmd[c].todo)))
    BY <1>1, <2>3, <2>4, Begins, RestFollows, FollowsBecomes
  <2> QED  BY <1>1, <2>2, <2>3, <2>5, Begins, OneWorks
<1>3. CASE ~(t \in Alive /\ t \in web /\ link = "on")
  <2>1. UNCHANGED <<group, groupTabs, active, given>> /\ FailStep(c)
    BY <1>3 DEF SwitchTab
  <2> QED  BY <1>1, <2>1, Begins, StillKept, FailWorks
<1> QED  BY <1>2, <1>3

LEMMA RemovalsTyped ==
  ASSUME NEW S \in SUBSET Tabs, NEW tab
  PROVE  LET live == SetToSeq(S)
             s == [i \in DOMAIN live |-> <<"remove", live[i]>>]
         IN  s \in Seq(Steps) /\ HasTab(tab, s)
<1> DEFINE live == SetToSeq(S)
<1> DEFINE s == [i \in DOMAIN live |-> <<"remove", live[i]>>]
<1>1. IsFiniteSet(S)
  BY TabsAssumption, FS_Subset
<1>2. Cardinality(S) \in Nat /\ ExistsBijection(1 .. Cardinality(S), S)
  BY <1>1, FS_CardinalityType
<1>3. \E f \in [1 .. Cardinality(S) -> S] : IsInjective(f)
  BY <1>2 DEF ExistsBijection, Bijection, Injection, IsInjective
<1>4. live \in [1 .. Cardinality(S) -> S]
  BY <1>3 DEF SetToSeq
<1> HIDE DEF live
<1>5. \A t \in Tabs : <<"remove", t>> \in Steps
  BY DEF Steps, Ops
<1> DEFINE n == Cardinality(S)
<1>6. s \in [1 .. n -> Steps]
  BY <1>4, <1>5
<1>7. \A i \in 1 .. n : s[i][1] # "attach"
  BY <1>4
<1> HIDE DEF s, n
<1>8. n \in Nat
  BY <1>2 DEF n
<1>9. s \in Seq(Steps)
  <2>1. s \in UNION {[1 .. j -> Steps] : j \in Nat}
    BY <1>6, <1>8
  <2> QED  BY <2>1, SeqDef
<1>10. Len(s) = n
  BY <1>6, <1>8, <1>9, LenProperties
<1>11. HasTab(tab, s)
  BY <1>7, <1>10 DEF HasTab
<1> QED  BY <1>9, <1>11 DEF s, live

LEMMA RemoveTabsWorks ==
  ASSUME IInv, NEW c \in Commands, RemoveTabs(c)
  PROVE  Works /\ Kept
<1> DEFINE k == cmd[c]
<1>1. /\ k.at = "run" /\ Op(k) \in {"remove", "list"} /\ attaching' = attaching
      /\ UNCHANGED <<named, active, given>>
  BY DEF RemoveTabs
<1>2. CASE Op(k) = "list"
  <2> DEFINE S == IF groupId' = None THEN {} ELSE Members(groupId')
  <2> DEFINE live == SetToSeq(S)
  <2> DEFINE s == [i \in DOMAIN live |-> <<"remove", live[i]>>]
  <2>1. /\ Looks \/ UNCHANGED <<groupId, groupTabs>>
        /\ group' = group
        /\ cmd' = [cmd EXCEPT ![c] = Goes(k, s)]
    BY <1>2 DEF RemoveTabs, getLiveTabs
  <2>2. Kept /\ groupTabs' \subseteq Tabs
    BY <1>1, <2>1, LooksKept
  <2>3. S \in SUBSET Tabs
    BY DEF Members
  <2> HIDE DEF S, k
  <2>4. s \in Seq(Steps) /\ HasTab(k.tab, s)
    BY <2>3, RemovalsTyped
  <2> HIDE DEF s
  <2>5. Becomes(cmd[c], Goes(k, s))
    BY <2>2, <2>4, Begins, GoesFollows, FollowsBecomes DEF k
  <2> QED  BY <1>1, <2>1, <2>2, <2>5, Begins, OneWorks
<1>3. CASE Op(k) # "list" /\ link # "on"
  <2>1. UNCHANGED <<group, groupId, groupTabs>> /\ FailStep(c)
    BY <1>3 DEF RemoveTabs
  <2> QED  BY <1>1, <2>1, Begins, StillKept, FailWorks
<1>4. CASE Op(k) # "list" /\ link = "on"
  <2> DEFINE t == IF k.todo[1][2] = "" THEN k.tab ELSE k.todo[1][2]
  <2>1. /\ UNCHANGED <<groupId, groupTabs>> /\ Closes({t} \cap Alive)
        /\ cmd' = [d \in Commands |->
                     IF d = c THEN Goes(k, Tail(k.todo))
                     ELSE IF cmd[d].at = "sent" /\ cmd[d].tab = t THEN Fails(cmd[d])
                     ELSE cmd[d]]
    BY <1>4 DEF RemoveTabs
  <2> HIDE DEF t, k
  <2>2. Kept /\ groupTabs' \subseteq Tabs
    BY <1>1, <2>1, Begins, GroupsAssumption DEF Closes, Kept, Grouped
  <2>3. Becomes(k, Goes(k, Tail(k.todo)))
    BY <1>1, <2>2, Begins, RestFollows, FollowsBecomes DEF k
  <2>4. ASSUME NEW d \in Commands PROVE Becomes(cmd[d], cmd'[d])
    <3>1. CASE d = c
      BY <2>1, <2>3, <3>1 DEF k
    <3>2. CASE d # c /\ cmd[d].at = "sent" /\ cmd[d].tab = t
      BY <2>1, <2>2, <3>2, Begins, FailsFollows, FollowsBecomes
    <3>3. CASE d # c /\ ~(cmd[d].at = "sent" /\ cmd[d].tab = t)
      <4>1. cmd'[d] = cmd[d]
        BY <2>1, <3>3
      <4> QED  BY <1>1, <4>1, Begins DEF Becomes, WaitersAwaited
    <3> QED  BY <3>1, <3>2, <3>3
  <2> QED  BY <2>1, <2>2, <2>4 DEF Works
<1> QED  BY <1>2, <1>3, <1>4

LEMMA ensureAttachedWorks ==
  ASSUME IInv, NEW c \in Commands, ensureAttached(c)
  PROVE  Works /\ Kept /\ cmd[c].tab \in Tabs
<1> DEFINE t == cmd[c].tab
<1>1. /\ cmd[c].at = "run" /\ Op(cmd[c]) = "attach"
      /\ UNCHANGED <<group, named, groupId, groupTabs, active, given>>
  BY DEF ensureAttached, chrome, worker
<1>2. Kept /\ groupTabs' \subseteq Tabs
  BY <1>1, Begins, StillKept
<1>3. t \in Tabs
  <2>1. HasTab(t, cmd[c].todo) /\ cmd[c].todo \in Seq(Steps) /\ cmd[c].todo # <<>>
    BY <1>1, Begins DEF Formed, Requests
  <2>2. 1 \in 1 .. Len(cmd[c].todo)
    BY <2>1, EmptySeq
  <2> QED  BY <1>1, <2>1, <2>2 DEF HasTab, Op
<1>4. CASE attaching' = attaching /\ (Continue(c) \/ FailStep(c))
  BY <1>1, <1>2, <1>3, <1>4, Begins, ContinueWorks, FailWorks
<1>5. CASE /\ attaching' = IF attaching[t] = "no" THEN [attaching EXCEPT ![t] = "check"]
                                                  ELSE attaching
           /\ cmd' = [cmd EXCEPT ![c].at = "attaching"]
  <2> DEFINE n == [cmd[c] EXCEPT !.at = "attaching"]
  <2>1. cmd' = [d \in Commands |-> IF d = c THEN n ELSE cmd[d]]
    BY <1>5, Begins DEF AgentTyped
  <2>2. /\ attaching'[t] # "no"
        /\ \A d \in Commands : cmd[d].at = "attaching" => attaching'[cmd[d].tab] # "no"
    <3>1. attaching \in [Tabs -> {"no", "check", "attach", "focus", "undo"}]
      BY DEF IInv, Typed, WorkerTyped
    <3>2. \A d \in Commands : cmd[d].at = "attaching" => cmd[d].tab \in Tabs
      BY Begins DEF AgentTyped, Formed
    <3> HIDE DEF t
    <3> QED  BY <1>3, <1>5, <3>1, <3>2, Begins DEF WaitersAwaited
  <2>3. n \in Requests /\ Formed(n) /\ n.held = cmd[c].held /\ n.last = cmd[c].last /\ n.tab = t
    BY <1>1, <1>3, Begins DEF Formed, Requests
  <2> HIDE DEF n
  <2>4. ASSUME NEW d \in Commands PROVE Becomes(cmd[d], cmd'[d])
    <3>1. CASE d = c
      BY <2>1, <2>2, <2>3, <3>1 DEF Becomes
    <3>2. CASE d # c
      BY <2>1, <2>2, <3>2, Begins DEF Becomes, AgentTyped
    <3> QED  BY <3>1, <3>2
  <2> QED  BY <1>2, <1>3, <2>1, <2>4 DEF Works
<1> QED  BY <1>3, <1>4, <1>5 DEF ensureAttached

LEMMA cdpWorks ==
  ASSUME IInv, NEW c \in Commands, cdp(c)
  PROVE  Works /\ Kept
<1>1. /\ cmd[c].at = "run" /\ attaching' = attaching
      /\ UNCHANGED <<group, named, groupId, groupTabs, active, given>>
  BY DEF cdp, chrome, worker
<1>2. Kept /\ groupTabs' \subseteq Tabs
  BY <1>1, Begins, StillKept
<1>3. CASE FailStep(c)
  BY <1>1, <1>2, <1>3, Begins, FailWorks
<1>4. CASE cmd[c].tab \in Alive /\ cmd' = [cmd EXCEPT ![c].at = "sent"]
  <2> DEFINE n == [cmd[c] EXCEPT !.at = "sent"]
  <2>1. cmd' = [cmd EXCEPT ![c] = n]
    BY <1>4
  <2>2. n \in Requests /\ Formed(n) /\ n.at = "sent" /\ n.held = cmd[c].held /\ n.last = cmd[c].last
    BY <1>1, <1>4, Begins DEF Formed, Requests, Alive
  <2> HIDE DEF n
  <2>3. Becomes(cmd[c], n)
    BY <2>2 DEF Becomes
  <2> QED  BY <1>1, <1>2, <2>1, <2>3, Begins, OneWorks
<1> QED  BY <1>3, <1>4 DEF cdp

LEMMA AnsweredWorks ==
  ASSUME IInv, NEW c \in Commands, Answered(c)
  PROVE  Works /\ Kept
<1>1. /\ cmd[c].at = "sent" /\ attaching' = attaching
      /\ UNCHANGED <<group, named, groupId, groupTabs, active, given>>
  BY DEF Answered, chrome, worker
<1>2. Kept /\ groupTabs' \subseteq Tabs
  BY <1>1, Begins, StillKept
<1>3. CASE Continue(c)
  <2>1. cmd[c].tab \in Tabs
    BY <1>1, Begins DEF Formed
  <2> QED  BY <1>1, <1>2, <1>3, <2>1, Begins, ContinueWorks
<1>4. CASE cmd' = [cmd EXCEPT ![c] = Idle]
  <2>1. Becomes(cmd[c], Idle)
    BY IdleFormed DEF Becomes
  <2> QED  BY <1>1, <1>2, <1>4, <2>1, Begins, OneWorks
<1> QED  BY <1>3, <1>4 DEF Answered

LEMMA TimedOutWorks ==
  ASSUME IInv, NEW c \in Commands, TimedOut(c)
  PROVE  Works /\ Kept
<1>1. /\ cmd[c].at = "sent" /\ attaching' = attaching /\ FailStep(c)
      /\ UNCHANGED <<group, named, groupId, groupTabs, active, given>>
  BY DEF TimedOut, chrome, worker
<1>2. Kept /\ groupTabs' \subseteq Tabs
  BY <1>1, Begins, StillKept
<1> QED  BY <1>1, <1>2, Begins, FailWorks

LEMMA SnapshotWorks ==
  ASSUME IInv, NEW c \in Commands, Snapshot(c)
  PROVE  Works /\ Kept
<1>1. /\ cmd[c].at = "sent" /\ attaching' = attaching /\ Continue(c)
      /\ UNCHANGED <<group, named, groupId, groupTabs, active, given>>
  BY DEF Snapshot, chrome, worker
<1>2. Kept /\ groupTabs' \subseteq Tabs
  BY <1>1, Begins, StillKept
<1>3. cmd[c].tab \in Tabs
  BY <1>1, Begins DEF Formed
<1> QED  BY <1>1, <1>2, <1>3, Begins, ContinueWorks

\* Those who wait for an attachment that ends go on or fail; the others wait for
\* one that is not over.
LEMMA SettleWorks ==
  ASSUME IInv, NEW t \in Tabs, NEW ok \in BOOLEAN, Settle(t, ok), groupTabs' \subseteq Tabs
  PROVE  Works
<1>1. /\ attaching' = [attaching EXCEPT ![t] = "no"]
      /\ cmd' = [c \in Commands |->
                   IF cmd[c].at = "attaching" /\ cmd[c].tab = t
                     THEN IF ok THEN Goes(cmd[c], Tail(cmd[c].todo)) ELSE Idle
                     ELSE cmd[c]]
  BY DEF Settle
<1>2. ASSUME NEW d \in Commands PROVE Becomes(cmd[d], cmd'[d])
  <2>1. CASE cmd[d].at = "attaching" /\ cmd[d].tab = t
    <3>1. Becomes(cmd[d], Goes(cmd[d], Tail(cmd[d].todo)))
      BY <2>1, Begins, RestFollows, FollowsBecomes
    <3>2. Becomes(cmd[d], Idle)
      BY IdleFormed DEF Becomes
    <3> QED  BY <1>1, <2>1, <3>1, <3>2
  <2>2. CASE ~(cmd[d].at = "attaching" /\ cmd[d].tab = t)
    <3>1. cmd'[d] = cmd[d]
      BY <1>1, <2>2
    <3>2. cmd[d].at = "attaching" => cmd[d].tab \in Tabs /\ attaching[cmd[d].tab] # "no"
      BY Begins DEF Formed, WaitersAwaited
    <3>3. attaching \in [Tabs -> {"no", "check", "attach", "focus", "undo"}]
      BY DEF IInv, Typed, WorkerTyped
    <3>4. cmd[d].at = "attaching" => attaching'[cmd[d].tab] # "no"
      BY <1>1, <2>2, <3>2, <3>3
    <3> QED  BY <3>1, <3>4, Begins DEF Becomes
  <2> QED  BY <2>1, <2>2
<1> QED  BY <1>1, <1>2 DEF Works

LEMMA AttachmentWorks ==
  ASSUME IInv, NEW t \in Tabs, Attachment(t)
  PROVE  Works /\ Kept
<1>1. UNCHANGED <<group, named, groupId, groupTabs, active, given>>
  BY DEF Attachment, worker
<1>2. Kept /\ groupTabs' \subseteq Tabs
  BY <1>1, Parts, StillKept
<1>3. CASE Settle(t, TRUE) \/ Settle(t, FALSE)
  BY <1>2, <1>3, SettleWorks
<1>4. CASE cmd' = cmd /\ \E s \in {"attach", "focus", "undo"} : attaching' = [attaching EXCEPT ![t] = s]
  <2>1. PICK s \in {"attach", "focus", "undo"} : attaching' = [attaching EXCEPT ![t] = s]
    BY <1>4
  <2>2. attaching \in [Tabs -> {"no", "check", "attach", "focus", "undo"}]
    BY DEF IInv, Typed, WorkerTyped
  <2>3. ASSUME NEW d \in Commands PROVE Becomes(cmd[d], cmd'[d])
    <3>1. cmd[d].at = "attaching" => cmd[d].tab \in Tabs /\ attaching[cmd[d].tab] # "no"
      BY Begins DEF Formed, WaitersAwaited
    <3>2. cmd[d].at = "attaching" => attaching'[cmd[d].tab] # "no"
      BY <2>1, <2>2, <3>1
    <3> QED  BY <1>4, <3>2, Begins DEF Becomes
  <2> QED  BY <1>2, <1>4, <2>3, Parts DEF Works, AgentTyped
<1> QED  BY <1>2, <1>3, <1>4 DEF Attachment

-----------------------------------------------------------------------------
(* What happens beside the handlers.                                       *)

\* A snapshot of an earlier connection is one still, and fits whatever is held.
LEMMA EarlierTyped ==
  ASSUME NEW L \in Records \cup {None}
  PROVE  Earlier(L) \in Records \cup {None} /\ \A d, s : Fits(Earlier(L), d, s)
<1>1. CASE L = None
  BY <1>1 DEF Earlier, Fits
<1>2. CASE L \in Records /\ L # None
  <2>1. Earlier(L) = [L EXCEPT !.current = FALSE]
    BY <1>2 DEF Earlier
  <2>2. Earlier(L) \in Records /\ Earlier(L).current = FALSE
    BY <1>2, <2>1 DEF Records
  <2> QED  BY <2>2 DEF Fits
<1> QED  BY <1>1, <1>2

LEMMA DetachedWorks ==
  ASSUME IInv, Detached
  PROVE  Works /\ Kept
<1>1. /\ UNCHANGED <<group, named, groupId, groupTabs, active, given, attaching>>
      /\ \A t \in Tabs : attaching[t] = "no"
      /\ cmd' = [c \in Commands |->
                   [(IF cmd[c].at = "sent" /\ cmd[c].tab \in Sessions THEN Fails(cmd[c]) ELSE cmd[c])
                      EXCEPT !.last = Earlier(@)]]
  BY DEF Detached, RejectAll, worker
<1>2. Kept /\ groupTabs' \subseteq Tabs
  BY <1>1, Parts, StillKept
<1>3. ASSUME NEW d \in Commands PROVE Becomes(cmd[d], cmd'[d])
  <2> DEFINE n == IF cmd[d].at = "sent" /\ cmd[d].tab \in Sessions THEN Fails(cmd[d]) ELSE cmd[d]
  <2>1. Formed(n) /\ n.held \in {None, cmd[d].held} /\ n.last \in {None, cmd[d].last} /\ n.at # "attaching"
    <3>1. CASE cmd[d].at = "sent" /\ cmd[d].tab \in Sessions
      <4>1. Follows(cmd[d], Fails(cmd[d]))
        BY <1>2, <3>1, Begins, FailsFollows
      <4> QED  BY <3>1, <4>1 DEF Follows
    <3>2. CASE ~(cmd[d].at = "sent" /\ cmd[d].tab \in Sessions)
      <4>1. cmd[d].at = "attaching" => cmd[d].tab \in Tabs /\ attaching[cmd[d].tab] # "no"
        BY Begins DEF Formed, WaitersAwaited
      <4> QED  BY <1>1, <3>2, <4>1, Begins
    <3> QED  BY <3>1, <3>2
  <2>2. cmd'[d] = [n EXCEPT !.last = Earlier(n.last)]
    BY <1>1
  <2> HIDE DEF n
  <2>3. n \in Requests /\ n.last \in Records \cup {None}
    BY <2>1 DEF Formed, Requests
  <2>4. Earlier(n.last) \in Records \cup {None}
    BY <2>3, EarlierTyped
  <2>5. /\ Formed(cmd'[d]) /\ cmd'[d].held = n.held /\ cmd'[d].last = Earlier(n.last)
        /\ cmd'[d].at = n.at
    BY <2>1, <2>2, <2>3, <2>4 DEF Formed, Requests
  <2>6. Earlier(n.last) \in {None, Earlier(cmd[d].last)}
    BY <2>1 DEF Earlier
  <2> QED  BY <2>1, <2>5, <2>6 DEF Becomes
<1> QED  BY <1>1, <1>2, <1>3 DEF Works

\* After a Disconnect every request compares with an earlier connection's snapshot.
LEMMA DetachedForgets ==
  ASSUME IInv, Detached, NEW c \in Commands
  PROVE  \A d, s : Fits(cmd'[c].last, d, s)
<1> DEFINE n == IF cmd[c].at = "sent" /\ cmd[c].tab \in Sessions THEN Fails(cmd[c]) ELSE cmd[c]
<1>1. n \in Requests
  <2>1. CASE cmd[c].at = "sent" /\ cmd[c].tab \in Sessions
    <3>1. groupTabs' \subseteq Tabs
      BY Parts DEF Detached, worker, Grouped
    <3>2. Follows(cmd[c], Fails(cmd[c]))
      BY <2>1, <3>1, Begins, FailsFollows
    <3> QED  BY <2>1, <3>2 DEF Follows, Formed
  <2>2. CASE ~(cmd[c].at = "sent" /\ cmd[c].tab \in Sessions)
    BY <2>2, Begins
  <2> QED  BY <2>1, <2>2
<1>2. cmd'[c] = [n EXCEPT !.last = Earlier(n.last)]
  BY DEF Detached, RejectAll
<1> HIDE DEF n
<1>3. cmd'[c].last = Earlier(n.last) /\ n.last \in Records \cup {None}
  BY <1>1, <1>2 DEF Requests
<1> QED  BY <1>3, EarlierTyped

LEMMA UserDetachesWorks ==
  ASSUME IInv, NEW t \in Tabs, UserDetaches(t)
  PROVE  Works /\ Kept
<1>1. /\ UNCHANGED <<group, named, groupId, groupTabs, active, given, attaching>>
      /\ Reject({t})
  BY DEF UserDetaches, worker
<1>2. Kept /\ groupTabs' \subseteq Tabs
  BY <1>1, Parts, StillKept
<1> QED  BY <1>1, <1>2, Parts, RejectWorks

LEMMA UserClosesWorks ==
  ASSUME IInv, NEW t \in Tabs, UserCloses(t)
  PROVE  Works /\ Kept
<1>1. /\ UNCHANGED <<named, groupId, groupTabs, active, given, attaching>>
      /\ Reject({t}) /\ group' = [u \in Tabs |-> IF u \in {t} THEN "closed" ELSE group[u]]
  BY DEF UserCloses, Closes, worker
<1>2. Kept /\ groupTabs' \subseteq Tabs
  BY <1>1, Parts, GroupsAssumption DEF Kept, Grouped
<1> QED  BY <1>1, <1>2, Parts, RejectWorks

LEMMA UserDragsWorks ==
  ASSUME IInv, NEW t \in Tabs, UserDrags(t)
  PROVE  Works /\ Kept
<1>1. PICK g \in (named \cap LiveGroups) \cup {"none"} :
        /\ group' = [group EXCEPT ![t] = g]
        /\ given' = IF g = "none" THEN given ELSE given \cup {t}
  BY DEF UserDrags
<1>2. UNCHANGED <<named, groupId, groupTabs, active, attaching, cmd>>
  BY DEF UserDrags, worker
<1>3. Kept
  BY <1>1, <1>2, Parts, GroupsAssumption DEF Kept, Grouped, LiveGroups
<1> QED  BY <1>2, <1>3, Parts, NoneWorks

LEMMA PageOpensWorks ==
  ASSUME IInv, NEW t \in Tabs, NEW o \in Tabs, PageOpens(t, o)
  PROVE  Works /\ Kept
<1>1. /\ UNCHANGED <<named, groupId, groupTabs, active, given, attaching, cmd>>
      /\ group' = [group EXCEPT ![t] = "none"]
  BY DEF PageOpens, worker
<1>2. Kept
  BY <1>1, Parts, GroupsAssumption DEF Kept, Grouped
<1> QED  BY <1>1, <1>2, Parts, NoneWorks

\* The page of one tab, the user's other moves and a Disconnect leave requests and
\* groups alone.
Elsewhere(t) == Navigate(t) \/ ChangesAddress(t) \/ Redraw(t) \/ UserActivates(t)

LEMMA ElsewhereWorks ==
  ASSUME IInv, Disconnect \/ Connect \/ \E t \in Tabs : Elsewhere(t)
  PROVE  Works /\ Kept
<1>1. UNCHANGED <<group, named, groupId, groupTabs, active, given, attaching, cmd>>
  BY DEF Disconnect, Connect, Elsewhere, Navigate, ChangesAddress, Redraw, UserActivates, chrome,
     worker
<1> QED  BY <1>1, Parts, StillKept, NoneWorks

\* What the worker learns of a tab that was looked at or made.
Learns(t) == onActivated(t) \/ LookedAt(t) \/ onCreated(t) \/ Joined(t)

LEMMA LearnsLeaves ==
  ASSUME NEW t, Learns(t)
  PROVE  /\ UNCHANGED <<debugging, attached, refs, snaps, seen, cmd>>
         /\ ~IsUpdate(Head(events[t]))
<1>1. CASE onActivated(t)
  BY <1>1 DEF onActivated, maps, IsUpdate
<1>2. CASE LookedAt(t)
  BY <1>2 DEF LookedAt, maps, IsUpdate
<1>3. CASE onCreated(t)
  BY <1>3 DEF onCreated, maps, IsUpdate
<1>4. CASE Joined(t)
  BY <1>4 DEF Joined, maps, IsUpdate
<1> QED  BY <1>1, <1>2, <1>3, <1>4 DEF Learns

\* The first event of a tab is taken, and Chrome's answer may follow the others.
LEMMA DeliverEvents ==
  ASSUME IInv, NEW t \in Tabs, Deliver(t)
  PROVE  /\ events[t] # <<>> /\ Tail(events[t]) \in Seq(Events)
         /\ \/ events' = [events EXCEPT ![t] = Tail(@)]
            \/ \E e \in Replies :
                  /\ events' = [events EXCEPT ![t] = Append(Tail(@), e)]
                  /\ Admits(given', t, e)
<1>1. events[t] # <<>> /\ Tail(events[t]) \in Seq(Events)
  BY HeadTailProperties DEF Deliver, IInv, Typed, ChromeTyped
<1>2. CASE Taken(t)
  BY <1>1, <1>2 DEF Taken
<1>3. CASE onActivated(t) /\ Answer(t, <<"looked", group[t]>>)
  <2>1. group[t] \in Groups \cup {"none", "unborn", "closed"} /\ (group[t] \in Groups => t \in given)
    BY DEF IInv, Grouped
  <2>2. given' = given
    BY <1>3 DEF onActivated
  <2>3. <<"looked", group[t]>> \in Replies
    BY <2>1 DEF Replies
  <2> DEFINE e == <<"looked", group[t]>>
  <2>4. e[1] = "looked" /\ e[2] = group[t] /\ events' = [events EXCEPT ![t] = Append(Tail(@), e)]
    BY <1>3 DEF Answer
  <2> HIDE DEF e
  <2>5. Admits(given', t, e)
    BY <2>1, <2>2, <2>4 DEF Admits
  <2>6. e \in Replies
    BY <2>3 DEF e
  <2> QED  BY <1>1, <2>4, <2>5, <2>6
<1>4. CASE onCreated(t) /\ Answer(t, <<"joined", None>>)
  <2> DEFINE e == <<"joined", None>>
  <2>1. e \in Replies /\ events' = [events EXCEPT ![t] = Append(Tail(@), e)]
    BY <1>4 DEF Answer, Replies
  <2>2. t \in given'
    <3>1. Taken(t) \/ Head(events[t])[2] \in groupTabs
      BY <1>4 DEF onCreated
    <3>2. ~Taken(t)
      <4>1. Append(Tail(events[t]), e) # Tail(events[t])
        BY <1>1, AppendProperties, LenProperties
      <4>2. events'[t] = Append(Tail(events[t]), e)
        BY <2>1 DEF IInv, Typed, ChromeTyped
      <4> QED  BY <4>1, <4>2 DEF Taken, IInv, Typed, ChromeTyped
    <3>3. groupTabs \subseteq given
      BY DEF IInv, Grouped
    <3> QED  BY <1>4, <3>1, <3>2, <3>3 DEF onCreated
  <2>3. Admits(given', t, e)
    BY <2>2 DEF Admits
  <2> QED  BY <1>1, <2>1, <2>3
<1> QED  BY <1>2, <1>3, <1>4 DEF Deliver, onActivated, onCreated, LookedAt, Joined

LEMMA DeliverWorks ==
  ASSUME IInv, NEW t \in Tabs, Deliver(t)
  PROVE  Works /\ Kept
<1>1. named' = named /\ attaching' = attaching /\ link' = link
  BY DEF Deliver
<1>2. Joins(t) => t \in given
  BY Parts DEF Joins, Grouped
<1>3. CASE onUpdated(t)
  <2>1. /\ UNCHANGED <<group, groupId, active, given>> /\ Reject(debugging \ debugging')
        /\ \/ groupTabs' = groupTabs \ {t}
           \/ groupTabs' = groupTabs
           \/ Joins(t) /\ groupTabs' = groupTabs \cup {t}
    BY <1>3 DEF onUpdated
  <2>2. Kept /\ groupTabs' \subseteq Tabs
    BY <1>1, <1>2, <2>1, Parts DEF Kept, Grouped
  <2> QED  BY <1>1, <2>1, <2>2, Parts, RejectWorks
<1>4. CASE onDetach(t)
  <2>1. UNCHANGED <<group, groupId, groupTabs, active, given, cmd>>
    BY <1>4 DEF onDetach, worker
  <2> QED  BY <1>1, <2>1, Parts, StillKept, NoneWorks
<1>5. CASE onActivated(t)
  <2>1. UNCHANGED <<group, groupId, groupTabs, active, given, cmd>>
    BY <1>5 DEF onActivated, worker
  <2> QED  BY <1>1, <2>1, Parts, StillKept, NoneWorks
<1>6. Admits(given, t, Head(events[t]))
  <2>1. events[t] # <<>> /\ events[t] \in Seq(Events)
    BY DEF Deliver, IInv, Typed, ChromeTyped
  <2>2. Head(events[t]) = events[t][1] /\ 1 \in 1 .. Len(events[t])
    BY <2>1, HeadTailProperties, LenProperties, EmptySeq
  <2> QED  BY <2>2 DEF IInv, Admitted
<1>7. CASE LookedAt(t) \/ Joined(t)
  <2>1. /\ UNCHANGED <<group, groupId, given, cmd>>
        /\ \/ UNCHANGED <<active, groupTabs>>
           \/ Adopts(t) /\ t \in given
    <3>1. CASE LookedAt(t)
      <4>1. groupId \in Groups \cup {None}
        BY DEF IInv, Grouped
      <4> QED  BY <1>6, <3>1, <4>1 DEF LookedAt, Admits
    <3>2. CASE Joined(t)
      BY <1>6, <3>2 DEF Joined, Admits
    <3> QED  BY <1>7, <3>1, <3>2
  <2>2. Kept
    BY <1>1, <2>1, Parts DEF Kept, Grouped, Adopts
  <2> QED  BY <1>1, <2>1, <2>2, Parts, NoneWorks
<1>8. CASE onCreated(t)
  <2> DEFINE opener == Head(events[t])[2]
  <2>1. /\ UNCHANGED <<groupId, cmd>>
        /\ given' = IF opener \in given THEN given \cup {t} ELSE given
        /\ \/ UNCHANGED <<group, groupTabs, active>>
           \/ opener \in groupTabs /\ Adopts(t) /\ group' = group
           \/ /\ opener \in groupTabs /\ UNCHANGED <<groupTabs, active>>
              /\ groupId \in LiveGroups /\ group' = [group EXCEPT ![t] = groupId]
    BY <1>8 DEF onCreated
  <2> HIDE DEF opener
  <2>2. given' \in {given, given \cup {t}} /\ groupId' = groupId
    BY <2>1
  <2>3. ASSUME UNCHANGED <<group, groupTabs, active>> PROVE Kept
    <3>1. CASE given' = given
      BY <1>1, <2>2, <2>3, <3>1, Parts, StillKept
    <3>2. CASE given' = given \cup {t}
      BY <1>1, <2>2, <2>3, <3>2, Parts DEF Kept, Grouped
    <3> QED  BY <2>2, <3>1, <3>2
  <2>4. ASSUME opener \in groupTabs PROVE given' = given \cup {t}
    BY <2>1, <2>4, Parts DEF Grouped
  <2>5. ASSUME opener \in groupTabs, Adopts(t), group' = group PROVE Kept
    BY <1>1, <2>2, <2>4, <2>5, Parts DEF Kept, Grouped, Adopts
  <2>6. ASSUME opener \in groupTabs, UNCHANGED <<groupTabs, active>>, groupId \in LiveGroups,
               group' = [group EXCEPT ![t] = groupId]
        PROVE  Kept
    BY <1>1, <2>2, <2>4, <2>6, Parts DEF Kept, Grouped, LiveGroups
  <2>7. Kept
    BY <2>1, <2>3, <2>5, <2>6
  <2> QED  BY <1>1, <2>1, <2>7, Parts, NoneWorks
<1> QED  BY <1>3, <1>4, <1>5, <1>7, <1>8 DEF Deliver

-----------------------------------------------------------------------------
(* The steps, by what they change.                                         *)

\* What Chrome knows of the pages and the worker of the tabs stays.
Still == UNCHANGED <<page, tree, web, link, attached, refs, snaps, known, verdict, seen>>

\* So do the sessions of the debugger, their attachments and the events.
Quiet == Still /\ UNCHANGED <<debugging, events, attaching>>

\* The sessions of some tabs end, and the worker will be told.
Ends ==
  /\ Still /\ UNCHANGED attaching
  /\ \E S \in SUBSET Tabs :
       /\ debugging' = debugging \ S
       /\ events' = [t \in Tabs |-> IF t \in S /\ t \in debugging
                                      THEN Append(events[t], <<"detached", None>>) ELSE events[t]]

\* The worker will be told of a tab that was made or looked at.
Tells ==
  /\ Still /\ UNCHANGED <<debugging, attaching>>
  /\ \E t \in Tabs, e \in {"activated", "created"} \X (Tabs \cup {None}) : Tell(t, e)

Spends == budget'.page = budget.page - 1 /\ budget'.page >= 0

Classes ==
  \/ Quiet \/ Ends \/ Tells
  \/ \E t \in Tabs : Spends /\ (Navigate(t) \/ ChangesAddress(t) \/ Redraw(t))
  \/ \E c \in Commands : ensureAttached(c) \/ Answered(c) \/ Snapshot(c)
  \/ \E t \in Tabs : Attachment(t) \/ Deliver(t)
  \/ Disconnect \/ Detached \/ Connect

LEMMA HandlersQuiet ==
  ASSUME NEW c \in Commands,
         \/ Asks(c) \/ Checked(c) \/ Look(c) \/ Create(c) \/ Group(c) \/ Title(c) \/ Await(c)
         \/ SwitchTab(c) \/ cdp(c) \/ TimedOut(c)
  PROVE  Quiet
<1>1. CASE Asks(c)
  BY <1>1, Zenon DEF Asks, Quiet, Still, chrome, maps, agent
<1>2. CASE Checked(c)
  BY <1>2, Zenon DEF Checked, Quiet, Still, chrome, maps, agent
<1>3. CASE Look(c)
  BY <1>3, Zenon DEF Look, Quiet, Still, chrome, maps, agent
<1>4. CASE Create(c)
  BY <1>4, Zenon DEF Create, Quiet, Still, chrome, maps, agent
<1>5. CASE Group(c)
  BY <1>5, Zenon DEF Group, Quiet, Still, chrome, maps, agent
<1>6. CASE Title(c)
  BY <1>6, Zenon DEF Title, Quiet, Still, chrome, maps, agent
<1>7. CASE Await(c)
  BY <1>7, Zenon DEF Await, Quiet, Still, chrome, maps, agent
<1>8. CASE SwitchTab(c)
  BY <1>8, Zenon DEF SwitchTab, Quiet, Still, chrome, maps, agent
<1>9. CASE cdp(c)
  BY <1>9, Zenon DEF cdp, Quiet, Still, chrome, maps, agent
<1>10. CASE TimedOut(c)
  BY <1>10, Zenon DEF TimedOut, Quiet, Still, chrome, maps, agent
<1> QED  BY <1>1, <1>2, <1>3, <1>4, <1>5, <1>6, <1>7, <1>8, <1>9, <1>10

LEMMA RemoveTabsEnds ==
  ASSUME IInv, NEW c \in Commands, RemoveTabs(c)
  PROVE  Ends
<1>1. Still /\ UNCHANGED attaching
  BY Zenon DEF RemoveTabs, Still, chrome, maps, agent
<1>2. CASE UNCHANGED <<group, debugging, events>>
  <2>1. debugging' = debugging \ {}
    BY <1>2
  <2>2. events' = [t \in Tabs |-> IF t \in {} /\ t \in debugging
                                      THEN Append(events[t], <<"detached", None>>) ELSE events[t]]
    BY <1>2 DEF IInv, Typed, ChromeTyped
  <2>3. {} \in SUBSET Tabs
    OBVIOUS
  <2> QED  BY <1>1, <2>1, <2>2, <2>3, Zenon DEF Ends
<1>3. ASSUME NEW S, Closes(S \cap Alive) PROVE Ends
  <2>1. S \cap Alive \in SUBSET Tabs
    BY DEF Alive
  <2> QED  BY <1>1, <1>3, <2>1, Zenon DEF Closes, Ends
<1>4. \/ UNCHANGED <<group, debugging, events>>
      \/ \E S : Closes(S \cap Alive)
  BY DEF RemoveTabs
<1> QED  BY <1>2, <1>3, <1>4

LEMMA UserEnds ==
  ASSUME IInv, NEW t \in Tabs, UserDetaches(t) \/ UserCloses(t)
  PROVE  Ends
<1>1. Still /\ UNCHANGED attaching
  BY Zenon DEF UserDetaches, UserCloses, Still, maps, agent
<1>2. {t} \in SUBSET Tabs
  OBVIOUS
<1>3. CASE UserCloses(t)
  BY <1>1, <1>2, <1>3, Zenon DEF UserCloses, Closes, Ends
<1>4. CASE UserDetaches(t)
  <2>1. /\ t \in debugging /\ debugging' = debugging \ {t}
        /\ events' = [events EXCEPT ![t] = Append(@, <<"detached", None>>)]
    BY <1>4 DEF UserDetaches, Tell
  <2>2. events' = [u \in Tabs |-> IF u \in {t} /\ u \in debugging
                                      THEN Append(events[u], <<"detached", None>>) ELSE events[u]]
    BY <2>1 DEF IInv, Typed, ChromeTyped
  <2> QED  BY <1>1, <1>2, <2>1, <2>2, Zenon DEF Ends
<1> QED  BY <1>3, <1>4

LEMMA NextClasses ==
  ASSUME IInv, Next
  PROVE  /\ Classes /\ Works /\ Kept
         /\ budget' \in [requests : Nat, user : Nat, page : Nat] /\ budget'.page <= budget.page
<1>0. budget \in [requests : Nat, user : Nat, page : Nat]
  BY DEF IInv, Typed, AgentTyped
<1> DEFINE Budget == /\ budget' \in [requests : Nat, user : Nat, page : Nat]
                     /\ budget'.page <= budget.page
<1>1. CASE UserMove
  <2>1. Budget
    BY <1>0, <1>1 DEF UserMove
  <2>2. CASE Disconnect
    BY <2>1, <2>2, ElsewhereWorks DEF Classes
  <2>3. ASSUME NEW t \in Tabs, UserDetaches(t) \/ UserCloses(t) PROVE Classes /\ Works /\ Kept
    BY <2>3, UserEnds, UserDetachesWorks, UserClosesWorks DEF Classes
  <2>4. ASSUME NEW t \in Tabs, UserActivates(t) PROVE Classes /\ Works /\ Kept
    <3>1. <<"activated", None>> \in {"activated", "created"} \X (Tabs \cup {None})
      OBVIOUS
    <3>2. Tells
      BY <2>4, <3>1, Zenon DEF UserActivates, Tells, Still, chrome, maps, agent
    <3> QED  BY <2>4, <3>2, ElsewhereWorks DEF Classes, Elsewhere
  <2>5. ASSUME NEW t \in Tabs, UserDrags(t) PROVE Classes /\ Works /\ Kept
    <3>1. Quiet
      BY <2>5, Zenon DEF UserDrags, Quiet, Still, maps, agent
    <3> QED  BY <2>5, <3>1, UserDragsWorks DEF Classes
  <2> QED  BY <1>1, <2>1, <2>2, <2>3, <2>4, <2>5 DEF UserMove
<1>2. CASE PageMove
  <2>1. Budget /\ Spends
    BY <1>0, <1>2 DEF PageMove, Spends
  <2>2. ASSUME NEW t \in Tabs, Navigate(t) \/ ChangesAddress(t) \/ Redraw(t)
        PROVE  Classes /\ Works /\ Kept
    BY <2>1, <2>2, ElsewhereWorks DEF Classes, Elsewhere
  <2>3. ASSUME NEW t \in Tabs, NEW o \in Tabs, PageOpens(t, o) PROVE Classes /\ Works /\ Kept
    <3>1. <<"created", o>> \in {"activated", "created"} \X (Tabs \cup {None})
      OBVIOUS
    <3>2. Tells
      BY <2>3, <3>1, Zenon DEF PageOpens, Tells, Still, maps, agent
    <3> QED  BY <2>3, <3>2, PageOpensWorks DEF Classes
  <2> QED  BY <1>2, <2>1, <2>2, <2>3 DEF PageMove
<1>3. CASE Request
  <2>1. Budget
    BY <1>0, <1>3 DEF Request
  <2>2. PICK c \in Commands : Asks(c)
    BY <1>3 DEF Request
  <2>3. Classes /\ Works
    BY <2>2, HandlersQuiet, AsksWorks DEF Classes
  <2>4. Kept
    BY <2>2, Parts, StillKept DEF Asks, chrome, worker
  <2> QED  BY <2>1, <2>3, <2>4
<1>4. CASE React /\ UNCHANGED budget
  <2>1. Budget
    BY <1>0, <1>4
  <2>2. ASSUME NEW c \in Commands, Work(c) PROVE Classes /\ Works /\ Kept
    <3>1. CASE ensureAttached(c)
      BY <3>1, ensureAttachedWorks DEF Classes
    <3>2. CASE RemoveTabs(c)
      BY <3>2, RemoveTabsEnds, RemoveTabsWorks DEF Classes
    <3>3. CASE \/ Checked(c) \/ Look(c) \/ Create(c) \/ Group(c) \/ Title(c) \/ Await(c)
               \/ SwitchTab(c) \/ cdp(c) \/ TimedOut(c)
      <4>1. Classes
        BY <3>3, HandlersQuiet DEF Classes
      <4> QED  BY <3>3, <4>1, CheckedWorks, LookWorks, CreateWorks, GroupWorks, TitleWorks,
                  AwaitWorks, SwitchTabWorks, cdpWorks, TimedOutWorks
    <3> QED  BY <2>2, <3>1, <3>2, <3>3 DEF Work
  <2>3. ASSUME NEW c \in Commands, Answered(c) \/ Snapshot(c) PROVE Classes /\ Works /\ Kept
    BY <2>3, AnsweredWorks, SnapshotWorks DEF Classes
  <2>4. ASSUME NEW t \in Tabs, Attachment(t) \/ Deliver(t) PROVE Classes /\ Works /\ Kept
    BY <2>4, AttachmentWorks, DeliverWorks DEF Classes
  <2>5. ASSUME Detached \/ Connect PROVE Classes /\ Works /\ Kept
    BY <2>5, DetachedWorks, ElsewhereWorks DEF Classes
  <2> QED  BY <1>4, <2>1, <2>2, <2>3, <2>4, <2>5 DEF React
<1> QED  BY <1>1, <1>2, <1>3, <1>4 DEF Next

-----------------------------------------------------------------------------
(* Each part of the invariant is kept.                                     *)

LEMMA TellTyped ==
  ASSUME events \in [Tabs -> Seq(Events)], NEW t \in Tabs,
         NEW e \in News
  PROVE  /\ [events EXCEPT ![t] = Append(@, e)] \in [Tabs -> Seq(Events)]
         /\ Append(events[t], e) \in Seq(Events)
<1>1. e \in Events /\ events[t] \in Seq(Events)
  BY DEF Events
<1>2. Append(events[t], e) \in Seq(Events)
  BY <1>1, AppendProperties
<1> QED  BY <1>2

LEMMA ChromeTypedKept ==
  ASSUME IInv, Next
  PROVE  ChromeTyped'
<1>1. /\ page \in [Tabs -> Nat] /\ tree \in [Tabs -> Trees]
      /\ web \subseteq Tabs /\ debugging \subseteq Tabs
      /\ events \in [Tabs -> Seq(Events)]
  BY DEF IInv, Typed, ChromeTyped
<1>2. CASE Quiet
  BY <1>1, <1>2 DEF Quiet, Still, ChromeTyped
<1>3. CASE Ends
  <2>1. PICK S \in SUBSET Tabs :
          /\ debugging' = debugging \ S
          /\ events' = [t \in Tabs |-> IF t \in S /\ t \in debugging
                                         THEN Append(events[t], <<"detached", None>>) ELSE events[t]]
    BY <1>3 DEF Ends
  <2>2. <<"detached", None>> \in News
    BY DEF News
  <2>3. \A t \in Tabs : Append(events[t], <<"detached", None>>) \in Seq(Events)
    BY <1>1, <2>2, TellTyped
  <2>4. events' \in [Tabs -> Seq(Events)]
    BY <1>1, <2>1, <2>3
  <2> QED  BY <1>1, <1>3, <2>1, <2>4 DEF Ends, Still, ChromeTyped
<1>4. CASE Tells
  <2>1. PICK t \in Tabs, e \in {"activated", "created"} \X (Tabs \cup {None}) : Tell(t, e)
    BY <1>4 DEF Tells
  <2>2. events' \in [Tabs -> Seq(Events)]
    BY <1>1, <2>1, TellTyped DEF Tell, News
  <2> QED  BY <1>1, <1>4, <2>2 DEF Tells, Still, ChromeTyped
<1>5. ASSUME NEW t \in Tabs, Navigate(t) \/ ChangesAddress(t) PROVE ChromeTyped'
  <2>1. /\ page' = [page EXCEPT ![t] = @ + 1]
        /\ tree' = tree \/ tree' = [tree EXCEPT ![t] = [text |-> @.text + 1, focus |-> 0]]
        /\ web' \subseteq Tabs /\ debugging' = debugging
        /\ Tell(t, <<"loading", None>>) \/ Tell(t, <<"internal", None>>)
    BY <1>1, <1>5 DEF Navigate, ChangesAddress
  <2>2. PICK w \in {"loading", "internal"} : events' = [events EXCEPT ![t] = Append(@, <<w, None>>)]
    BY <2>1 DEF Tell
  <2>3. <<w, None>> \in News
    BY DEF News
  <2>4. events' \in [Tabs -> Seq(Events)]
    BY <1>1, <2>2, <2>3, TellTyped
  <2>5. tree[t] \in Trees /\ [text |-> tree[t].text + 1, focus |-> 0] \in Trees
    BY <1>1 DEF Trees
  <2>6. page' \in [Tabs -> Nat]
    BY <1>1, <2>1
  <2>7. CASE tree' = tree
    BY <1>1, <2>1, <2>4, <2>7, <2>6 DEF ChromeTyped
  <2>8. CASE tree' = [tree EXCEPT ![t] = [text |-> @.text + 1, focus |-> 0]]
    <3>1. tree' = [tree EXCEPT ![t] = [text |-> tree[t].text + 1, focus |-> 0]]
      BY <2>8
    <3>2. tree' \in [Tabs -> Trees]
      BY <1>1, <2>5, <3>1
    <3> QED  BY <1>1, <2>1, <2>4, <2>6, <3>2 DEF ChromeTyped
  <2> QED  BY <2>1, <2>7, <2>8
<1>6. ASSUME NEW t \in Tabs, Redraw(t) PROVE ChromeTyped'
  <2>1. /\ UNCHANGED <<page, web, debugging, events>>
        /\ \/ tree' = [tree EXCEPT ![t].text = @ + 1]
           \/ tree' = [tree EXCEPT ![t].focus = @ + 1]
    BY <1>6 DEF Redraw
  <2>2. /\ [tree[t] EXCEPT !.text = @ + 1] \in Trees
        /\ [tree[t] EXCEPT !.focus = @ + 1] \in Trees
    <3>1. tree[t] \in Trees
      BY <1>1
    <3> QED  BY <3>1 DEF Trees
  <2>3. \/ tree' = [tree EXCEPT ![t] = [tree[t] EXCEPT !.text = @ + 1]]
        \/ tree' = [tree EXCEPT ![t] = [tree[t] EXCEPT !.focus = @ + 1]]
    BY <2>1
  <2>4. tree' \in [Tabs -> Trees]
    BY <1>1, <2>2, <2>3
  <2> QED  BY <1>1, <2>1, <2>4 DEF ChromeTyped
<1>7. ASSUME NEW c \in Commands, ensureAttached(c) \/ Answered(c) \/ Snapshot(c)
      PROVE  ChromeTyped'
  BY <1>1, <1>7 DEF ensureAttached, Answered, Snapshot, chrome, ChromeTyped
<1>8. ASSUME NEW t \in Tabs, Attachment(t) PROVE ChromeTyped'
  <2>1. UNCHANGED <<page, web, tree, events>> /\ debugging' \in {debugging, debugging \cup {t}, debugging \ {t}}
    BY <1>8 DEF Attachment
  <2> QED  BY <1>1, <2>1 DEF ChromeTyped
<1>9. ASSUME NEW t \in Tabs, Deliver(t) PROVE ChromeTyped'
  <2>1. /\ UNCHANGED <<page, web, tree>>
        /\ onUpdated(t) \/ onDetach(t) \/ Learns(t)
    BY <1>9 DEF Deliver, Learns
  <2>2. debugging' \in {debugging, debugging \ {t}}
    BY <2>1, LearnsLeaves DEF onUpdated, onDetach
  <2>3. PICK s \in Seq(Events) : events' = [events EXCEPT ![t] = s]
    <3>1. \A e \in Replies : Append(Tail(events[t]), e) \in Seq(Events)
      BY <1>9, DeliverEvents, AppendProperties DEF Events
    <3> QED  BY <1>9, <3>1, DeliverEvents
  <2> QED  BY <1>1, <2>1, <2>2, <2>3 DEF ChromeTyped
<1>10. CASE Disconnect \/ Detached \/ Connect
  BY <1>1, <1>10 DEF Disconnect, Detached, Connect, chrome, ChromeTyped
<1> QED  BY <1>2, <1>3, <1>4, <1>5, <1>6, <1>7, <1>8, <1>9, <1>10, NextClasses DEF Classes

\* The snapshot that request c gets.
Hash(c) == computeTreeHash(cmd[c].url, tree[cmd[c].tab])
Now(c)  == [tab |-> cmd[c].tab, page |-> page[cmd[c].tab], tree |-> tree[cmd[c].tab],
            generation |-> Generation(cmd[c].tab, Hash(c)), current |-> TRUE]

\* It is recorded for its tab with a generation, and told unless the answer is lost.
LEMMA SnapshotTyped ==
  ASSUME IInv, NEW c \in Commands, Snapshot(c)
  PROVE  LET t == cmd[c].tab
         IN  /\ t \in Tabs /\ events[t] = <<>> /\ t \in debugging
             /\ Now(c) \in Records /\ Hash(c) \in Nat \X Nat /\ Hash(c)[2] = tree[t].text
             /\ refs' = [refs EXCEPT ![t] = page[t]]
             /\ snaps' = [snaps EXCEPT ![t] = [generation |-> Now(c).generation, hash |-> Hash(c)]]
             /\ \/ known' = Now(c) /\ verdict' = Compared(cmd[c].last, Now(c))
                \/ UNCHANGED <<known, verdict>>
             /\ UNCHANGED <<page, web, tree, debugging, events, link, attached, attaching, seen>>
<1> DEFINE t == cmd[c].tab
<1>1. t \in Tabs /\ cmd[c].url \in Nat
  BY Begins DEF Snapshot, Formed, Requests
<1>2. Hash(c) = <<cmd[c].url, tree[t].text>>
  BY DEF computeTreeHash, Hash
<1>3. page[t] \in Nat /\ tree[t] \in Trees /\ snaps[t] \in States \cup {None}
  BY <1>1 DEF IInv, Typed, ChromeTyped, WorkerTyped
<1>4. Hash(c) \in Nat \X Nat /\ Hash(c)[2] = tree[t].text
  BY <1>1, <1>2, <1>3 DEF Trees
<1>5. Generation(t, Hash(c)) \in Nat
  <2> HIDE DEF t
  <2> QED  BY <1>3 DEF Generation, States
<1>6. Now(c) \in Records
  BY <1>1, <1>3, <1>5 DEF Now, Records
<1>7. /\ events[t] = <<>> /\ t \in debugging
      /\ refs' = [refs EXCEPT ![t] = page[t]]
      /\ snaps' = [snaps EXCEPT ![t] = [generation |-> Now(c).generation, hash |-> Hash(c)]]
      /\ \/ known' = Now(c) /\ verdict' = Compared(cmd[c].last, Now(c))
         \/ UNCHANGED <<known, verdict>>
      /\ UNCHANGED <<page, web, tree, debugging, events, link, attached, attaching, seen>>
  BY DEF Snapshot, Now, Hash, chrome, agent
<1> QED  BY <1>1, <1>4, <1>6, <1>7

LEMMA WorkerTypedKept ==
  ASSUME IInv, Next
  PROVE  WorkerTyped'
<1>1. WorkerTyped
  BY DEF IInv, Typed
<1>2. CASE Quiet \/ Ends \/ Tells
  BY <1>1, <1>2 DEF Quiet, Ends, Tells, Still, WorkerTyped
<1>3. ASSUME NEW t \in Tabs, Navigate(t) \/ ChangesAddress(t) \/ Redraw(t) PROVE WorkerTyped'
  BY <1>1, <1>3 DEF Navigate, ChangesAddress, Redraw, maps, WorkerTyped
<1>4. ASSUME NEW c \in Commands, ensureAttached(c) PROVE WorkerTyped'
  <2>1. \/ attaching' = attaching
        \/ attaching' = [attaching EXCEPT ![cmd[c].tab] = "check"]
    BY <1>4 DEF ensureAttached
  <2>2. UNCHANGED <<link, attached, refs, snaps, seen>>
    BY <1>4 DEF ensureAttached, maps
  <2> QED  BY <1>1, <2>1, <2>2 DEF WorkerTyped
<1>5. ASSUME NEW c \in Commands, Answered(c) PROVE WorkerTyped'
  <2>1. /\ UNCHANGED <<link, attaching, refs, snaps, seen>>
        /\ attached' = IF Op(cmd[c]) = "enable" /\ attached[cmd[c].tab] # None
                         THEN [attached EXCEPT ![cmd[c].tab] = @ \cup {cmd[c].todo[1][2]}] ELSE attached
        /\ cmd[c].at = "sent"
    BY <1>5 DEF Answered, maps
  <2>2. cmd[c].tab \in Tabs
    BY <2>1, Begins DEF Formed
  <2>3. cmd[c].todo[1] \in Steps
    <3>1. cmd[c].todo \in Seq(Steps) /\ cmd[c].todo # <<>>
      BY <2>1, Begins DEF Formed, Requests
    <3> QED  BY <3>1, EmptySeq, ElementOfSeq
  <2>4. Op(cmd[c]) = "enable" => cmd[c].todo[1][2] \in Domains
    BY <2>3 DEF Op, Steps
  <2>5. attached' \in [Tabs -> {None} \cup SUBSET Domains]
    <3>1. attached \in [Tabs -> {None} \cup SUBSET Domains]
      BY <1>1 DEF WorkerTyped
    <3> QED  BY <2>1, <2>2, <2>4, <3>1
  <2> QED  BY <1>1, <2>1, <2>5 DEF WorkerTyped
<1>6. ASSUME NEW c \in Commands, Snapshot(c) PROVE WorkerTyped'
  <2> DEFINE t == cmd[c].tab
  <2>1. /\ t \in Tabs /\ Now(c) \in Records /\ Hash(c) \in Nat \X Nat
        /\ refs' = [refs EXCEPT ![t] = page[t]]
        /\ snaps' = [snaps EXCEPT ![t] = [generation |-> Now(c).generation, hash |-> Hash(c)]]
        /\ UNCHANGED <<link, attached, attaching, seen>>
    BY <1>6, SnapshotTyped
  <2>2. [generation |-> Now(c).generation, hash |-> Hash(c)] \in States
    BY <2>1 DEF States, Records
  <2>3. page[t] \in Nat
    BY <2>1 DEF IInv, Typed, ChromeTyped
  <2> HIDE DEF t
  <2> QED  BY <1>1, <2>1, <2>2, <2>3 DEF WorkerTyped
<1>7. ASSUME NEW t \in Tabs, Attachment(t) PROVE WorkerTyped'
  <2>1. /\ UNCHANGED <<link, refs, snaps, seen>> /\ attached' \in {attached, [attached EXCEPT ![t] = {}]}
        /\ \E s \in {"no", "attach", "focus", "undo"} : attaching' = [attaching EXCEPT ![t] = s]
    BY <1>7 DEF Attachment, Settle, maps
  <2> QED  BY <1>1, <2>1 DEF WorkerTyped
<1>8. ASSUME NEW t \in Tabs, Deliver(t) PROVE WorkerTyped'
  <2>1. /\ UNCHANGED <<link, attaching>>
        /\ onUpdated(t) \/ onDetach(t) \/ Learns(t)
    BY <1>8 DEF Deliver, Learns
  <2>2. CASE onUpdated(t)
    BY <1>1, <2>1, <2>2 DEF onUpdated, maps, WorkerTyped
  <2>3. CASE onDetach(t)
    BY <1>1, <2>1, <2>3 DEF onDetach, WorkerTyped
  <2>4. CASE Learns(t)
    BY <1>1, <2>1, <2>4, LearnsLeaves DEF WorkerTyped
  <2> QED  BY <2>1, <2>2, <2>3, <2>4
<1>9. CASE Disconnect \/ Detached \/ Connect
  BY <1>1, <1>9 DEF Disconnect, Detached, Connect, maps, WorkerTyped
<1> QED  BY <1>2, <1>3, <1>4, <1>5, <1>6, <1>7, <1>8, <1>9, NextClasses DEF Classes

LEMMA AgentTypedKept ==
  ASSUME IInv, Next
  PROVE  AgentTyped' /\ Held' /\ Grouped'
<1>1. /\ Works /\ Kept
      /\ budget' \in [requests : Nat, user : Nat, page : Nat]
  BY NextClasses
<1>2. known' \in Records \cup {None}
  <2>1. known \in Records \cup {None}
    BY Parts DEF AgentTyped
  <2>2. CASE Quiet \/ Ends \/ Tells
    BY <2>1, <2>2 DEF Quiet, Ends, Tells, Still
  <2>3. ASSUME NEW c \in Commands, Snapshot(c) PROVE known' \in Records \cup {None}
    BY <2>1, <2>3, SnapshotTyped
  <2>4. ASSUME NEW t \in Tabs,
               Navigate(t) \/ ChangesAddress(t) \/ Redraw(t) \/ Attachment(t) \/ Deliver(t)
        PROVE  known' \in Records \cup {None}
    BY <2>1, <2>4 DEF Navigate, ChangesAddress, Redraw, Attachment, Deliver, agent
  <2>5. ASSUME NEW c \in Commands, ensureAttached(c) \/ Answered(c)
        PROVE  known' \in Records \cup {None}
    BY <2>1, <2>5 DEF ensureAttached, Answered, agent
  <2>6. CASE Disconnect \/ Detached \/ Connect
    BY <2>1, <2>6, EarlierTyped DEF Disconnect, Detached, Connect, agent
  <2> QED  BY <2>2, <2>3, <2>4, <2>5, <2>6, NextClasses DEF Classes
<1>3. \A d \in Commands : Formed(cmd[d]')
  BY <1>1 DEF Works, Becomes
<1>4. AgentTyped'
  BY <1>1, <1>2, <1>3 DEF AgentTyped, Works
<1>5. Held'
  BY <1>1 DEF Works, Becomes, Held, Kept, IInv
<1> QED  BY <1>1, <1>4, <1>5 DEF Kept

LEMMA AppendEvent ==
  ASSUME NEW s \in Seq(Events), NEW e \in Events
  PROVE  /\ Append(s, e) \in Seq(Events) /\ Len(Append(s, e)) = Len(s) + 1 /\ Len(s) \in Nat
         /\ \A i \in 1 .. Len(s) : Append(s, e)[i] = s[i]
         /\ Append(s, e)[Len(s) + 1] = e
BY AppendProperties, LenProperties

LEMMA TailEvents ==
  ASSUME NEW s \in Seq(Events), s # <<>>
  PROVE  /\ Tail(s) \in Seq(Events) /\ Len(Tail(s)) = Len(s) - 1 /\ Len(s) \in Nat
         /\ \A i \in 1 .. Len(Tail(s)) : Tail(s)[i] = s[i + 1]
         /\ Head(s) = s[1] /\ 1 \in 1 .. Len(s)
BY HeadTailProperties, LenProperties, EmptySeq

\* What is still to be told of a tab after an event was before it, or is the answer.
LEMMA DeliverOnce ==
  ASSUME IInv, NEW t \in Tabs, Deliver(t), NEW i \in 1 .. Len(events'[t])
  PROVE  \/ \E j \in 1 .. Len(events[t]) : events'[t][i] = events[t][j]
         \/ events'[t][i] \in Replies /\ Admits(given', t, events'[t][i])
<1> DEFINE es == events[t]
<1>1. events \in [Tabs -> Seq(Events)] /\ es \in Seq(Events) /\ es # <<>>
  BY DeliverEvents DEF IInv, Typed, ChromeTyped
<1>2. /\ Tail(es) \in Seq(Events) /\ Len(Tail(es)) = Len(es) - 1 /\ Len(es) \in Nat
      /\ \A j \in 1 .. Len(Tail(es)) : Tail(es)[j] = es[j + 1]
  BY <1>1, TailEvents
<1>3. CASE events' = [events EXCEPT ![t] = Tail(@)]
  <2>1. events'[t] = Tail(es)
    BY <1>1, <1>3
  <2>2. i \in 1 .. Len(Tail(es)) /\ i + 1 \in 1 .. Len(es)
    BY <1>2, <2>1
  <2> QED  BY <1>2, <2>1, <2>2
<1>4. ASSUME NEW e \in Replies, events' = [events EXCEPT ![t] = Append(Tail(@), e)],
             Admits(given', t, e)
      PROVE  \/ \E j \in 1 .. Len(events[t]) : events'[t][i] = events[t][j]
             \/ events'[t][i] \in Replies /\ Admits(given', t, events'[t][i])
  <2>1. events'[t] = Append(Tail(es), e) /\ e \in Events
    BY <1>1, <1>4 DEF Events
  <2>2. /\ Len(events'[t]) = Len(Tail(es)) + 1
        /\ \A j \in 1 .. Len(Tail(es)) : events'[t][j] = Tail(es)[j]
        /\ events'[t][Len(Tail(es)) + 1] = e
    BY <1>2, <2>1, AppendEvent
  <2>3. CASE i \in 1 .. Len(Tail(es))
    <3>1. i + 1 \in 1 .. Len(es) /\ events'[t][i] = es[i + 1]
      BY <1>2, <2>2, <2>3
    <3> QED  BY <3>1
  <2>4. CASE i = Len(Tail(es)) + 1
    BY <1>4, <2>2, <2>4
  <2> QED  BY <1>2, <2>2, <2>3, <2>4
<1> QED  BY <1>3, <1>4, DeliverEvents

LEMMA AdmittedKept ==
  ASSUME IInv, Next
  PROVE  Admitted'
<1>1. events \in [Tabs -> Seq(Events)] /\ Admitted /\ given \subseteq given'
  BY NextClasses DEF IInv, Typed, ChromeTyped, Kept
<1>2. ASSUME NEW t \in Tabs, NEW e, Admits(given, t, e) PROVE Admits(given', t, e)
  BY <1>1, <1>2 DEF Admits
<1>3. CASE UNCHANGED events
  BY <1>1, <1>2, <1>3 DEF Admitted
<1>4. ASSUME NEW t \in Tabs, NEW e \in News, events'[t] = Append(events[t], e),
             NEW i \in 1 .. Len(events'[t])
      PROVE  Admits(given', t, events'[t][i])
  <2>1. e \in Events /\ events[t] \in Seq(Events)
    BY <1>1 DEF Events
  <2>2. CASE i \in 1 .. Len(events[t])
    <3>1. events'[t][i] = events[t][i]
      BY <1>4, <2>1, <2>2, AppendEvent
    <3> QED  BY <1>1, <1>2, <2>2, <3>1 DEF Admitted
  <2>3. CASE i = Len(events[t]) + 1
    <3>1. events'[t][i] = e
      BY <1>4, <2>1, <2>3, AppendEvent
    <3> QED  BY <3>1 DEF Admits, News
  <2> QED  BY <1>4, <2>1, <2>2, <2>3, AppendEvent
<1>5. ASSUME NEW t \in Tabs, events'[t] = events[t], NEW i \in 1 .. Len(events'[t])
      PROVE  Admits(given', t, events'[t][i])
  BY <1>1, <1>2, <1>5 DEF Admitted
<1>6. ASSUME NEW t \in Tabs, NEW e \in News, Tell(t, e) PROVE Admitted'
  <2>1. /\ events'[t] = Append(events[t], e)
        /\ \A u \in Tabs : u # t => events'[u] = events[u]
    BY <1>1, <1>6 DEF Tell
  <2> QED  BY <1>4, <1>5, <2>1 DEF Admitted
<1>7. CASE Ends
  <2>1. PICK S \in SUBSET Tabs :
          events' = [t \in Tabs |-> IF t \in S /\ t \in debugging
                                      THEN Append(events[t], <<"detached", None>>) ELSE events[t]]
    BY <1>7 DEF Ends
  <2>2. <<"detached", None>> \in News
    BY DEF News
  <2>3. \A t \in Tabs : events'[t] = events[t] \/ events'[t] = Append(events[t], <<"detached", None>>)
    BY <2>1
  <2> QED  BY <1>4, <1>5, <2>2, <2>3 DEF Admitted
<1>8. CASE Tells
  <2>1. PICK t \in Tabs, e \in {"activated", "created"} \X (Tabs \cup {None}) : Tell(t, e)
    BY <1>8 DEF Tells
  <2>2. e \in News
    BY DEF News
  <2> QED  BY <1>6, <2>1, <2>2
<1>9. ASSUME NEW t \in Tabs, Navigate(t) \/ ChangesAddress(t) PROVE Admitted'
  <2>1. PICK w \in {"loading", "internal"} : Tell(t, <<w, None>>)
    BY <1>9 DEF Navigate, ChangesAddress
  <2>2. <<w, None>> \in News
    BY DEF News
  <2> QED  BY <1>6, <2>1, <2>2
<1>10. ASSUME NEW t \in Tabs, Deliver(t) PROVE Admitted'
  <2>1. ASSUME NEW i \in 1 .. Len(events'[t]) PROVE Admits(given', t, events'[t][i])
    BY <1>1, <1>2, <1>10, DeliverOnce DEF Admitted
  <2>2. \A u \in Tabs : u # t => events'[u] = events[u]
    BY <1>1, <1>10, DeliverEvents
  <2> QED  BY <1>5, <2>1, <2>2 DEF Admitted
<1>11. ASSUME NEW t \in Tabs, Redraw(t) \/ Attachment(t) PROVE UNCHANGED events
  BY <1>11 DEF Redraw, Attachment
<1>12. ASSUME NEW c \in Commands, ensureAttached(c) \/ Answered(c) \/ Snapshot(c)
       PROVE  UNCHANGED events
  BY <1>12 DEF ensureAttached, Answered, Snapshot
<1>13. ASSUME Quiet \/ Disconnect \/ Detached \/ Connect PROVE UNCHANGED events
  BY <1>13 DEF Quiet, Disconnect, Detached, Connect
<1> QED  BY <1>3, <1>7, <1>8, <1>9, <1>10, <1>11, <1>12, <1>13, NextClasses DEF Classes

\* One more event, of another kind.
LEMMA TellAttended ==
  ASSUME IInv, NEW t \in Tabs, NEW e \in Events, e[1] # "detached", Tell(t, e),
         UNCHANGED <<debugging, attached, attaching>>
  PROVE  Attended'
<1>1. events \in [Tabs -> Seq(Events)] /\ Attended
  BY DEF IInv, Typed, ChromeTyped
<1>2. events' = [events EXCEPT ![t] = Append(@, e)]
  BY DEF Tell
<1>3. ASSUME NEW u \in debugging, u \in Tabs, NEW i \in 1 .. Len(events'[u])
      PROVE  events'[u][i][1] # "detached"
  <2>1. CASE u # t
    BY <1>1, <1>2, <1>3, <2>1 DEF Attended
  <2>2. CASE u = t
    <3>1. events'[t] = Append(events[t], e) /\ events[t] \in Seq(Events)
      BY <1>1, <1>2
    <3>2. i \in 1 .. Len(events[t]) \/ i = Len(events[t]) + 1
      BY <1>3, <2>2, <3>1, AppendEvent
    <3> QED  BY <1>1, <1>3, <2>2, <3>1, <3>2, AppendEvent DEF Attended
  <2> QED  BY <2>1, <2>2
<1>4. debugging \subseteq Tabs
  BY DEF IInv, Typed, ChromeTyped
<1> QED  BY <1>1, <1>3, <1>4 DEF Attended

LEMMA AttendedKept ==
  ASSUME IInv, Next
  PROVE  Attended'
<1>1. /\ Attended /\ debugging \subseteq Tabs /\ events \in [Tabs -> Seq(Events)]
      /\ attached \in [Tabs -> {None} \cup SUBSET Domains]
      /\ attaching \in [Tabs -> {"no", "check", "attach", "focus", "undo"}]
  BY DEF IInv, Typed, ChromeTyped, WorkerTyped
<1>2. CASE Quiet
  BY <1>1, <1>2 DEF Quiet, Still, Attended
<1>3. CASE Ends
  <2>1. PICK S \in SUBSET Tabs :
          /\ debugging' = debugging \ S
          /\ events' = [t \in Tabs |-> IF t \in S /\ t \in debugging
                                         THEN Append(events[t], <<"detached", None>>) ELSE events[t]]
    BY <1>3 DEF Ends
  <2>2. \A t \in debugging' : t \in debugging /\ events'[t] = events[t]
    BY <1>1, <2>1
  <2>3. attached' = attached /\ attaching' = attaching
    BY <1>3 DEF Ends, Still
  <2> QED  BY <1>1, <2>2, <2>3 DEF Attended
<1>4. CASE Tells
  <2>1. PICK t \in Tabs, e \in {"activated", "created"} \X (Tabs \cup {None}) : Tell(t, e)
    BY <1>4 DEF Tells
  <2>2. e \in Events /\ e[1] # "detached"
    BY DEF Events, News
  <2> QED  BY <1>4, <2>1, <2>2, TellAttended DEF Tells, Still
<1>5. ASSUME NEW t \in Tabs, Navigate(t) \/ ChangesAddress(t) PROVE Attended'
  <2>1. PICK w \in {"loading", "internal"} : Tell(t, <<w, None>>)
    BY <1>5 DEF Navigate, ChangesAddress
  <2>2. <<w, None>> \in Events /\ <<w, None>>[1] # "detached"
    BY DEF Events, News
  <2> QED  BY <1>5, <2>1, <2>2, TellAttended DEF Navigate, ChangesAddress
<1>6. ASSUME NEW t \in Tabs, Redraw(t) PROVE Attended'
  BY <1>1, <1>6 DEF Redraw, Attended
<1>7. ASSUME NEW c \in Commands, ensureAttached(c) PROVE Attended'
  <2> DEFINE t == cmd[c].tab
  <2>1. t \in Tabs /\ UNCHANGED <<debugging, events, attached>>
    BY <1>7, ensureAttachedWorks DEF ensureAttached, chrome
  <2>2. CASE attaching' = attaching
    BY <1>1, <2>1, <2>2 DEF Attended
  <2>3. CASE attached[t] = None /\ attaching[t] = "no" /\ attaching' = [attaching EXCEPT ![t] = "check"]
    <3>1. t \notin debugging
      BY <1>1, <2>3 DEF Attended
    <3> HIDE DEF t
    <3> QED  BY <1>1, <2>1, <2>3, <3>1 DEF Attended
  <2> QED  BY <1>7, <2>2, <2>3 DEF ensureAttached
<1>8. ASSUME NEW c \in Commands, Answered(c) PROVE Attended'
  <2>1. UNCHANGED <<debugging, events, attaching>>
    BY <1>8 DEF Answered, chrome
  <2>2. \A t \in Tabs : attached[t] # None => attached'[t] # None
    <3> SUFFICES ASSUME NEW t \in Tabs, attached[t] # None PROVE attached'[t] # None
      OBVIOUS
    <3>1. attached'[t] \in {None} \cup SUBSET Domains
      BY WorkerTypedKept DEF WorkerTyped
    <3>2. attached' = attached \/ attached' = [attached EXCEPT ![cmd[c].tab] = @ \cup {cmd[c].todo[1][2]}]
      BY <1>8 DEF Answered
    <3>3. attached'[t] = attached[t] \/ attached'[t] = attached[t] \cup {cmd[c].todo[1][2]}
      BY <1>1, <3>2
    <3>4. attached[t] \in SUBSET Domains
      BY <1>1
    <3>5. cmd[c].todo[1][2] \in Domains \/ attached' = attached
      <4>1. cmd[c].todo \in Seq(Steps) /\ cmd[c].todo # <<>>
        BY <1>8, Begins DEF Answered, Formed, Requests
      <4>2. cmd[c].todo[1] \in Steps
        BY <4>1, EmptySeq, ElementOfSeq
      <4> QED  BY <1>8, <4>2 DEF Answered, Op, Steps
    <3>6. attached'[t] \in SUBSET Domains
      BY <3>3, <3>4, <3>5
    <3> QED  BY <3>6, NoneAssumption
  <2> QED  BY <1>1, <2>1, <2>2 DEF Attended
<1>9. ASSUME NEW c \in Commands, Snapshot(c) PROVE Attended'
  BY <1>1, <1>9 DEF Snapshot, chrome, Attended
<1>10. ASSUME NEW t \in Tabs, Attachment(t) PROVE Attended'
  <2>1. UNCHANGED events /\ events[t] = <<>>
    BY <1>10 DEF Attachment
  <2>2. \/ /\ UNCHANGED <<debugging, attached>>
           /\ attaching' \in {[attaching EXCEPT ![t] = "no"], [attaching EXCEPT ![t] = "attach"]}
           /\ attaching[t] \in {"check", "attach", "focus"}
        \/ /\ debugging' = debugging \cup {t}
           /\ \/ attached' = [attached EXCEPT ![t] = {}] /\ attaching' = [attaching EXCEPT ![t] = "focus"]
              \/ attached' = attached /\ attaching' = [attaching EXCEPT ![t] = "undo"]
        \/ /\ debugging' = debugging \ {t} /\ UNCHANGED attached
           /\ attaching' = [attaching EXCEPT ![t] = "no"]
    BY <1>10 DEF Attachment, Settle
  <2>3. CASE /\ UNCHANGED <<debugging, attached>>
             /\ attaching' \in {[attaching EXCEPT ![t] = "no"], [attaching EXCEPT ![t] = "attach"]}
             /\ attaching[t] \in {"check", "attach", "focus"}
    <3>1. attaching'[t] = "attach" => attaching[t] = "check"
      BY <1>1, <1>10, <2>3 DEF Attachment, Settle
    <3>2. \A u \in debugging : attaching'[u] = "undo" <=> attaching[u] = "undo"
      BY <1>1, <2>3
    <3>3. \A u \in debugging : attaching'[u] \notin {"check", "attach"}
      BY <1>1, <2>3, <3>1 DEF Attended
    <3> QED  BY <1>1, <2>1, <2>3, <3>2, <3>3 DEF Attended
  <2>4. CASE /\ debugging' = debugging \cup {t}
             /\ \/ attached' = [attached EXCEPT ![t] = {}] /\ attaching' = [attaching EXCEPT ![t] = "focus"]
                \/ attached' = attached /\ attaching' = [attaching EXCEPT ![t] = "undo"]
    <3>1. {} # None
      BY NoneAssumption
    <3>2. \A i \in 1 .. Len(events[t]) : FALSE
      BY <2>1, EmptySeq
    <3>3. \A u \in debugging' : \A i \in 1 .. Len(events'[u]) : events'[u][i][1] # "detached"
      BY <1>1, <2>1, <2>4, <3>2 DEF Attended
    <3>4. \A u \in debugging' : attaching'[u] \notin {"check", "attach"}
      BY <1>1, <2>4 DEF Attended
    <3>5. \A u \in debugging' : attached'[u] # None \/ attaching'[u] = "undo"
      BY <1>1, <2>4, <3>1 DEF Attended
    <3> QED  BY <3>3, <3>4, <3>5 DEF Attended
  <2>5. CASE /\ debugging' = debugging \ {t} /\ UNCHANGED attached
             /\ attaching' = [attaching EXCEPT ![t] = "no"]
    BY <1>1, <2>1, <2>5 DEF Attended
  <2> QED  BY <2>2, <2>3, <2>4, <2>5
<1>11. ASSUME NEW t \in Tabs, Deliver(t) PROVE Attended'
  <2>1. attaching' = attaching /\ (onUpdated(t) \/ onDetach(t) \/ Learns(t))
    BY <1>11 DEF Deliver, Learns
  <2>2. debugging' \subseteq debugging
    BY <2>1, LearnsLeaves DEF onUpdated, onDetach
  <2>3. \A u \in debugging : \A i \in 1 .. Len(events'[u]) : events'[u][i][1] # "detached"
    <3> SUFFICES ASSUME NEW u \in debugging, NEW i \in 1 .. Len(events'[u])
                 PROVE  events'[u][i][1] # "detached"
      OBVIOUS
    <3>1. CASE u # t
      <4>1. events'[u] = events[u]
        BY <1>1, <1>11, <3>1, DeliverEvents
      <4> QED  BY <1>1, <4>1 DEF Attended
    <3>2. CASE u = t
      <4>1. \/ \E j \in 1 .. Len(events[t]) : events'[t][i] = events[t][j]
            \/ events'[t][i] \in Replies
        BY <1>11, <3>2, DeliverOnce
      <4> QED  BY <1>1, <3>2, <4>1 DEF Attended, Replies
    <3> QED  BY <3>1, <3>2
  <2>4. \A u \in debugging : attached'[u] = attached[u]
    <3>1. CASE onDetach(t)
      <4>1. events[t][1][1] = "detached" /\ attached' = [attached EXCEPT ![t] = None]
        BY <1>1, <1>11, <3>1, TailEvents, DeliverEvents DEF onDetach
      <4>2. t \notin debugging
        BY <1>1, <1>11, <4>1, TailEvents, DeliverEvents DEF Attended
      <4> QED  BY <1>1, <4>1, <4>2
    <3>2. CASE ~onDetach(t)
      BY <2>1, <3>2, LearnsLeaves DEF onUpdated
    <3> QED  BY <3>1, <3>2
  <2> QED  BY <1>1, <2>1, <2>2, <2>3, <2>4 DEF Attended
<1>12. CASE Disconnect \/ Connect
  BY <1>1, <1>12 DEF Disconnect, Connect, chrome, Attended
<1>13. CASE Detached
  <2>1. debugging' = {}
    BY <1>1, <1>13 DEF Detached, Sessions, Attended
  <2> QED  BY <2>1 DEF Attended
<1> QED  BY <1>2, <1>3, <1>4, <1>5, <1>6, <1>7, <1>8, <1>9, <1>10, <1>11, <1>12, <1>13, NextClasses
         DEF Classes

LEMMA SharedKept ==
  ASSUME IInv, Next
  PROVE  AttachmentsShared'
<1>1. WaitersAwaited'
  BY NextClasses DEF Works, Becomes, WaitersAwaited
<1>2. AttachOnce'
  BY AttendedKept DEF Attended, AttachOnce
<1> QED  BY <1>1, <1>2 DEF AttachmentsShared

LEMMA ClearedKept ==
  ASSUME IInv, Next
  PROVE  Cleared'
<1>1. /\ Cleared /\ debugging \subseteq Tabs /\ attaching \in [Tabs -> {"no", "check", "attach", "focus", "undo"}]
      /\ refs \in [Tabs -> Nat \cup {None}]
  BY DEF IInv, Typed, ChromeTyped, WorkerTyped
<1>2. CASE Quiet \/ Ends \/ Tells
  BY <1>1, <1>2 DEF Quiet, Ends, Tells, Still, Cleared
<1>3. ASSUME NEW t \in Tabs, Navigate(t) \/ ChangesAddress(t) \/ Redraw(t) PROVE Cleared'
  BY <1>1, <1>3 DEF Navigate, ChangesAddress, Redraw, maps, Cleared
<1>4. ASSUME NEW c \in Commands, ensureAttached(c) PROVE Cleared'
  <2>1. UNCHANGED <<link, debugging, refs>> /\ (link # "on" => attaching' = attaching)
    BY <1>4 DEF ensureAttached, chrome, maps
  <2> QED  BY <1>1, <2>1 DEF Cleared
<1>5. ASSUME NEW c \in Commands, Answered(c) PROVE Cleared'
  BY <1>1, <1>5 DEF Answered, chrome, maps, Cleared
<1>6. ASSUME NEW c \in Commands, Snapshot(c) PROVE Cleared'
  BY <1>1, <1>6 DEF Snapshot, Cleared
<1>7. ASSUME NEW t \in Tabs, Attachment(t) PROVE Cleared'
  <2>1. attaching[t] # "no" /\ link' = link
    BY <1>7 DEF Attachment
  <2> QED  BY <1>1, <2>1 DEF Cleared
<1>8. ASSUME NEW t \in Tabs, Deliver(t) PROVE Cleared'
  <2>1. /\ UNCHANGED <<link, attaching>>
        /\ onUpdated(t) \/ onDetach(t) \/ Learns(t)
    BY <1>8 DEF Deliver, Learns
  <2>2. debugging' \subseteq debugging /\ (refs' = refs \/ refs' = [refs EXCEPT ![t] = None])
    BY <2>1, LearnsLeaves DEF onUpdated, onDetach, maps
  <2> QED  BY <1>1, <2>1, <2>2 DEF Cleared
<1>9. CASE Disconnect \/ Connect
  BY <1>9 DEF Disconnect, Connect, Cleared
<1>10. CASE Detached
  <2>1. debugging' = {}
    BY <1>1, <1>10 DEF Detached, Sessions, IInv, Attended
  <2> QED  BY <1>10, <2>1 DEF Detached, Cleared
<1> QED  BY <1>2, <1>3, <1>4, <1>5, <1>6, <1>7, <1>8, <1>9, <1>10, NextClasses DEF Classes

-----------------------------------------------------------------------------
(* The documents the worker knows.                                         *)

LEMMA LeadsNowhere ==
  ASSUME NEW s \in Nat
  PROVE  Leads(s, <<>>, s) /\ \A p : Leads(s, <<>>, p) => p = s
<1>1. Len(<<>>) = 0
  BY EmptySeq
<1> DEFINE x == [i \in 0 .. Len(<<>>) |-> s]
<1>2. x \in [0 .. Len(<<>>) -> Nat] /\ x[0] = s /\ x[Len(<<>>)] = s
  BY <1>1
<1> HIDE DEF x
<1>3. \A i \in 1 .. Len(<<>>) : FALSE
  BY <1>1
<1>4. Leads(s, <<>>, s)
  BY <1>2, <1>3 DEF Leads
<1>5. \A p : Leads(s, <<>>, p) => p = s
  BY <1>1 DEF Leads
<1> QED  BY <1>4, <1>5

LEMMA LeadsOn ==
  ASSUME NEW s, NEW p, NEW es \in Seq(Events), NEW e \in Events, Leads(s, es, p)
  PROVE  Leads(s, Append(es, e), p + Change(e))
<1>1. PICK d \in [0 .. Len(es) -> Nat] :
        /\ d[0] = s /\ d[Len(es)] = p
        /\ \A i \in 1 .. Len(es) : d[i] = d[i - 1] + Change(es[i])
  BY DEF Leads
<1> DEFINE x == [i \in 0 .. Len(es) + 1 |-> IF i <= Len(es) THEN d[i] ELSE p + Change(e)]
<1>2. /\ Len(es) \in Nat /\ Len(Append(es, e)) = Len(es) + 1
      /\ \A i \in 1 .. Len(es) : Append(es, e)[i] = es[i]
      /\ Append(es, e)[Len(es) + 1] = e
  BY AppendEvent
<1>3. Change(e) \in Nat /\ p \in Nat
  BY <1>1, <1>2 DEF Change
<1>4. /\ x \in [0 .. Len(es) + 1 -> Nat] /\ x[0] = s /\ x[Len(es) + 1] = p + Change(e)
      /\ \A i \in 0 .. Len(es) : x[i] = d[i]
  BY <1>1, <1>2, <1>3
<1> HIDE DEF x
<1>5. ASSUME NEW i \in 1 .. Len(es) + 1 PROVE x[i] = x[i - 1] + Change(Append(es, e)[i])
  <2>1. CASE i \in 1 .. Len(es)
    BY <1>1, <1>2, <1>4, <2>1
  <2>2. CASE i = Len(es) + 1
    BY <1>1, <1>2, <1>4, <2>2
  <2> QED  BY <1>2, <2>1, <2>2
<1> QED  BY <1>2, <1>4, <1>5 DEF Leads

LEMMA LeadsOff ==
  ASSUME NEW s, NEW p, NEW es \in Seq(Events), es # <<>>, Leads(s, es, p)
  PROVE  Leads(s + Change(Head(es)), Tail(es), p)
<1>1. PICK d \in [0 .. Len(es) -> Nat] :
        /\ d[0] = s /\ d[Len(es)] = p
        /\ \A i \in 1 .. Len(es) : d[i] = d[i - 1] + Change(es[i])
  BY DEF Leads
<1>2. /\ Len(Tail(es)) = Len(es) - 1 /\ Len(es) \in Nat
      /\ \A i \in 1 .. Len(Tail(es)) : Tail(es)[i] = es[i + 1]
      /\ Head(es) = es[1] /\ 1 \in 1 .. Len(es)
  BY TailEvents
<1> DEFINE x == [i \in 0 .. Len(es) - 1 |-> d[i + 1]]
<1>3. x \in [0 .. Len(es) - 1 -> Nat] /\ \A i \in 0 .. Len(es) - 1 : x[i] = d[i + 1]
  BY <1>2
<1> HIDE DEF x
<1>4. x[0] = s + Change(Head(es)) /\ x[Len(es) - 1] = p
  BY <1>1, <1>2, <1>3
<1>5. ASSUME NEW i \in 1 .. Len(es) - 1 PROVE x[i] = x[i - 1] + Change(Tail(es)[i])
  <2>1. i + 1 \in 1 .. Len(es) /\ i \in 0 .. Len(es) - 1 /\ i - 1 \in 0 .. Len(es) - 1 /\ (i + 1) - 1 = i
    BY <1>2
  <2>2. x[i] = d[i + 1] /\ x[i - 1] = d[i] /\ Tail(es)[i] = es[i + 1]
    BY <1>2, <1>3, <2>1
  <2> QED  BY <1>1, <2>1, <2>2
<1> QED  BY <1>2, <1>3, <1>4, <1>5 DEF Leads

\* An event of t that is told of, of a new document or of something else.
LEMMA TellTold ==
  ASSUME IInv, NEW t \in Tabs, NEW e \in Events, Tell(t, e), seen' = seen,
         page' = [page EXCEPT ![t] = @ + Change(e)]
  PROVE  Told'
<1>1. /\ Told /\ events \in [Tabs -> Seq(Events)] /\ page \in [Tabs -> Nat]
      /\ events' = [events EXCEPT ![t] = Append(@, e)]
  BY DEF IInv, Typed, ChromeTyped, Tell
<1>2. Leads(seen[t], Append(events[t], e), page[t] + Change(e))
  BY <1>1, LeadsOn DEF Told
<1>3. ASSUME NEW u \in Tabs PROVE Leads(seen'[u], events'[u], page'[u])
  <2>1. CASE u = t
    BY <1>1, <1>2, <2>1
  <2>2. CASE u # t
    <3>1. seen'[u] = seen[u] /\ events'[u] = events[u] /\ page'[u] = page[u]
      BY <1>1, <2>2
    <3> QED  BY <1>1, <3>1 DEF Told
  <2> QED  BY <2>1, <2>2
<1> QED  BY <1>3 DEF Told

LEMMA ToldKept ==
  ASSUME IInv, Next
  PROVE  Told'
<1>1. /\ Told /\ events \in [Tabs -> Seq(Events)] /\ page \in [Tabs -> Nat] /\ seen \in [Tabs -> Nat]
  BY DEF IInv, Typed, ChromeTyped, WorkerTyped
<1>2. CASE UNCHANGED <<events, page, seen>>
  BY <1>1, <1>2 DEF Told
<1>3. CASE Ends
  <2>1. PICK S \in SUBSET Tabs :
          events' = [t \in Tabs |-> IF t \in S /\ t \in debugging
                                      THEN Append(events[t], <<"detached", None>>) ELSE events[t]]
    BY <1>3 DEF Ends
  <2>2. <<"detached", None>> \in Events /\ Change(<<"detached", None>>) = 0
    BY DEF Events, News, Change, IsUpdate
  <2>3. ASSUME NEW u \in Tabs PROVE Leads(seen'[u], events'[u], page'[u])
    <3>1. Leads(seen[u], events[u], page[u]) /\ seen'[u] = seen[u] /\ page'[u] = page[u]
      BY <1>1, <1>3 DEF Ends, Still, Told
    <3>2. Leads(seen[u], Append(events[u], <<"detached", None>>), page[u])
      <4>1. Leads(seen[u], Append(events[u], <<"detached", None>>), page[u] + Change(<<"detached", None>>))
        BY <1>1, <2>2, <3>1, LeadsOn
      <4>2. page[u] + Change(<<"detached", None>>) = page[u]
        BY <1>1, <2>2
      <4> QED  BY <4>1, <4>2
    <3>3. events'[u] \in {events[u], Append(events[u], <<"detached", None>>)}
      BY <2>1
    <3> QED  BY <3>1, <3>2, <3>3
  <2> QED  BY <2>3 DEF Told
<1>4. CASE Tells
  <2>1. PICK t \in Tabs, e \in {"activated", "created"} \X (Tabs \cup {None}) : Tell(t, e)
    BY <1>4 DEF Tells
  <2>2. e \in Events /\ Change(e) = 0
    BY DEF Events, News, Change, IsUpdate
  <2>3. page' = [page EXCEPT ![t] = @ + Change(e)] /\ seen' = seen
    BY <1>1, <1>4, <2>2 DEF Tells, Still
  <2> QED  BY <2>1, <2>2, <2>3, TellTold
<1>5. ASSUME NEW t \in Tabs, Navigate(t) \/ ChangesAddress(t) PROVE Told'
  <2>1. PICK w \in {"loading", "internal"} : Tell(t, <<w, None>>)
    BY <1>5 DEF Navigate, ChangesAddress
  <2>2. <<w, None>> \in Events /\ Change(<<w, None>>) = 1
    BY DEF Events, News, Change, IsUpdate
  <2>3. page' = [page EXCEPT ![t] = @ + Change(<<w, None>>)] /\ seen' = seen
    BY <1>5, <2>2 DEF Navigate, ChangesAddress
  <2> QED  BY <2>1, <2>2, <2>3, TellTold
<1>6. ASSUME NEW t \in Tabs, Deliver(t) PROVE Told'
  <2>1. page' = page /\ (onUpdated(t) \/ onDetach(t) \/ Learns(t))
    BY <1>6 DEF Deliver, Learns
  <2>2. seen' = [seen EXCEPT ![t] = @ + Change(Head(events[t]))]
    <3>1. CASE onUpdated(t)
      BY <3>1 DEF onUpdated, Change, IsUpdate
    <3>2. ASSUME onDetach(t) \/ Learns(t)
          PROVE  seen' = seen /\ Change(Head(events[t])) = 0
      BY <3>2, LearnsLeaves DEF onDetach, Change, IsUpdate
    <3>3. CASE seen' = seen /\ Change(Head(events[t])) = 0
      BY <1>1, <3>3
    <3> QED  BY <2>1, <3>1, <3>2, <3>3
  <2>3. Leads(seen[t] + Change(Head(events[t])), events'[t], page[t])
    <3>1. /\ Leads(seen[t] + Change(Head(events[t])), Tail(events[t]), page[t])
          /\ Tail(events[t]) \in Seq(Events)
      BY <1>1, <1>6, LeadsOff, DeliverEvents DEF Told
    <3>2. CASE events' = [events EXCEPT ![t] = Tail(@)]
      BY <1>1, <3>1, <3>2
    <3>3. ASSUME NEW e \in Replies, events' = [events EXCEPT ![t] = Append(Tail(@), e)]
          PROVE  Leads(seen[t] + Change(Head(events[t])), events'[t], page[t])
      <4>1. e \in Events /\ Change(e) = 0
        BY DEF Events, Replies, Change, IsUpdate
      <4>2. Leads(seen[t] + Change(Head(events[t])), Append(Tail(events[t]), e), page[t] + Change(e))
        BY <3>1, <4>1, LeadsOn
      <4> QED  BY <1>1, <3>3, <4>1, <4>2
    <3> QED  BY <1>6, <3>2, <3>3, DeliverEvents
  <2>4. ASSUME NEW u \in Tabs PROVE Leads(seen'[u], events'[u], page'[u])
    <3>1. CASE u = t
      BY <1>1, <2>1, <2>2, <2>3, <3>1
    <3>2. CASE u # t
      <4>1. seen'[u] = seen[u] /\ events'[u] = events[u] /\ page'[u] = page[u]
        BY <1>1, <1>6, <2>1, <2>2, <3>2, DeliverEvents
      <4> QED  BY <1>1, <4>1 DEF Told
    <3> QED  BY <3>1, <3>2
  <2> QED  BY <2>4 DEF Told
<1>7. ASSUME NEW t \in Tabs, Redraw(t) \/ Attachment(t) PROVE UNCHANGED <<events, page, seen>>
  BY <1>7 DEF Redraw, Attachment
<1>8. ASSUME NEW c \in Commands, ensureAttached(c) \/ Answered(c) \/ Snapshot(c)
      PROVE  UNCHANGED <<events, page, seen>>
  BY <1>8 DEF ensureAttached, Answered, Snapshot, chrome
<1>9. ASSUME Quiet \/ Disconnect \/ Detached \/ Connect PROVE UNCHANGED <<events, page, seen>>
  BY <1>9 DEF Quiet, Still, Disconnect, Detached, Connect, chrome
<1> QED  BY <1>2, <1>3, <1>4, <1>5, <1>6, <1>7, <1>8, <1>9, NextClasses DEF Classes

\* A tab of which the worker has nothing more to be told shows the document it
\* was told of.
LEMMA NothingToTell ==
  ASSUME IInv, NEW t \in Tabs, events[t] = <<>>
  PROVE  page[t] = seen[t]
BY LeadsNowhere DEF IInv, Told, Typed, WorkerTyped

LEMMA BoundedKept ==
  ASSUME IInv, Next
  PROVE  Bounded'
<1>1. /\ Bounded /\ page \in [Tabs -> Nat] /\ tree \in [Tabs -> Trees] /\ refs \in [Tabs -> Nat \cup {None}]
      /\ budget.page \in Nat /\ budget'.page \in Nat /\ budget'.page <= budget.page
      /\ MaxMoves \in Nat
  BY NextClasses, BoundsAssumption DEF IInv, Typed, ChromeTyped, WorkerTyped, AgentTyped
<1>2. CASE UNCHANGED <<page, tree>> /\ \A t \in Tabs : refs'[t] \in {None, refs[t]}
  BY <1>1, <1>2 DEF Bounded, Trees
<1>3. ASSUME NEW t \in Tabs, Spends, Navigate(t) \/ ChangesAddress(t) PROVE Bounded'
  <2>1. /\ page' = [page EXCEPT ![t] = @ + 1] /\ refs' = refs
        /\ tree' = tree \/ tree' = [tree EXCEPT ![t] = [text |-> @.text + 1, focus |-> 0]]
        /\ budget'.page = budget.page - 1
    BY <1>3 DEF Navigate, ChangesAddress, maps, Spends
  <2>2. \A u \in Tabs : tree[u].text \in Nat /\ tree[u].focus \in Nat
    BY <1>1 DEF Trees
  <2>3. \/ tree' = tree
        \/ /\ \A u \in Tabs : u # t => tree'[u] = tree[u]
           /\ tree'[t] = [text |-> tree[t].text + 1, focus |-> 0]
    BY <1>1, <2>1
  <2>4. \A u \in Tabs :
          /\ tree'[u].text \in Nat /\ tree'[u].text <= tree[u].text + 1
          /\ tree'[u].focus \in Nat /\ tree'[u].focus <= tree[u].focus + 1
    BY <2>2, <2>3
  <2> QED  BY <1>1, <2>1, <2>2, <2>4 DEF Bounded
<1>4. ASSUME NEW t \in Tabs, Spends, Redraw(t) PROVE Bounded'
  <2>1. /\ \/ tree' = [tree EXCEPT ![t].text = @ + 1]
           \/ tree' = [tree EXCEPT ![t].focus = @ + 1]
        /\ page' = page /\ refs' = refs
        /\ budget'.page = budget.page - 1
    BY <1>4 DEF Redraw, maps, Spends
  <2>2. \A u \in Tabs : tree[u] \in Trees
    BY <1>1
  <2>3. /\ \A u \in Tabs : u # t => tree'[u] = tree[u]
        /\ tree'[t] \in {[tree[t] EXCEPT !.text = @ + 1], [tree[t] EXCEPT !.focus = @ + 1]}
    BY <1>1, <2>1
  <2>4. \A u \in Tabs : tree'[u].text <= tree[u].text + 1 /\ tree'[u].focus <= tree[u].focus + 1
    BY <2>2, <2>3 DEF Trees
  <2>5. \A u \in Tabs : tree'[u].text \in Nat /\ tree'[u].focus \in Nat
    BY <2>2, <2>3 DEF Trees
  <2>6. \A u \in Tabs : tree[u].text \in Nat /\ tree[u].focus \in Nat
    BY <2>2 DEF Trees
  <2> QED  BY <1>1, <2>1, <2>4, <2>5, <2>6 DEF Bounded
<1>5. ASSUME NEW c \in Commands, Snapshot(c) PROVE Bounded'
  <2>1. UNCHANGED <<page, tree>> /\ refs' = [refs EXCEPT ![cmd[c].tab] = page[cmd[c].tab]]
    BY <1>5 DEF Snapshot, chrome
  <2>2. \A u \in Tabs : tree[u].text \in Nat /\ tree[u].focus \in Nat
    BY <1>1 DEF Trees
  <2> QED  BY <1>1, <2>1, <2>2 DEF Bounded
<1>6. ASSUME NEW t \in Tabs, Deliver(t) PROVE UNCHANGED <<page, tree>> /\ \A u \in Tabs : refs'[u] \in {None, refs[u]}
  <2>1. UNCHANGED <<page, tree>> /\ (onUpdated(t) \/ onDetach(t) \/ Learns(t))
    BY <1>6 DEF Deliver, Learns
  <2>2. refs' = refs \/ refs' = [refs EXCEPT ![t] = None]
    BY <2>1, LearnsLeaves DEF onUpdated, onDetach, maps
  <2> QED  BY <1>1, <2>1, <2>2
<1>7. ASSUME NEW t \in Tabs, Attachment(t) PROVE UNCHANGED <<page, tree, refs>>
  BY <1>7 DEF Attachment, maps
<1>8. ASSUME NEW c \in Commands, ensureAttached(c) \/ Answered(c) PROVE UNCHANGED <<page, tree, refs>>
  BY <1>8 DEF ensureAttached, Answered, chrome, maps
<1>9. ASSUME Quiet \/ Ends \/ Tells \/ Disconnect \/ Connect PROVE UNCHANGED <<page, tree, refs>>
  BY <1>9 DEF Quiet, Ends, Tells, Still, Disconnect, Connect, chrome, maps
<1>10. ASSUME Detached PROVE UNCHANGED <<page, tree>> /\ refs' = [t \in Tabs |-> None]
  BY <1>10 DEF Detached
<1> QED  BY <1>2, <1>3, <1>4, <1>5, <1>6, <1>7, <1>8, <1>9, <1>10, NextClasses DEF Classes

LEMMA RefsOfSeenPageKept ==
  ASSUME IInv, Next
  PROVE  RefsOfSeenPage'
<1>1. /\ RefsOfSeenPage /\ Cleared /\ seen \in [Tabs -> Nat] /\ refs \in [Tabs -> Nat \cup {None}]
      /\ page \in [Tabs -> Nat]
  BY DEF IInv, Typed, ChromeTyped, WorkerTyped
<1>2. CASE UNCHANGED <<link, refs, seen>>
  BY <1>1, <1>2 DEF RefsOfSeenPage
<1>3. ASSUME NEW c \in Commands, Snapshot(c) PROVE RefsOfSeenPage'
  <2> DEFINE t == cmd[c].tab
  <2>1. /\ t \in Tabs /\ events[t] = <<>>
        /\ refs' = [refs EXCEPT ![t] = page[t]] /\ UNCHANGED <<link, seen>>
    BY <1>3, SnapshotTyped
  <2>2. page[t] = seen[t]
    BY <2>1, NothingToTell
  <2> HIDE DEF t
  <2> QED  BY <1>1, <2>1, <2>2 DEF RefsOfSeenPage
<1>4. ASSUME NEW t \in Tabs, Deliver(t) PROVE RefsOfSeenPage'
  <2>1. link' = link /\ (onUpdated(t) \/ onDetach(t) \/ Learns(t))
    BY <1>4 DEF Deliver, Learns
  <2>2. CASE onUpdated(t)
    <3>1. seen' = [seen EXCEPT ![t] = @ + 1] /\ (link = "on" => refs' = [refs EXCEPT ![t] = None])
      BY <2>2 DEF onUpdated
    <3> QED  BY <1>1, <2>1, <3>1 DEF RefsOfSeenPage
  <2>3. CASE onDetach(t)
    <3>1. seen' = seen /\ refs' = [refs EXCEPT ![t] = None]
      BY <2>3 DEF onDetach
    <3> QED  BY <1>1, <2>1, <3>1 DEF RefsOfSeenPage
  <2>4. CASE Learns(t)
    BY <1>2, <2>1, <2>4, LearnsLeaves
  <2> QED  BY <2>1, <2>2, <2>3, <2>4
<1>5. ASSUME NEW t \in Tabs, Navigate(t) \/ ChangesAddress(t) \/ Redraw(t) \/ Attachment(t)
      PROVE  UNCHANGED <<link, refs, seen>>
  BY <1>5 DEF Navigate, ChangesAddress, Redraw, Attachment, maps
<1>6. ASSUME NEW c \in Commands, ensureAttached(c) \/ Answered(c) PROVE UNCHANGED <<link, refs, seen>>
  BY <1>6 DEF ensureAttached, Answered, maps
<1>7. ASSUME Quiet \/ Ends \/ Tells PROVE UNCHANGED <<link, refs, seen>>
  BY <1>7 DEF Quiet, Ends, Tells, Still
<1>8. CASE Disconnect \/ Detached
  BY <1>8 DEF Disconnect, Detached, RefsOfSeenPage
<1>9. CASE Connect
  BY <1>1, <1>9 DEF Connect, maps, Cleared, RefsOfSeenPage
<1> QED  BY <1>2, <1>3, <1>4, <1>5, <1>6, <1>7, <1>8, <1>9, NextClasses DEF Classes

-----------------------------------------------------------------------------
(* What a snapshot told.                                                   *)

\* The agent is told what the worker then holds.
LEMMA SnapshotRecorded ==
  ASSUME IInv, NEW c \in Commands, Snapshot(c)
  PROVE  LET t == cmd[c].tab
         IN  /\ t \in Tabs /\ seen' = seen /\ page[t] = seen[t] /\ page[t] \in Nat
             /\ Hash(c)[2] = tree[t].text
             /\ Now(c) \in Records /\ Now(c).tab = t /\ Now(c).page = page[t] /\ Now(c).tree = tree[t]
             /\ Now(c).generation = IF snaps[t] = None THEN 1
                                    ELSE IF snaps[t].hash = Hash(c) THEN snaps[t].generation
                                         ELSE snaps[t].generation + 1
             /\ snaps'[t] \in States
             /\ snaps'[t].generation = Now(c).generation /\ snaps'[t].hash = Hash(c)
             /\ \A u \in Tabs : u # t => snaps'[u] = snaps[u]
             /\ Fits(Now(c), seen', snaps')
<1> DEFINE t == cmd[c].tab
<1> DEFINE g == Now(c).generation
<1>1. /\ t \in Tabs /\ events[t] = <<>>
      /\ Now(c) \in Records /\ Hash(c) \in Nat \X Nat /\ Hash(c)[2] = tree[t].text
      /\ snaps' = [snaps EXCEPT ![t] = [generation |-> g, hash |-> Hash(c)]]
      /\ seen' = seen
  BY SnapshotTyped
<1>2. /\ Now(c).tab = t /\ Now(c).page = page[t] /\ Now(c).tree = tree[t]
      /\ g = IF snaps[t] = None THEN 1
             ELSE IF snaps[t].hash = Hash(c) THEN snaps[t].generation ELSE snaps[t].generation + 1
  BY DEF Now, Generation
<1>3. g \in Nat
  BY <1>1 DEF Records
<1> HIDE DEF t, g
<1>4. /\ page[t] = seen[t] /\ page[t] \in Nat /\ seen \in [Tabs -> Nat]
      /\ snaps \in [Tabs -> States \cup {None}]
  BY <1>1, NothingToTell DEF IInv, Typed, ChromeTyped, WorkerTyped
<1>5. /\ snaps'[t] = [generation |-> g, hash |-> Hash(c)]
      /\ snaps'[t].generation = g /\ snaps'[t].hash = Hash(c)
      /\ \A u \in Tabs : u # t => snaps'[u] = snaps[u]
  BY <1>1, <1>4
<1>6. snaps'[t] \in States /\ None \notin States
  BY <1>1, <1>3, <1>5, NoneAssumption DEF States
<1>7. Fits(Now(c), seen', snaps')
  <2>1. Now(c).page = seen'[Now(c).tab] /\ seen'[Now(c).tab] \in Nat
    BY <1>1, <1>2, <1>4
  <2>2. /\ snaps'[Now(c).tab] # None /\ Now(c).generation = snaps'[Now(c).tab].generation
        /\ snaps'[Now(c).tab].hash[2] = Now(c).tree.text
    BY <1>1, <1>2, <1>5, <1>6 DEF g
  <2> QED  BY <1>3, <2>1, <2>2 DEF Fits, g
<1> USE DEF t, g
<1> QED  BY <1>1, <1>2, <1>4, <1>5, <1>6, <1>7

\* A snapshot that has the generation of an earlier one of its document and connection
\* shows what that did; and what the earlier one told still fits what the worker holds.
LEMMA SnapshotFits ==
  ASSUME IInv, NEW c \in Commands, Snapshot(c), NEW L \in Records, Fits(L, seen, snaps)
  PROVE  /\ Fits(L, seen', snaps')
         /\ L.current /\ L.tab = Now(c).tab /\ L.page = Now(c).page
            /\ L.generation = Now(c).generation => L.tree.text = Now(c).tree.text
<1> DEFINE t == cmd[c].tab
<1> DEFINE hash == Hash(c)
<1> DEFINE n == Now(c)
<1>1. /\ t \in Tabs /\ seen' = seen /\ page[t] = seen[t] /\ page[t] \in Nat
      /\ hash[2] = tree[t].text
      /\ n \in Records /\ n.tab = t /\ n.page = page[t] /\ n.tree = tree[t]
      /\ n.generation = IF snaps[t] = None THEN 1
                        ELSE IF snaps[t].hash = hash THEN snaps[t].generation
                             ELSE snaps[t].generation + 1
      /\ snaps'[t] \in States /\ snaps'[t].generation = n.generation /\ snaps'[t].hash = hash
      /\ \A u \in Tabs : u # t => snaps'[u] = snaps[u]
  BY SnapshotRecorded
<1>2. n.generation \in Nat
  BY <1>1 DEF Records
<1> HIDE DEF t, hash, n
<1>3. snaps \in [Tabs -> States \cup {None}]
  BY DEF IInv, Typed, WorkerTyped
<1>4. L # None /\ L.tab \in Tabs /\ L.page \in Nat /\ L.generation \in Nat
  BY NoneAssumption DEF Records
<1>5. ASSUME L.current, L.tab = t, L.page = page[t]
      PROVE  L.generation <= n.generation /\ (L.generation = n.generation => hash[2] = L.tree.text)
  <2>1. /\ snaps[t] # None /\ L.generation <= snaps[t].generation
        /\ L.generation = snaps[t].generation => snaps[t].hash[2] = L.tree.text
    BY <1>1, <1>4, <1>5 DEF Fits
  <2>2. snaps[t].generation \in Nat
    BY <1>1, <1>3, <2>1 DEF States
  <2>3. CASE snaps[t].hash = hash
    BY <1>1, <2>1, <2>2, <2>3
  <2>4. CASE snaps[t].hash # hash
    BY <1>1, <1>4, <2>1, <2>2, <2>4
  <2> QED  BY <2>3, <2>4
<1>6. Fits(L, seen', snaps')
  <2>1. CASE L.tab # t
    <3>1. snaps'[L.tab] = snaps[L.tab] /\ seen' = seen
      BY <1>1, <1>4, <2>1
    <3> QED  BY <3>1 DEF Fits
  <2>2. CASE L.tab = t /\ L.page # page[t]
    <3>1. L.current => L.page <= seen'[L.tab] /\ L.page # seen'[L.tab]
      BY <1>1, <1>4, <2>2 DEF Fits
    <3> QED  BY <3>1 DEF Fits
  <2>3. CASE L.tab = t /\ L.page = page[t]
    <3>1. L.page <= seen'[t] /\ snaps'[t] # None
      BY <1>1, <1>4, <2>3, NoneAssumption DEF States
    <3> QED  BY <1>1, <1>5, <2>3, <3>1 DEF Fits
  <2>4. CASE ~L.current
    BY <2>4 DEF Fits
  <2> QED  BY <2>1, <2>2, <2>3, <2>4
<1>7. L.current /\ L.tab = t /\ L.page = page[t] /\ L.generation = n.generation
        => L.tree.text = tree[t].text
  BY <1>1, <1>5
<1> USE DEF n
<1> QED  BY <1>1, <1>6, <1>7

\* No other step but that of a Disconnect, after which there is nothing to compare
\* with, makes what was told unfit.
LEMMA FitsKept ==
  ASSUME IInv, Next, ~Detached, \A c \in Commands : ~Snapshot(c),
         NEW L \in Records \cup {None}, Fits(L, seen, snaps)
  PROVE  Fits(L, seen', snaps') /\ UNCHANGED <<known, verdict>>
<1>1. CASE UNCHANGED <<seen, snaps, known, verdict>>
  BY <1>1
<1>2. ASSUME NEW t \in Tabs, Deliver(t) PROVE Fits(L, seen', snaps') /\ UNCHANGED <<known, verdict>>
  <2>1. UNCHANGED <<known, verdict>> /\ (onUpdated(t) \/ onDetach(t) \/ Learns(t))
    BY <1>2 DEF Deliver, Learns, agent
  <2>2. CASE onUpdated(t)
    <3>1. /\ seen' = [seen EXCEPT ![t] = @ + 1]
          /\ snaps' = snaps \/ snaps' = [snaps EXCEPT ![t] = None]
      BY <2>2 DEF onUpdated, maps
    <3>2. /\ seen \in [Tabs -> Nat] /\ snaps \in [Tabs -> States \cup {None}]
          /\ L # None => L.tab \in Tabs /\ L.page \in Nat
      BY DEF IInv, Typed, WorkerTyped, Records
    <3>3. CASE L = None \/ ~L.current
      BY <2>1, <3>3 DEF Fits
    <3>4. CASE L # None /\ L.current /\ L.tab = t
      <4>1. L.page <= seen[t] /\ seen'[t] = seen[t] + 1 /\ seen[t] \in Nat
        BY <3>1, <3>2, <3>4 DEF Fits
      <4>2. L.page <= seen'[t] /\ L.page # seen'[t]
        BY <3>2, <3>4, <4>1
      <4> QED  BY <2>1, <3>4, <4>2 DEF Fits
    <3>5. CASE L # None /\ L.tab # t
      <4>1. seen'[L.tab] = seen[L.tab] /\ snaps'[L.tab] = snaps[L.tab]
        BY <3>1, <3>2, <3>5
      <4> QED  BY <2>1, <4>1 DEF Fits
    <3> QED  BY <3>3, <3>4, <3>5
  <2>3. CASE onDetach(t) \/ Learns(t)
    BY <1>1, <2>1, <2>3, LearnsLeaves DEF onDetach, maps
  <2> QED  BY <2>1, <2>2, <2>3
<1>3. ASSUME NEW t \in Tabs, Navigate(t) \/ ChangesAddress(t) \/ Redraw(t) \/ Attachment(t)
      PROVE  UNCHANGED <<seen, snaps, known, verdict>>
  BY <1>3 DEF Navigate, ChangesAddress, Redraw, Attachment, maps, agent
<1>4. ASSUME NEW c \in Commands, ensureAttached(c) \/ Answered(c)
      PROVE  UNCHANGED <<seen, snaps, known, verdict>>
  BY <1>4 DEF ensureAttached, Answered, maps, agent
<1>5. ASSUME Quiet \/ Ends \/ Tells PROVE UNCHANGED <<seen, snaps, known, verdict>>
  BY <1>5 DEF Quiet, Ends, Tells, Still
<1>6. ASSUME Disconnect \/ Connect PROVE UNCHANGED <<seen, snaps, known, verdict>>
  BY <1>6 DEF Disconnect, Connect, maps, agent
<1> QED  BY <1>1, <1>2, <1>3, <1>4, <1>5, <1>6, NextClasses DEF Classes

LEMMA ComparableKept ==
  ASSUME IInv, Next
  PROVE  Comparable' /\ UnmodifiedIsSame'
<1>1. /\ Comparable /\ UnmodifiedIsSame /\ known \in Records \cup {None}
      /\ \A c \in Commands : cmd[c].last \in Records \cup {None}
      /\ \A c \in Commands : cmd'[c].last \in {None, cmd[c].last, known, Earlier(cmd[c].last)}
  BY NextClasses DEF IInv, Typed, AgentTyped, Formed, Requests, Works, Becomes
<1>2. Fits(None, seen', snaps') /\ \A c \in Commands : Fits(Earlier(cmd[c].last), seen', snaps')
  BY <1>1, EarlierTyped DEF Fits
<1>3. ASSUME ~Detached, \A c \in Commands : ~Snapshot(c)
      PROVE  Comparable' /\ UnmodifiedIsSame'
  <2>1. \A L \in Records \cup {None} : Fits(L, seen, snaps) => Fits(L, seen', snaps')
    BY <1>3, FitsKept
  <2>2. UNCHANGED <<known, verdict>>
    <3>1. None \in Records \cup {None} /\ Fits(None, seen, snaps)
      BY DEF Fits
    <3> QED  BY <1>3, <3>1, FitsKept
  <2>3. ASSUME NEW c \in Commands PROVE Fits(cmd'[c].last, seen', snaps')
    BY <1>1, <1>2, <2>1 DEF Comparable
  <2> QED  BY <1>1, <2>1, <2>2, <2>3 DEF Comparable, UnmodifiedIsSame
<1>4. ASSUME NEW c \in Commands, Snapshot(c) PROVE Comparable' /\ UnmodifiedIsSame'
  <2>1. \A L \in Records : Fits(L, seen, snaps) =>
          /\ Fits(L, seen', snaps')
          /\ L.current /\ L.tab = Now(c).tab /\ L.page = Now(c).page
             /\ L.generation = Now(c).generation => L.tree.text = Now(c).tree.text
    BY <1>4, SnapshotFits
  <2>2. Fits(Now(c), seen', snaps') /\ Fits(known, seen', snaps')
    BY <1>1, <1>2, <1>4, <2>1, SnapshotRecorded DEF Comparable
  <2>3. ASSUME NEW d \in Commands PROVE Fits(cmd'[d].last, seen', snaps')
    BY <1>1, <1>2, <2>1 DEF Comparable
  <2>4. \/ known' = Now(c) /\ verdict' = Compared(cmd[c].last, Now(c))
        \/ UNCHANGED <<known, verdict>>
    BY <1>4, SnapshotTyped
  <2>5. ASSUME verdict' = Compared(cmd[c].last, Now(c)) PROVE UnmodifiedIsSame'
    <3> DEFINE L == cmd[c].last
    <3> DEFINE n == Now(c)
    <3>1. CASE L = None \/ L.tab # n.tab
      <4>1. verdict'.unmodified = FALSE
        BY <2>5, <3>1 DEF Compared, Nothing
      <4> QED  BY <4>1 DEF UnmodifiedIsSame
    <3>2. CASE L # None /\ L.tab = n.tab
      <4>1. L \in Records /\ Fits(L, seen, snaps)
        BY <1>1, <3>2 DEF Comparable
      <4>2. L.current /\ L.page = n.page /\ L.generation = n.generation => L.tree.text = n.tree.text
        BY <2>1, <3>2, <4>1
      <4> HIDE DEF L, n
      <4>3. /\ verdict'.unmodified = (L.generation = n.generation)
            /\ verdict'.samePage = (L.page = n.page)
            /\ verdict'.sameConnection = L.current
            /\ verdict'.sameText = (L.tree.text = n.tree.text)
        BY <2>5, <3>2 DEF Compared, L, n
      <4> QED  BY <4>2, <4>3 DEF UnmodifiedIsSame
    <3> QED  BY <3>1, <3>2
  <2> QED  BY <1>1, <2>2, <2>3, <2>4, <2>5 DEF Comparable, UnmodifiedIsSame
<1>5. CASE Detached
  <2>1. known' = Earlier(known) /\ verdict' = verdict
    BY <1>5 DEF Detached
  <2>2. Fits(known', seen', snaps')
    BY <1>1, <2>1, EarlierTyped
  <2>3. ASSUME NEW c \in Commands PROVE Fits(cmd'[c].last, seen', snaps')
    BY <1>5, DetachedForgets
  <2> QED  BY <1>1, <2>1, <2>2, <2>3 DEF Comparable, UnmodifiedIsSame
<1> QED  BY <1>3, <1>4, <1>5

-----------------------------------------------------------------------------
(* The theorems.                                                           *)

LEMMA InitIInv == Init => IInv
<1> SUFFICES ASSUME Init PROVE IInv
  OBVIOUS
<1>1. /\ page = [t \in Tabs |-> 0] /\ tree = [t \in Tabs |-> [text |-> 0, focus |-> 0]] /\ web = Tabs /\ debugging = {}
      /\ events = [t \in Tabs |-> <<>>] /\ link = "on"
      /\ attached = [t \in Tabs |-> None] /\ attaching = [t \in Tabs |-> "no"]
      /\ refs = [t \in Tabs |-> None] /\ snaps = [t \in Tabs |-> None] /\ seen = [t \in Tabs |-> 0]
      /\ cmd = [c \in Commands |-> Idle] /\ known = None
      /\ verdict = Nothing
      /\ budget = [requests |-> MaxRequests, user |-> MaxUser, page |-> MaxMoves]
      /\ groupId = None /\ groupTabs = {} /\ active = None
  BY DEF Init
<1>2. /\ Formed(Idle) /\ Idle.at = "idle" /\ Idle.held = None /\ Idle.last = None
      /\ <<>> \in Seq(Events) /\ Len(<<>>) = 0
  BY IdleFormed, EmptySeq
<1>3. ChromeTyped /\ WorkerTyped
  BY <1>1, <1>2 DEF ChromeTyped, WorkerTyped, Trees
<1>4. AgentTyped
  BY <1>1, <1>2, BoundsAssumption DEF AgentTyped
<1>5. Grouped
  <2>1. PICK g \in {{}} \cup {{x} : x \in Groups}, mine \in SUBSET (Named \ UserTabs) :
          /\ (g = {}) = (mine = {})
          /\ named = g /\ given = mine
          /\ group = [t \in Tabs |-> IF t \in UserTabs THEN "none"
                                     ELSE IF t \in mine THEN CHOOSE x \in g : TRUE ELSE "unborn"]
    BY DEF Init
  <2>2. g \subseteq Groups /\ mine \subseteq Tabs
    BY TabsAssumption
  <2>3. mine # {} => (CHOOSE x \in g : TRUE) \in g
    BY <2>1
  <2>4. \A t \in Tabs : group[t] \in Groups => t \in mine
    BY <2>1, GroupsAssumption
  <2>5. group \in [Tabs -> Groups \cup {"none", "unborn", "closed"}]
    BY <2>1, <2>2, <2>3
  <2> QED  BY <1>1, <2>1, <2>2, <2>4, <2>5 DEF Grouped
<1>6. Held /\ Admitted /\ Attended /\ AttachmentsShared /\ Cleared
  BY <1>1, <1>2 DEF Held, Admitted, Attended, AttachmentsShared, AttachOnce, WaitersAwaited, Cleared
<1>7. Told
  BY <1>1, LeadsNowhere DEF Told
<1>8. Bounded /\ RefsOfSeenPage
  BY <1>1, BoundsAssumption DEF Bounded, RefsOfSeenPage
<1>9. Comparable /\ UnmodifiedIsSame
  BY <1>1, <1>2 DEF Comparable, Fits, UnmodifiedIsSame, Nothing
<1> QED  BY <1>3, <1>4, <1>5, <1>6, <1>7, <1>8, <1>9 DEF IInv, Typed

LEMMA IInvInductive == IInv /\ [Next]_vars => IInv'
<1> SUFFICES ASSUME IInv, [Next]_vars PROVE IInv'
  OBVIOUS
<1>1. CASE Next
  BY <1>1, ChromeTypedKept, WorkerTypedKept, AgentTypedKept, AdmittedKept, AttendedKept, SharedKept, ClearedKept,
     ToldKept, BoundedKept, RefsOfSeenPageKept, ComparableKept DEF IInv, Typed
<1>2. CASE UNCHANGED vars
  <2>1. Typed' /\ Grouped' /\ Held'
    BY <1>2, Zenon DEF vars, chrome, worker, maps, agent, IInv, Typed, ChromeTyped, WorkerTyped,
       AgentTyped, Grouped, Held
  <2>2. Admitted' /\ Attended' /\ AttachmentsShared' /\ Cleared' /\ Told' /\ Bounded'
    BY <1>2, Zenon DEF vars, chrome, worker, maps, agent, IInv, Admitted, Admits, Attended, AttachmentsShared,
       AttachOnce, WaitersAwaited, Cleared, Told, Bounded
  <2>3. RefsOfSeenPage' /\ Comparable' /\ UnmodifiedIsSame'
    BY <1>2, Zenon DEF vars, chrome, worker, maps, agent, IInv, RefsOfSeenPage, Comparable,
       UnmodifiedIsSame
  <2> QED  BY <2>1, <2>2, <2>3 DEF IInv
<1> QED  BY <1>1, <1>2

\* The inductive invariant holds of the service worker, of what Chrome tells it and
\* of the page commands whatever their order.
THEOREM Invariant == Spec => []IInv
BY InitIInv, IInvInductive, PTL DEF Spec

\* Every variable keeps its type: a request has something to await exactly while it
\* is in progress (handleNativeMessage and the handlers of background.js), and no
\* count of documents exceeds what the pages did.
THEOREM TabTypes == Spec => []TypeOK
<1>1. IInv => TypeOK
  <2> SUFFICES ASSUME IInv PROVE TypeOK
    OBVIOUS
  <2>1. /\ group \in [Tabs -> Groups \cup {"none", "unborn", "closed"}] /\ named \subseteq Groups
        /\ groupId \in Groups \cup {None} /\ groupTabs \subseteq Tabs /\ given \subseteq Tabs
        /\ active \in Tabs \cup {None}
    BY DEF IInv, Grouped
  <2>2. /\ page \in [Tabs -> 0 .. MaxMoves]
        /\ tree \in [Tabs -> [text : 0 .. MaxMoves, focus : 0 .. MaxMoves]]
        /\ refs \in [Tabs -> (0 .. MaxMoves) \cup {None}]
    <3>1. /\ page \in [Tabs -> Nat] /\ tree \in [Tabs -> Trees] /\ refs \in [Tabs -> Nat \cup {None}]
          /\ budget.page \in Nat /\ MaxMoves \in Nat /\ Bounded
      BY BoundsAssumption DEF IInv, Typed, ChromeTyped, WorkerTyped, AgentTyped
    <3>2. ASSUME NEW t \in Tabs
          PROVE  /\ page[t] \in 0 .. MaxMoves
                 /\ tree[t] \in [text : 0 .. MaxMoves, focus : 0 .. MaxMoves]
                 /\ refs[t] \in (0 .. MaxMoves) \cup {None}
      BY <3>1 DEF Bounded, Trees
    <3> QED  BY <3>1, <3>2
  <2>3. \A c \in Commands : /\ cmd[c].at \in {"idle", "checks", "run", "attaching", "sent"}
                            /\ (cmd[c].at = "idle") = (cmd[c].todo = <<>>)
    BY DEF IInv, Typed, AgentTyped, Formed, Requests
  <2>4. /\ web \subseteq Tabs /\ debugging \subseteq Tabs /\ link \in {"on", "off", "cleared"}
        /\ attaching \in [Tabs -> {"no", "check", "attach", "focus", "undo"}]
        /\ attached \in [Tabs -> {None} \cup SUBSET Domains]
    BY DEF IInv, Typed, ChromeTyped, WorkerTyped
  <2> QED  BY <2>1, <2>2, <2>3, <2>4 DEF TypeOK
<1> QED  BY <1>1, Invariant, PTL

\* Whatever the user browses, drags or closes, and whatever the pages open, the tab
\* that a request without one acts on (activeTabId of background.js) is one the user
\* gave to Tether or Tether opened.
THEOREM OwnTabsOnly == Spec => []OwnTabs
<1>1. IInv => OwnTabs
  BY DEF IInv, Grouped, OwnTabs
<1> QED  BY <1>1, Invariant, PTL

\* Requests that reach a tab together share one attachment (ensureAttached and
\* attachingTabs of background.js): it is never asked for a tab with a session, and
\* nobody waits for one that is over.
THEOREM SharedAttachment == Spec => []AttachmentsShared
<1>1. IInv => AttachmentsShared
  BY DEF IInv
<1> QED  BY <1>1, Invariant, PTL

\* An element reference is one of the document the worker was last told of
\* (elementRefsByTab, onUpdated and onDetach of background.js): no navigation, end of a
\* session or reconnection leaves one that names an element of another document.
THEOREM RefsNameSeenPage == Spec => []RefsOfSeenPage
<1>1. IInv => RefsOfSeenPage
  BY DEF IInv
<1> QED  BY <1>1, Invariant, PTL

\* A snapshot that is told unmodified since an earlier one of its document, address and
\* connection (tabSnapshotStates and computeTreeHash of background.js) shows what that
\* one did, the focus aside, whatever requests, lost answers and navigations came between.
THEOREM UnmodifiedMeansSame == Spec => []UnmodifiedIsSame
<1>1. IInv => UnmodifiedIsSame
  BY DEF IInv
<1> QED  BY <1>1, Invariant, PTL
=============================================================================
