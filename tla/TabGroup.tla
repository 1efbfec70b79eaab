------------------------------ MODULE TabGroup ------------------------------
(***************************************************************************)
(* The Tether tab group of the service worker and the page commands that   *)
(* work in it (packages/extension/background.js): the router of the        *)
(* agent's requests, their handlers, the attachment of Chrome's debugger,  *)
(* the element references and generations of snapshots, and the events by  *)
(* which Chrome tells of tabs.                                             *)
(*                                                                         *)
(* The worker is one thread and every handler a chain of awaits.  A        *)
(* handler is a script, the sequence of what it awaits, and the actions    *)
(* below interpret scripts: what runs between two awaits is one action.    *)
(* What Chrome tells the worker of one tab arrives in the order it         *)
(* happened: a CDP answer is not seen before the events that precede it.   *)
(***************************************************************************)
EXTENDS Integers, Sequences, FiniteSets, FiniteSetsExt, SequencesExt

CONSTANTS Tabs,       \* the tabs there can be
          UserTabs,   \* the tabs the user has open at first
          Groups,     \* Chrome's tab groups
          Commands,   \* the requests that may be in progress
          Methods,    \* the methods of a first request
          Later,      \* the methods of the requests that follow or overlap it
          Named,      \* the tabs that a request may name
          None,
          Early,      \* documents change by themselves before a snapshot of one is known
          MaxRequests,\* bound on the requests
          MaxUser,    \* bound on what the user does
          MaxMoves,   \* bound on what the pages do
          MaxPolls    \* bound on the polls of browser.wait (125 in 25 s)

\* The domains of the protocol that a handler may have to enable.
Domains == {"Page", "DOM", "Runtime", "Accessibility"}

ASSUME TabsAssumption ==
  UserTabs \subseteq Tabs /\ Named \subseteq Tabs /\ IsFiniteSet(Tabs)
ASSUME MethodsAssumption ==
  Methods \cup Later \subseteq
    {"open", "snapshot", "click", "fill", "type", "press", "hover", "focus", "wait", "scroll",
     "close", "eval", "screenshot", "status", "tab.list", "switch"}
ASSUME GroupsAssumption == Groups \cap {"none", "unborn", "closed"} = {}

\* What a document shows: what a fingerprint is taken of, and what it leaves out,
\* such as which element has the focus.
Trees == [text : Nat, focus : Nat]

\* None is no tab, group or number, and nothing that is kept of a tab.
ASSUME NoneAssumption ==
  /\ None \notin Tabs \cup Groups /\ None \notin Nat
  /\ \A S \in SUBSET Domains : None # S
  /\ None \notin [generation : Nat, hash : Nat \X Nat]
  /\ None \notin [tab : Tabs, page : Nat, tree : Trees, generation : Nat, current : BOOLEAN]
ASSUME BoundsAssumption == {MaxRequests, MaxUser, MaxMoves, MaxPolls} \subseteq Nat

VARIABLES
  group,      \* of each tab: its group, "none", "unborn" or "closed"
  named,      \* the groups titled Tether
  page,       \* the document each tab shows, or its next address, counted
  web,        \* the tabs that show a page automation may use
  tree,       \* what each tab's document shows, its changes counted
  debugging,  \* the tabs Chrome's debugger is attached to
  events,     \* per tab: the events the worker has not been told yet
  link,       \* tetherEnabled: "on", "off", and "cleared" once detached
  groupId,    \* tabGroupId
  groupTabs,  \* tabGroupTabs
  active,     \* activeTabId
  attached,   \* attachedTabs: the domains enabled, or None
  attaching,  \* attachingTabs: how far each attachment got
  refs,       \* elementRefsByTab: the document each map was made from
  snaps,      \* tabSnapshotStates
  cmd,        \* the requests in progress
  known,      \* the last snapshot the agent got, and whether it got it in this
              \* connection
  verdict,    \* what its answer said, against what is so
  seen,       \* the document of each tab that the worker was last told of
  given,      \* the tabs that ever belonged to Tether
  budget      \* the requests and moves that are left

chrome == <<group, named, page, web, tree, debugging>>
worker == <<groupId, groupTabs, active>>
maps   == <<refs, snaps>>
agent  == <<known, verdict>>
vars   == <<chrome, events, link, worker, attached, attaching, maps, cmd, agent,
            seen, given, budget>>

-----------------------------------------------------------------------------
(* The handlers as scripts.  A step <<"try", m>> swallows the failure of m. *)

ensureDomain(d) == IF d = "Input" THEN <<<<"attach", d>>>>
                                  ELSE <<<<"attach", d>>, <<"enable", d>>>>

resolveRefCoordinates ==
  <<<<"ref", "">>>> \o ensureDomain("DOM")
    \o <<<<"try", "scrollIntoViewIfNeeded">>, <<"cdp", "getBoxModel">>>>

resolveSelectorCoordinates ==
  ensureDomain("DOM")
    \o <<<<"cdp", "getDocument">>, <<"cdp", "querySelector">>, <<"cdp", "getBoxModel">>>>

resolveCoordinates(sel) ==
  CASE sel = "ref" -> resolveRefCoordinates
    [] sel = "css" -> resolveSelectorCoordinates
    [] OTHER       -> <<>>

\* The hit test of a reference (three CDP calls whose failure is ignored, and
\* a verdict that may end the click) is one step.
handleClick(sel) ==
  resolveCoordinates(sel)
    \o (IF sel = "ref" THEN <<<<"hit", "hitTest">>>> ELSE <<>>)
    \o ensureDomain("Input")
    \o <<<<"cdp", "mouseMoved">>, <<"cdp", "mousePressed">>, <<"cdp", "mouseReleased">>>>

focusAndClick(sel) ==
  resolveCoordinates(sel)
    \o (IF sel = "ref" THEN ensureDomain("DOM") \o <<<<"try", "focus">>>> ELSE <<>>)
    \o handleClick(sel) \o ensureDomain("Input")

handleFill(sel) == focusAndClick(sel) \o <<<<"cdp", "selectAll">>, <<"cdp", "insertText">>>>

handleType(sel) == focusAndClick(sel) \o <<<<"cdp", "insertText">>>>

handleHover(sel) == resolveCoordinates(sel) \o ensureDomain("Input") \o <<<<"cdp", "mouseMoved">>>>

handleFocus(sel) ==
  ensureDomain("DOM")
    \o (IF sel = "ref" THEN <<<<"ref", "">>>>
                       ELSE <<<<"cdp", "getDocument">>, <<"cdp", "querySelector">>>>)
    \o <<<<"cdp", "focus">>>>

\* A key with a text: without one there is no char event.
handlePress ==
  ensureDomain("Input") \o <<<<"cdp", "rawKeyDown">>, <<"cdp", "char">>, <<"cdp", "keyUp">>>>

handleScroll == ensureDomain("Input") \o <<<<"cdp", "mouseWheel">>>>

\* The CDP calls of one poll are one step: whatever fails means "not yet".
handleWait(sel) ==
  IF sel = "time" THEN <<<<"pause", "">>>>
  ELSE ensureDomain("DOM")
         \o [i \in 1 .. 2 * MaxPolls |-> IF i % 2 = 1 THEN <<"poll", sel>> ELSE <<"pause", "">>]

handleEval == ensureDomain("Runtime") \o <<<<"cdp", "evaluate">>>>

handleScreenshot ==
  ensureDomain("Page")
    \o <<<<"cdp", "evaluate">>, <<"cdp", "getLayoutMetrics">>, <<"cdp", "captureScreenshot">>>>

handleSnapshot ==
  ensureDomain("Accessibility") \o ensureDomain("DOM")
    \o <<<<"get", "">>, <<"tree", "getFullAXTree">>>>

handleOpen(sel)    == <<<<"ensure", "">>, <<"open", sel>>>> \o ensureDomain("Page")
handleStatus       == <<<<"look", "">>, <<"live", "">>>>
handleTabList      == <<<<"look", "">>, <<"live", "">>>>
handleClose(sel)   == IF sel = "all" THEN <<<<"list", "">>>> ELSE <<<<"remove", "">>>>
handleTabSwitch    == <<<<"switch", "">>, <<"attach", "">>>>

nativeHandlers(m, sel) ==
  CASE m = "open"       -> handleOpen(sel)
    [] m = "snapshot"   -> handleSnapshot
    [] m = "click"      -> handleClick(sel)
    [] m = "fill"       -> handleFill(sel)
    [] m = "type"       -> handleType(sel)
    [] m = "press"      -> handlePress
    [] m = "hover"      -> handleHover(sel)
    [] m = "focus"      -> handleFocus(sel)
    [] m = "wait"       -> handleWait(sel)
    [] m = "scroll"     -> handleScroll
    [] m = "close"      -> handleClose(sel)
    [] m = "eval"       -> handleEval
    [] m = "screenshot" -> handleScreenshot
    [] m = "status"     -> handleStatus
    [] m = "tab.list"   -> handleTabList
    [] m = "switch"     -> handleTabSwitch

\* The forms a request of each method takes.
Forms(m) == CASE m \in {"click", "hover"}        -> {"ref", "css", "xy"}
              [] m \in {"fill", "type", "focus"} -> {"ref", "css"}
              [] m = "wait"                      -> {"time", "css"}
              [] m = "open"                      -> {"new", "url"}
              [] m = "close"                     -> {"one", "all"}
              [] OTHER                           -> {""}

-----------------------------------------------------------------------------
(* State.                                                                  *)

\* A snapshot that was compared with nothing.
Nothing == [unmodified |-> FALSE, samePage |-> TRUE, sameConnection |-> TRUE,
            sameText |-> TRUE, sameTree |-> TRUE]

Idle == [at |-> "idle", todo |-> <<>>, param |-> None, tab |-> None,
         held |-> None, url |-> 0, last |-> None]

\* A worker that starts: Chrome may still have the group of an earlier one.
Init ==
  /\ \E g \in {{}} \cup {{x} : x \in Groups}, mine \in SUBSET (Named \ UserTabs) :
       /\ (g = {}) = (mine = {})
       /\ named = g /\ given = mine
       /\ group = [t \in Tabs |-> IF t \in UserTabs THEN "none"
                                 ELSE IF t \in mine THEN CHOOSE x \in g : TRUE ELSE "unborn"]
  /\ debugging = {}
  /\ page = [t \in Tabs |-> 0] /\ tree = [t \in Tabs |-> [text |-> 0, focus |-> 0]]
  /\ web = Tabs
  /\ events = [t \in Tabs |-> <<>>] /\ link = "on"
  /\ groupId = None /\ groupTabs = {} /\ active = None
  /\ attached = [t \in Tabs |-> None] /\ attaching = [t \in Tabs |-> "no"]
  /\ refs = [t \in Tabs |-> None] /\ snaps = [t \in Tabs |-> None]
  /\ cmd = [c \in Commands |-> Idle] /\ known = None
  /\ verdict = Nothing
  /\ seen = [t \in Tabs |-> 0]
  /\ budget = [requests |-> MaxRequests, user |-> MaxUser, page |-> MaxMoves]

Alive      == {t \in Tabs : group[t] \notin {"unborn", "closed"}}
Members(g) == {t \in Tabs : group[t] = g}
LiveGroups == {g \in Groups : Members(g) # {}}
Op(k)      == k.todo[1][1]

resolveTargetTabId(param) == IF param # None THEN param ELSE active'

\* What is left of a script whose steps before the first of stops are over.
From(s, stops) == IF stops = {} THEN <<>> ELSE SubSeq(s, Min(stops), Len(s))

\* The steps k gets through without an await: a reference that is known, a tab
\* that is attached, a domain that is enabled (or whose tab is no longer attached).
Passed(k, step) ==
  /\ k.tab # None
  /\ \/ step[1] = "ref" /\ refs'[k.tab] # None
     \/ step[1] = "attach" /\ link = "on" /\ attached'[k.tab] # None
     \/ step[1] = "enable" /\ (attached'[k.tab] = None \/ step[2] \in attached'[k.tab])

\* browser.open goes to the tab it is asked for, or makes one.
Opens(k, s) ==
  LET t == resolveTargetTabId(k.param) IN
  IF s[1][2] = "new" \/ t \notin groupTabs'
    THEN [k EXCEPT !.at = "run", !.todo = <<<<"create", "">>, <<"join", "">>>> \o Tail(s)]
    ELSE [k EXCEPT !.at = "run", !.todo = <<<<"navigate", "">>>> \o Tail(s), !.tab = t]

\* Command k goes on with the script s, up to its next await: it ends with the
\* script, and with a reference that is not known.
Goes(k, s) ==
  LET rest == From(s, {i \in 1 .. Len(s) : ~Passed(k, s[i])}) IN
  IF rest = <<>> \/ rest[1][1] = "ref" THEN Idle
  ELSE IF rest[1][1] = "open" THEN Opens(k, rest)
  ELSE [k EXCEPT !.at = "run", !.todo = rest]

\* Mutant: the error of the last step is dropped, and the request not ended.
Forgotten(k) ==
  IF Op(k) \in {"try", "hit", "poll"} THEN Goes(k, Tail(k.todo)) ELSE [k EXCEPT !.todo = <<>>]

\* What k awaited has failed.
Fails(k) == IF Op(k) \in {"try", "hit", "poll"} THEN Goes(k, Tail(k.todo)) ELSE Idle

Continue(c) == cmd' = [cmd EXCEPT ![c] = Goes(@, Tail(@.todo))]
FailStep(c) == cmd' = [cmd EXCEPT ![c] = Fails(@)]

\* Chrome rejects the CDP commands pending in the sessions of the tabs S.
Reject(S) ==
  cmd' = [c \in Commands |-> IF cmd[c].at = "sent" /\ cmd[c].tab \in S
                               THEN Fails(cmd[c]) ELSE cmd[c]]

-----------------------------------------------------------------------------
(* The tab group.                                                          *)

\* ensureTabGroup finds the group it had, or one titled Tether.
Found == IF groupId \in LiveGroups THEN {groupId} ELSE named \cap LiveGroups

Looks ==
  IF Found # {}
    THEN \E g \in Found : groupId' = g /\ groupTabs' = Members(g)
    ELSE IF groupId # None THEN groupId' = None /\ groupTabs' = {}
                           ELSE UNCHANGED <<groupId, groupTabs>>

getLiveTabs == IF groupId = None THEN Looks ELSE UNCHANGED <<groupId, groupTabs>>

\* The target of a request is resolved, and checked unless it needs none.
Asked(m, sel, p) ==
  [at    |-> IF m \in {"open", "status", "tab.list"} THEN "run" ELSE "checks",
   todo  |-> nativeHandlers(m, sel),
   param |-> p,
   tab   |-> resolveTargetTabId(p),
   held  |-> None,
   url   |-> 0,
   last  |-> IF m = "snapshot" THEN known ELSE None]

\* handleNativeMessage.
Asks(c) ==
  /\ cmd[c].at = "idle" /\ link = "on"
  /\ UNCHANGED <<chrome, events, link, worker, attached, attaching, maps, agent, seen, given>>
  /\ \E m \in IF budget.requests = MaxRequests THEN Methods ELSE Later :
       \E sel \in Forms(m), p \in {None} \cup Named :
         /\ m = "switch" => p # None
         /\ m \in {"status", "tab.list"} \/ sel \in {"new", "all"} => p = None
         /\ cmd' = [cmd EXCEPT ![c] = Asked(m, sel, p)]

\* The check has been answered, and the handler resolves its tab once more.
Checked(c) ==
  /\ cmd[c].at = "checks"
  /\ UNCHANGED <<chrome, events, link, active, attached, attaching, maps, agent, seen, given>>
  /\ IF cmd[c].tab # None THEN Looks ELSE UNCHANGED <<groupId, groupTabs>>
  /\ LET k == [cmd[c] EXCEPT !.tab = resolveTargetTabId(cmd[c].param)]
         inGroup == cmd[c].tab = None \/ group[cmd[c].tab] = groupId'
     IN  cmd' = [cmd EXCEPT ![c] =
                   IF inGroup /\ link = "on" /\ (k.tab # None \/ Op(k) = "list")
                     THEN Goes(k, k.todo) ELSE Idle]

\* Request k makes the group before it goes on with the script s: a tab in the
\* user's window or in one of Tether's own.
MakesGroup(k, where, s) ==
  [k EXCEPT !.held = None,
            !.todo = <<<<"create", where>>, <<"group", where>>, <<"title", where>>>> \o s]

\* ensureTabGroup(false), getLiveTabs, and ensureTabGroup(true), which may have
\* a group to create.
Look(c) ==
  /\ cmd[c].at = "run" /\ Op(cmd[c]) \in {"look", "live", "ensure"}
  /\ IF Op(cmd[c]) = "live" THEN getLiveTabs ELSE Looks
  /\ UNCHANGED <<chrome, events, link, active, attached, attaching, maps, agent, seen, given>>
  /\ IF Found # {} \/ Op(cmd[c]) # "ensure" THEN Continue(c)
     ELSE cmd' = [cmd EXCEPT ![c] = IF link # "on" THEN Idle ELSE MakesGroup(@, "tab", Tail(@.todo))]

\* A failure in the user's window leads to a window of Tether's own.
GroupFails(c) ==
  cmd' = [cmd EXCEPT ![c] =
    IF @.todo[1][2] # "tab" \/ link # "on" THEN Idle
    ELSE MakesGroup(@, "window", From(@.todo, {i \in 1 .. Len(@.todo) : @.todo[i][2] # "tab"}))]

\* chrome.tabs.create or chrome.windows.create.
Create(c) ==
  /\ cmd[c].at = "run" /\ Op(cmd[c]) = "create"
  /\ UNCHANGED <<named, page, web, tree, debugging, events, link, worker, attached, attaching,
                 maps, agent, seen>>
  /\ \/ \E t \in Tabs :
          /\ link = "on" /\ group[t] = "unborn"
          /\ group' = [group EXCEPT ![t] = "none"] /\ given' = given \cup {t}
          /\ cmd' = [cmd EXCEPT ![c] = Goes([@ EXCEPT !.held = t], Tail(@.todo))]
     \/ /\ link # "on" \/ \A t \in Tabs : group[t] # "unborn"
        /\ UNCHANGED <<group, given>> /\ GroupFails(c)

\* chrome.tabs.group for a group of its own, or into Tether's.
Group(c) ==
  LET t == cmd[c].held IN
  /\ cmd[c].at = "run" /\ Op(cmd[c]) \in {"group", "join"}
  /\ UNCHANGED <<named, page, web, tree, debugging, events, link, groupId, attached, attaching,
                 maps, agent, seen, given>>
  /\ LET to == IF Op(cmd[c]) = "group" THEN Groups \ LiveGroups ELSE LiveGroups \cap {groupId}
     IN  IF t \in Alive /\ to # {}
           THEN /\ \E g \in to : group' = [group EXCEPT ![t] = g]
                /\ IF Op(cmd[c]) = "join"
                     THEN /\ groupTabs' = groupTabs \cup {t} /\ active' = t
                          /\ cmd' = [cmd EXCEPT ![c] = Goes([@ EXCEPT !.tab = t], Tail(@.todo))]
                     ELSE UNCHANGED <<groupTabs, active>> /\ Continue(c)
           ELSE UNCHANGED <<group, groupTabs, active>> /\ GroupFails(c)

\* chrome.tabGroups.update, after which the group is Tether's.
Title(c) ==
  LET t == cmd[c].held IN
  /\ cmd[c].at = "run" /\ Op(cmd[c]) = "title"
  /\ UNCHANGED <<group, page, web, tree, debugging, events, link, attached, attaching, maps,
                 agent, seen, given>>
  /\ IF t \in Alive /\ group[t] \in Groups
       THEN /\ named' = named \cup {group[t]}
            /\ groupId' = group[t] /\ groupTabs' = {t} /\ active' = t /\ Continue(c)
       ELSE UNCHANGED <<named, worker>> /\ GroupFails(c)

\* chrome.tabs.get of a snapshot; the navigation asked of an existing tab
\* (which commits when Navigate happens); a pause.
Await(c) ==
  LET k == cmd[c]
      t == IF k.tab = None THEN k.param ELSE k.tab IN
  /\ k.at = "run" /\ Op(k) \in {"get", "navigate", "pause"}
  /\ UNCHANGED <<chrome, events, link, worker, attached, attaching, maps, agent, seen, given>>
  /\ CASE Op(k) = "get" -> cmd' = [cmd EXCEPT ![c] =
             Goes([@ EXCEPT !.url = IF t \in Alive THEN page[t] + 1 ELSE 0], Tail(@.todo))]
       [] Op(k) = "navigate" /\ ~(t \in Alive /\ t \in web /\ link = "on") -> FailStep(c)
       [] Op(k) = "pause" /\ link # "on" -> FailStep(c)
       [] OTHER -> Continue(c)

SwitchTab(c) ==
  LET t == cmd[c].param IN
  /\ cmd[c].at = "run" /\ Op(cmd[c]) = "switch"
  /\ UNCHANGED <<named, page, web, tree, debugging, events, link, groupId, attached, attaching,
                 maps, agent, seen>>
  /\ IF t \in Alive /\ t \in web /\ link = "on"
       THEN /\ active' = t /\ given' = given \cup {t}
            /\ IF groupId \in LiveGroups /\ group[t] # groupId
                 THEN group' = [group EXCEPT ![t] = groupId] /\ groupTabs' = groupTabs \cup {t}
                 ELSE UNCHANGED <<group, groupTabs>>
            /\ cmd' = [cmd EXCEPT ![c] = Goes([@ EXCEPT !.tab = t], Tail(@.todo))]
       ELSE UNCHANGED <<group, groupTabs, active, given>> /\ FailStep(c)

\* A tab is closed: its session ends with it.
Closes(S) ==
  /\ group' = [t \in Tabs |-> IF t \in S THEN "closed" ELSE group[t]]
  /\ debugging' = debugging \ S
  /\ events' = [t \in Tabs |-> IF t \in S /\ t \in debugging
                                 THEN Append(events[t], <<"detached", None>>) ELSE events[t]]

\* chrome.tabs.remove of one tab, or of the tabs of the group one by one.
RemoveTabs(c) ==
  LET k == cmd[c] IN
  /\ k.at = "run" /\ Op(k) \in {"remove", "list"}
  /\ UNCHANGED <<named, page, web, tree, link, active, attached, attaching, maps, agent, seen,
                 given>>
  /\ IF Op(k) = "list"
       THEN /\ getLiveTabs
            /\ LET live == SetToSeq(IF groupId' = None THEN {} ELSE Members(groupId'))
               IN  cmd' = [cmd EXCEPT ![c] = Goes(k, [i \in DOMAIN live |-> <<"remove", live[i]>>])]
            /\ UNCHANGED <<group, debugging, events>>
       ELSE LET t == IF k.todo[1][2] = "" THEN k.tab ELSE k.todo[1][2]
            IN  /\ UNCHANGED <<groupId, groupTabs>>
                /\ IF link # "on" THEN UNCHANGED <<group, debugging, events>> /\ FailStep(c)
                   ELSE /\ Closes({t} \cap Alive)
                        /\ cmd' = [d \in Commands |->
                             IF d = c THEN Goes(k, Tail(k.todo))
                             ELSE IF cmd[d].at = "sent" /\ cmd[d].tab = t THEN Fails(cmd[d])
                             ELSE cmd[d]]

-----------------------------------------------------------------------------
(* The debugger.                                                           *)

\* Mutant: attachingTabs is not looked at.
AttachesAgain(c) ==
  LET t == cmd[c].tab IN
  /\ cmd[c].at = "run" /\ Op(cmd[c]) = "attach"
  /\ UNCHANGED <<chrome, events, link, worker, attached, maps, agent, seen, given>>
  /\ IF link # "on" THEN UNCHANGED attaching /\ FailStep(c)
     ELSE /\ attaching' = [attaching EXCEPT ![t] = "check"]
          /\ cmd' = [cmd EXCEPT ![c].at = "attaching"]

\* ensureAttached of a tab that is not: it waits for the attachment that is in
\* progress, or starts one.
ensureAttached(c) ==
  LET t == cmd[c].tab IN
  /\ cmd[c].at = "run" /\ Op(cmd[c]) = "attach"
  /\ UNCHANGED <<chrome, events, link, worker, attached, maps, agent, seen, given>>
  /\ IF link # "on" THEN UNCHANGED attaching /\ FailStep(c)
     ELSE IF attached[t] # None THEN UNCHANGED attaching /\ Continue(c)
     ELSE /\ attaching' = IF attaching[t] = "no" THEN [attaching EXCEPT ![t] = "check"]
                                                 ELSE attaching
          /\ cmd' = [cmd EXCEPT ![c].at = "attaching"]

\* The promise in attachingTabs settles, for all who wait for it.
Settle(t, ok) ==
  /\ attaching' = [attaching EXCEPT ![t] = "no"]
  /\ cmd' = [c \in Commands |->
       IF cmd[c].at = "attaching" /\ cmd[c].tab = t
         THEN IF ok THEN Goes(cmd[c], Tail(cmd[c].todo)) ELSE Idle
         ELSE cmd[c]]

\* assertAutomationTab, chrome.debugger.attach, the focus emulation (whose
\* failure is ignored), and the detachment of a tab that came too late.
Attachment(t) ==
  /\ events[t] = <<>>
  /\ UNCHANGED <<group, named, page, web, tree, events, link, worker, maps, agent, seen, given>>
  /\ \/ /\ attaching[t] = "check"
        /\ UNCHANGED <<debugging, attached>>
        /\ IF t \in Alive /\ t \in web /\ link = "on"
             THEN attaching' = [attaching EXCEPT ![t] = "attach"] /\ UNCHANGED cmd
             ELSE Settle(t, FALSE)
     \/ /\ attaching[t] = "attach"
        /\ IF t \in (Alive \cap web) \ debugging
             THEN /\ debugging' = debugging \cup {t}
                  /\ attached' = IF link = "on" THEN [attached EXCEPT ![t] = {}] ELSE attached
                  /\ attaching' = [attaching EXCEPT ![t] = IF link = "on" THEN "focus" ELSE "undo"]
                  /\ UNCHANGED cmd
             ELSE UNCHANGED <<debugging, attached>> /\ Settle(t, FALSE)
     \/ /\ attaching[t] = "focus" /\ UNCHANGED <<debugging, attached>> /\ Settle(t, TRUE)
     \/ /\ attaching[t] = "undo"
        /\ debugging' = debugging \ {t} /\ UNCHANGED attached /\ Settle(t, FALSE)

Calls == {"cdp", "try", "hit", "poll", "tree", "enable"}

\* cdp: the tab is checked again, then the command goes to the debugger.
cdp(c) ==
  LET k == cmd[c] IN
  /\ k.at = "run" /\ Op(k) \in Calls
  /\ UNCHANGED <<chrome, events, link, worker, attached, attaching, maps, agent, seen, given>>
  /\ IF link = "on" /\ k.tab \in Alive /\ k.tab \in web
       THEN cmd' = [cmd EXCEPT ![c].at = "sent"] ELSE FailStep(c)

\* The page's answer.  A hit test may find the target covered, a poll its
\* element.
Answered(c) ==
  LET k == cmd[c] IN
  /\ k.at = "sent" /\ Op(k) # "tree" /\ events[k.tab] = <<>> /\ k.tab \in debugging
  /\ UNCHANGED <<chrome, events, link, worker, attaching, maps, agent, seen, given>>
  /\ attached' = IF Op(k) = "enable" /\ attached[k.tab] # None
                   THEN [attached EXCEPT ![k.tab] = @ \cup {k.todo[1][2]}] ELSE attached
  /\ \/ Continue(c)
     \/ Op(k) \in {"hit", "poll"} /\ cmd' = [cmd EXCEPT ![c] = Idle]

\* Chrome's error, or CDP_TIMEOUT_MS.
TimedOut(c) ==
  /\ cmd[c].at = "sent"
  /\ UNCHANGED <<chrome, events, link, worker, attached, attaching, maps, agent, seen, given>>
  /\ FailStep(c)

\* The fingerprint of the address and title and of the nodes, `focused` left out:
\* 32 bits, taken here as telling all apart that they are made from.
computeTreeHash(url, nodes) == <<url, nodes.text>>

\* Mutant: the fingerprint is of the address and title only.
AddressOnly(t, hash) ==
  IF snaps[t] = None THEN 1
  ELSE IF snaps[t].hash[1] = hash[1] THEN snaps[t].generation ELSE snaps[t].generation + 1

\* The tree of a snapshot: references and generation are replaced in the step
\* that gets it.  The fingerprint is of the address and title read before, and
\* of the tree.
Generation(t, hash) ==
  IF snaps[t] = None THEN 1
  ELSE IF snaps[t].hash = hash THEN snaps[t].generation ELSE snaps[t].generation + 1

\* What the answer says of the snapshot `last` that the agent has named, and what is so.
Compared(last, now) ==
  IF last = None \/ last.tab # now.tab THEN Nothing
  ELSE [unmodified     |-> last.generation = now.generation,
        samePage       |-> last.page = now.page,
        sameConnection |-> last.current,
        sameText       |-> last.tree.text = now.tree.text,
        sameTree       |-> last.tree = now.tree]

\* The answer is lost when the helper is.
Snapshot(c) ==
  LET k == cmd[c]
      t == k.tab
      hash == computeTreeHash(k.url, tree[t])
      now  == [tab |-> t, page |-> page[t], tree |-> tree[t],
               generation |-> Generation(t, hash), current |-> TRUE] IN
  /\ k.at = "sent" /\ Op(k) = "tree" /\ events[t] = <<>> /\ t \in debugging
  /\ refs' = [refs EXCEPT ![t] = page[t]]
  /\ snaps' = [snaps EXCEPT ![t] = [generation |-> now.generation, hash |-> hash]]
  /\ \/ known' = now /\ verdict' = Compared(k.last, now)
     \/ UNCHANGED agent
  /\ UNCHANGED <<chrome, events, link, worker, attached, attaching, seen, given>>
  /\ Continue(c)

-----------------------------------------------------------------------------
(* What Chrome, the pages and the user do, and what the worker is told.    *)

Tell(t, e) == events' = [events EXCEPT ![t] = Append(@, e)]

\* Another document, of a page automation may use or not, is committed (in a
\* tab of Tether: what the user's other tabs show is never asked).
Navigate(t) ==
  /\ t \in Alive \cap given
  /\ page' = [page EXCEPT ![t] = @ + 1]
  /\ tree' = [tree EXCEPT ![t] = [text |-> @.text + 1, focus |-> 0]]
  /\ \/ web' = web \cup {t} /\ Tell(t, <<"loading", None>>)
     \/ web' = web \ {t}    /\ Tell(t, <<"internal", None>>)
  /\ UNCHANGED <<group, named, debugging, link, worker, attached, attaching, maps, cmd, agent,
                 seen, given>>

\* The document gets another address, by its history or a fragment, and shows what it
\* did: the worker is told as of a navigation.  Nobody who has no snapshot could tell
\* it from one, which is why a run may leave such changes out (`Early').
ChangesAddress(t) ==
  /\ t \in Alive \cap given \cap web /\ (Early \/ known # None)
  /\ page' = [page EXCEPT ![t] = @ + 1] /\ Tell(t, <<"loading", None>>)
  /\ UNCHANGED <<group, named, web, tree, debugging, link, worker, attached, attaching, maps, cmd,
                 agent, seen, given>>

\* The page changes its content, or only its focus.
Redraw(t) ==
  /\ t \in Alive /\ (Early \/ known # None)
  /\ \/ tree' = [tree EXCEPT ![t].text = @ + 1]
     \/ tree' = [tree EXCEPT ![t].focus = @ + 1]
  /\ UNCHANGED <<group, named, page, web, debugging, events, link, worker, attached, attaching,
                 maps, cmd, agent, seen, given>>

\* The user dismisses Chrome's debugging bar.
UserDetaches(t) ==
  /\ t \in debugging
  /\ UNCHANGED <<group, named, page, web, tree, link, worker, attached, attaching, maps, agent,
                 seen, given>>
  /\ debugging' = debugging \ {t} /\ Tell(t, <<"detached", None>>) /\ Reject({t})

UserCloses(t) ==
  /\ t \in Alive
  /\ UNCHANGED <<named, page, web, tree, link, worker, attached, attaching, maps, agent, seen,
                 given>>
  /\ Closes({t}) /\ Reject({t})

UserActivates(t) ==
  /\ t \in Alive /\ Tell(t, <<"activated", None>>)
  /\ UNCHANGED <<chrome, link, worker, attached, attaching, maps, cmd, agent, seen, given>>

\* The user drags a tab into a group titled Tether, or out of it.
UserDrags(t) ==
  /\ t \in Alive
  /\ \E g \in (named \cap LiveGroups) \cup {"none"} :
       /\ group' = [group EXCEPT ![t] = g]
       /\ given' = IF g = "none" THEN given ELSE given \cup {t}
  /\ UNCHANGED <<named, page, web, tree, debugging, events, link, worker, attached, attaching,
                 maps, cmd, agent, seen>>

\* A page opens a tab.
PageOpens(t, opener) ==
  /\ group[t] = "unborn" /\ opener \in Alive
  /\ group' = [group EXCEPT ![t] = "none"]
  /\ Tell(t, <<"created", opener>>)
  /\ UNCHANGED <<named, page, web, tree, debugging, link, worker, attached, attaching, maps, cmd,
                 agent, seen, given>>

Joins(t) == link = "on" /\ groupId # None /\ group[t] = groupId

\* chrome.tabs.onUpdated.
onUpdated(t) ==
  LET internal == Head(events[t])[1] = "internal" /\ link = "on" IN
  /\ Head(events[t])[1] \in {"loading", "internal"}
  /\ seen' = [seen EXCEPT ![t] = @ + 1]
  /\ IF link = "on" THEN refs' = [refs EXCEPT ![t] = None] /\ snaps' = [snaps EXCEPT ![t] = None]
                    ELSE UNCHANGED maps
  /\ groupTabs' = IF internal THEN groupTabs \ {t}
                  ELSE IF Joins(t) THEN groupTabs \cup {t} ELSE groupTabs
  /\ debugging' = IF internal /\ attached[t] # None THEN debugging \ {t} ELSE debugging
  /\ UNCHANGED <<group, groupId, active, attached, given>>
  /\ Reject(debugging \ debugging')

\* chrome.debugger.onDetach.
onDetach(t) ==
  /\ Head(events[t])[1] = "detached"
  /\ attached' = [attached EXCEPT ![t] = None] /\ refs' = [refs EXCEPT ![t] = None]
  /\ UNCHANGED <<group, debugging, worker, snaps, cmd, seen, given>>

\* Chrome answers the worker: after what it was told of the tab before.
Answer(t, e) == events' = [events EXCEPT ![t] = Append(Tail(@), e)]
Taken(t)     == events' = [events EXCEPT ![t] = Tail(@)]
Adopts(t)    == groupTabs' = groupTabs \cup {t} /\ active' = t

\* Mutant: whatever tab the user looks at becomes the agent's.
AnyLookedAt(t) ==
  /\ Head(events[t])[1] = "looked" /\ Taken(t)
  /\ Adopts(t)
  /\ UNCHANGED <<group, debugging, groupId, attached, maps, cmd, seen, given>>

\* chrome.tabs.onActivated: the group of the tab is asked for ...
onActivated(t) ==
  /\ Head(events[t])[1] = "activated"
  /\ IF link = "on" THEN Answer(t, <<"looked", group[t]>>) ELSE Taken(t)
  /\ UNCHANGED <<group, debugging, worker, attached, maps, cmd, seen, given>>

\* ... and compared, when it comes, with the group there is by then.
LookedAt(t) ==
  /\ Head(events[t])[1] = "looked" /\ Taken(t)
  /\ IF groupId # None /\ Head(events[t])[2] = groupId
       THEN Adopts(t) ELSE UNCHANGED <<active, groupTabs>>
  /\ UNCHANGED <<group, debugging, groupId, attached, maps, cmd, seen, given>>

\* chrome.tabs.onCreated: the tab that a page of the group opened is grouped, ...
onCreated(t) ==
  LET opener == Head(events[t])[2] IN
  /\ Head(events[t])[1] = "created"
  /\ given' = IF opener \in given THEN given \cup {t} ELSE given
  /\ IF link # "on" \/ opener \notin groupTabs
       THEN Taken(t) /\ UNCHANGED <<group, groupTabs, active>>
     ELSE IF groupId = None THEN Taken(t) /\ Adopts(t) /\ UNCHANGED group
     ELSE /\ Answer(t, <<"joined", None>>) /\ UNCHANGED <<groupTabs, active>>
          /\ \/ groupId \in LiveGroups /\ t \in Alive /\ group' = [group EXCEPT ![t] = groupId]
             \/ UNCHANGED group
  /\ UNCHANGED <<debugging, groupId, attached, maps, cmd, seen>>

\* ... and is the agent's when Chrome has answered, or failed to.
Joined(t) ==
  /\ Head(events[t])[1] = "joined" /\ Taken(t) /\ Adopts(t)
  /\ UNCHANGED <<group, debugging, groupId, attached, maps, cmd, seen, given>>

Deliver(t) ==
  /\ events[t] # <<>>
  /\ \/ (onUpdated(t) \/ onDetach(t)) /\ Taken(t)
     \/ onActivated(t) \/ LookedAt(t) \/ onCreated(t) \/ Joined(t)
  /\ UNCHANGED <<named, page, web, tree, link, attaching, agent>>

Sessions == {t \in Tabs : attached[t] # None}

\* The snapshot r is one of an earlier connection, which the agent does not know.
Earlier(r) == IF r = None THEN None ELSE [r EXCEPT !.current = FALSE]

RejectAll(S) ==
  cmd' = [c \in Commands |->
            [(IF cmd[c].at = "sent" /\ cmd[c].tab \in S THEN Fails(cmd[c]) ELSE cmd[c])
               EXCEPT !.last = Earlier(@)]]

\* disconnectTether, as far as tabs go: the attachments in progress are
\* awaited, the tabs detached, the maps cleared.
Disconnect ==
  /\ link = "on" /\ link' = "off"
  /\ UNCHANGED <<chrome, events, worker, attached, attaching, maps, cmd, agent, seen, given>>

\* Mutant: the references survive a Disconnect.
DetachedOnly ==
  /\ link = "off" /\ \A t \in Tabs : attaching[t] = "no"
  /\ \A t \in Sessions : events[t] = <<>>
  /\ link' = "cleared"
  /\ debugging' = debugging \ Sessions /\ attached' = [t \in Tabs |-> None]
  /\ known' = Earlier(known)
  /\ UNCHANGED <<group, named, page, web, tree, events, worker, attaching, maps, verdict, seen,
                 given>>
  /\ RejectAll(Sessions)

Detached ==
  /\ link = "off" /\ \A t \in Tabs : attaching[t] = "no"
  /\ \A t \in Sessions : events[t] = <<>>
  /\ link' = "cleared"
  /\ debugging' = debugging \ Sessions /\ attached' = [t \in Tabs |-> None]
  /\ refs' = [t \in Tabs |-> None] /\ snaps' = [t \in Tabs |-> None]
  /\ RejectAll(Sessions)
  /\ known' = Earlier(known)
  /\ UNCHANGED <<group, named, page, web, tree, events, worker, attaching, verdict, seen, given>>

\* A Disconnect has waited for the requests that were in progress.
Connect ==
  /\ link = "cleared" /\ link' = "on"
  /\ \A c \in Commands : cmd[c].at = "idle"
  /\ UNCHANGED <<chrome, events, worker, attached, attaching, maps, cmd, agent, seen, given>>

-----------------------------------------------------------------------------
Work(c) ==
  \/ Checked(c) \/ Look(c) \/ Create(c) \/ Group(c) \/ Title(c) \/ Await(c)
  \/ SwitchTab(c) \/ RemoveTabs(c) \/ ensureAttached(c) \/ cdp(c) \/ TimedOut(c)

\* One budget for what the user does, one for what the pages do.
UserMove ==
  /\ budget.user > 0 /\ budget' = [budget EXCEPT !.user = @ - 1]
  /\ \/ Disconnect
     \/ \E t \in Tabs : \/ UserDetaches(t) \/ UserCloses(t) \/ UserActivates(t) \/ UserDrags(t)

PageMove ==
  /\ budget.page > 0 /\ budget' = [budget EXCEPT !.page = @ - 1]
  /\ \E t \in Tabs : Navigate(t) \/ ChangesAddress(t) \/ Redraw(t) \/ \E o \in Tabs : PageOpens(t, o)

Request ==
  /\ budget.requests > 0 /\ budget' = [budget EXCEPT !.requests = @ - 1]
  /\ \E c \in Commands : Asks(c)

React == \/ \E c \in Commands : Work(c) \/ Answered(c) \/ Snapshot(c)
         \/ \E t \in Tabs : Attachment(t) \/ Deliver(t)
         \/ Detached \/ Connect

Next == UserMove \/ PageMove \/ Request \/ (React /\ UNCHANGED budget)

Spec == Init /\ [][Next]_vars

-----------------------------------------------------------------------------
TypeOK ==
  /\ group \in [Tabs -> Groups \cup {"none", "unborn", "closed"}] /\ named \subseteq Groups
  /\ page \in [Tabs -> 0 .. MaxMoves]
  /\ tree \in [Tabs -> [text : 0 .. MaxMoves, focus : 0 .. MaxMoves]]
  /\ web \cup debugging \cup groupTabs \cup given \subseteq Tabs
  /\ link \in {"on", "off", "cleared"} /\ groupId \in Groups \cup {None}
  /\ active \in Tabs \cup {None} /\ refs \in [Tabs -> (0 .. MaxMoves) \cup {None}]
  /\ attaching \in [Tabs -> {"no", "check", "attach", "focus", "undo"}]
  /\ attached \in [Tabs -> {None} \cup SUBSET Domains]
  /\ \A c \in Commands : /\ cmd[c].at \in {"idle", "checks", "run", "attaching", "sent"}
                         /\ (cmd[c].at = "idle") = (cmd[c].todo = <<>>)

\* The references of a tab were made from the document the worker was last
\* told of: a navigation, a detachment or a reconnection leaves none behind.
RefsOfSeenPage ==
  link = "on" => \A t \in Tabs : refs[t] \in {None, seen[t]}

\* The tab a request acts on by default is one the user once gave to Tether, or
\* Tether or a page of its tabs opened: browsing tabs that were never Tether's does not
\* redirect the agent.
OwnTabs == active # None => active \in given

\* Within a document at one address, and one connection, a snapshot is told unmodified
\* only if what it shows is, but for the focus: whatever other snapshots were taken in
\* between, with answers that were lost, detachments and addresses read too early.
UnmodifiedIsSame ==
  verdict.unmodified /\ verdict.samePage /\ verdict.sameConnection => verdict.sameText

\* "Hash of the tree structure and all observable states" (protocol/snapshot.go:62):
\* the same with the focus, which is left out here (background.js:636).
FocusIsTracked ==
  verdict.unmodified /\ verdict.samePage /\ verdict.sameConnection => verdict.sameTree

\* "Real generation and modified state tracking" (CHANGELOG.md:126): the same for
\* every snapshot of a document that the agent has, before a reconnection too, which
\* starts the generations again.
GenerationIsReal == verdict.unmodified /\ verdict.samePage => verdict.sameText

\* The same for every two snapshots of a tab: false as well, since a navigation starts
\* the generations of the tab again.
UnmodifiedIsSamePage == verdict.unmodified => verdict.sameText

\* A request that waits for the attachment of a tab waits for one in progress:
\* those who share an attachment are all woken by its end.
WaitersAwaited ==
  \A c \in Commands : cmd[c].at = "attaching" => attaching[cmd[c].tab] # "no"

\* chrome.debugger.attach is never asked for a tab that has a session, whatever
\* requests reach it together and however it was detached before.
AttachOnce == \A t \in Tabs : attaching[t] = "attach" => t \notin debugging

\* Requests share the attachment of a tab: none is asked for twice, and those who
\* wait for one are woken by its end.
AttachmentsShared == AttachOnce /\ WaitersAwaited
=============================================================================
