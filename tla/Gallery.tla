------------------------------ MODULE Gallery ------------------------------
(***************************************************************************)
(* The screenshot gallery: the popup that shows it and writes it           *)
(* (packages/extension/popup.js), the service worker that adds area        *)
(* captures to it and queues the work on files (background.js), and the    *)
(* helper that saves, mirrors and deletes the files                        *)
(* (cmd/tether/screenshots.go).                                            *)
(*                                                                         *)
(* The gallery is one value of chrome.storage.local that the popup and the *)
(* worker overwrite as a whole.  A list is a function from the captures in *)
(* it to their entries: what an entry says of the copy on the server.      *)
(***************************************************************************)
EXTENDS Naturals, Sequences

CONSTANTS Shots,    \* the captures, by file name
          Viewed,   \* those taken with the buttons of the popup; the others are areas
          Old,      \* captures of an earlier session, whose entries may lack the host
          Hosts,    \* the servers
          NoServer,
          MaxOpens, \* bound on the times the popup is opened
          MaxActs   \* bound on the captures and deletions together

ASSUME ShotsAssumption == Viewed \subseteq Shots /\ Old \cap Shots = {}
ASSUME HostsAssumption == NoServer \notin Hosts

VARIABLES
  storage,   \* tether_screenshots
  local,     \* the files of the helper's screenshot directory
  remote,    \* the copies on the servers
  made,      \* every copy there ever was
  taken,     \* how far each capture is
  entry,     \* the entry each capture will get
  got,       \* the gallery as the job of an area read it
  opens,     \* the times the popup may still be opened
  open,      \* the popup is open
  shots,     \* currentShots
  replies,   \* the lists that answers of storage calls will assign to it, in order
  handler,   \* the Delete and the Clear of the popup: none, waiting for a status,
             \* for the user's answer, for a storage call, or for the files
  asked,     \* the destinations of each
  acts,      \* the captures and deletions the user may still ask for
  queue,     \* screenshotFiles: the requests, in order, and whether each still has
             \* the local files to delete (`here')
  removed    \* what Delete and Clear took out, with its server

files   == <<local, remote, made>>
takes   == <<taken, entry, got>>
view    == <<opens, open, shots, replies>>
deletes == <<handler, asked, acts, queue, removed>>
gallery == <<storage, files, takes, view, deletes>>

All   == Shots \cup Old
Keys  == {"delete", "clear"}
Server == Hosts \cup {NoServer}
Entry == [host : Server, path : BOOLEAN]
Kept(h, p) == [host |-> h, path |-> p]
Empty == [s \in {} |-> Kept(NoServer, FALSE)]

GalleryInit ==
  /\ \E h \in Hosts :
       /\ remote = {h} \X Old
       /\ storage \in {[s \in Old |-> Kept(h, TRUE)], [s \in Old |-> Kept(NoServer, TRUE)]}
  /\ local = Old /\ made = remote
  /\ taken = [s \in Shots |-> "no"] /\ entry = [s \in Shots |-> Kept(NoServer, FALSE)]
  /\ got = [s \in Shots |-> Empty]
  /\ opens = MaxOpens /\ open = FALSE /\ shots = Empty /\ replies = <<>>
  /\ handler = [k \in Keys |-> "none"] /\ asked = [k \in Keys |-> Empty]
  /\ acts = MaxActs /\ queue = <<>> /\ removed = {}

-----------------------------------------------------------------------------
(* The popup and its list.                                                 *)

\* The answer of a storage call: a list to assign, and the handler that goes on.
Answer(list, k) == [list |-> list, for |-> k]

\* The list is read now and assigned when the answer comes.
loadScreenshots == replies' = Append(replies, Answer(storage, "none"))

\* The tab of the screenshots is chosen (one load at a time).
selectTab ==
  /\ open /\ replies = <<>> /\ loadScreenshots
  /\ UNCHANGED <<storage, files, takes, opens, open, shots, deletes>>

\* The popup opens, and shows nothing until its list is read.
OpenPopup ==
  /\ ~open /\ opens > 0 /\ opens' = opens - 1
  /\ open' = TRUE /\ shots' = Empty /\ replies' = <<Answer(storage, "none")>>
  /\ UNCHANGED <<storage, files, takes, deletes>>

\* It closes at any time, with its handlers; what it sent is done all the same.
ClosePopup ==
  /\ open /\ open' = FALSE /\ shots' = Empty /\ replies' = <<>>
  /\ handler' = [k \in Keys |-> "none"] /\ asked' = [k \in Keys |-> Empty]
  /\ taken' = [s \in Shots |-> CASE s \in Viewed /\ taken[s] = "asked" -> "gone"
                                  [] s \in Viewed /\ taken[s] = "saved" -> "lost"
                                  [] OTHER -> taken[s]]
  /\ queue' = [i \in DOMAIN queue |-> [queue[i] EXCEPT !.reply = FALSE]]
  /\ UNCHANGED <<storage, files, entry, got, opens, acts, removed>>

\* saveScreenshots: written at once, and taken over when the answer comes.
saveScreenshots(list, k) == storage' = list /\ replies' = Append(replies, Answer(list, k))

\* A request on files goes to the worker, which serves them in order.
Send(k, d) ==
  /\ handler' = [handler EXCEPT ![k] = "files"]
  /\ asked' = [asked EXCEPT ![k] = d]
  /\ queue' = Append(queue, [kind |-> k, shots |-> d, reply |-> TRUE, here |-> TRUE])

\* A storage call is answered; a destination that was being recorded is used.
Reply ==
  /\ open /\ replies # <<>> /\ replies' = Tail(replies)
  /\ shots' = Head(replies).list
  /\ LET k == Head(replies).for IN
     IF k \in Keys THEN Send(k, asked[k]) ELSE UNCHANGED <<handler, asked, queue>>
  /\ UNCHANGED <<storage, files, takes, opens, open, acts, removed>>

\* Typing feedback writes the list the popup has.
Comment ==
  /\ open /\ DOMAIN shots # {} /\ storage' = shots
  /\ UNCHANGED <<files, takes, view, deletes>>

\* The copies on servers that the popup shows of a list, and those its report names.
updateShotsUI(list) == {<<list[s].host, s>> : s \in {t \in DOMAIN list : list[t].path}}
formatScreenshotsReport(list) == {c \in updateShotsUI(list) : c[1] # NoServer}

-----------------------------------------------------------------------------
(* Captures.                                                               *)

\* A button of the popup, or an area of the page.
Capture(s) ==
  /\ taken[s] = "no" /\ (s \in Viewed => open)
  /\ acts > 0 /\ acts' = acts - 1
  /\ taken' = [taken EXCEPT ![s] = "asked"]
  /\ UNCHANGED <<storage, files, entry, got, view, handler, asked, queue, removed>>

\* Mutant: the server is shown whether or not the copy was made.
UnmirroredEntry(h, mirrored) == Kept(h, h # NoServer)

\* The path is kept only for a copy that was made.
SavedEntry(h, mirrored) == Kept(IF mirrored THEN h ELSE NoServer, mirrored)

\* The helper saves the file, then its copy; what it did is known or not.
SaveShot(s) ==
  /\ taken[s] \in {"asked", "gone"}
  /\ \E done \in {"nothing", "local", "copy"}, known \in BOOLEAN, host \in Server :
       /\ done = "copy" => host # NoServer
       /\ local' = IF done = "nothing" THEN local ELSE local \cup {s}
       /\ remote' = IF done = "copy" THEN remote \cup {<<host, s>>} ELSE remote
       /\ made' = made \cup remote'
       /\ entry' = [entry EXCEPT ![s] =
            SavedEntry(IF known /\ done # "nothing" THEN host ELSE NoServer,
                       known /\ done = "copy")]
  /\ taken' = [taken EXCEPT ![s] = IF @ = "asked" THEN "saved" ELSE "lost"]
  /\ UNCHANGED <<storage, got, view, deletes>>

\* A list with a capture before the others.
WithShot(s, list) == [x \in {s} \cup DOMAIN list |-> IF x = s THEN entry[s] ELSE list[x]]

\* The popup puts its capture before the list it has.
AddViewed(s) ==
  /\ s \in Viewed /\ taken[s] = "saved" /\ open
  /\ saveScreenshots(WithShot(s, shots), "none")
  /\ taken' = [taken EXCEPT ![s] = "in"] /\ entry' = [entry EXCEPT ![s] = Kept(NoServer, FALSE)]
  /\ UNCHANGED <<files, got, opens, open, shots, deletes>>

\* The worker reads the gallery,
ReadGallery(s) ==
  /\ s \notin Viewed /\ taken[s] = "saved"
  /\ got' = [got EXCEPT ![s] = storage] /\ taken' = [taken EXCEPT ![s] = "read"]
  /\ UNCHANGED <<storage, files, entry, view, deletes>>

\* and writes it with its capture.
AddArea(s) ==
  /\ taken[s] = "read" /\ storage' = WithShot(s, got[s])
  /\ taken' = [taken EXCEPT ![s] = "in"] /\ got' = [got EXCEPT ![s] = Empty]
  /\ entry' = [entry EXCEPT ![s] = Kept(NoServer, FALSE)]
  /\ UNCHANGED <<files, view, deletes>>

-----------------------------------------------------------------------------
(* Deletion.                                                               *)

\* The destinations of the captures S of the popup's list.
Destinations(S) == [s \in S |-> [host |-> shots[s].host, path |-> shots[s].path]]

Unknown(d) == {s \in DOMAIN d : d[s].path /\ d[s].host = NoServer}

\* Delete of a capture, or Clear; the server of an old entry is asked for first.
AskDelete(k) ==
  /\ open /\ handler[k] = "none" /\ acts > 0 /\ acts' = acts - 1
  /\ \E S \in IF k = "clear" THEN {DOMAIN shots} ELSE {{s} : s \in DOMAIN shots} :
       /\ S # {}
       /\ IF Unknown(Destinations(S)) = {}
          THEN Send(k, Destinations(S))
          ELSE /\ handler' = [handler EXCEPT ![k] = "status"] /\ UNCHANGED queue
               /\ asked' = [asked EXCEPT ![k] = Destinations(S)]
  /\ UNCHANGED <<storage, files, takes, view, removed>>

\* The user confirms the connected server, which is recorded; or there is none,
\* or the user refuses.
screenshotDestination(k) ==
  /\ open /\ handler[k] = "status"
  /\ \/ \E host \in Hosts :
        /\ asked' = [asked EXCEPT ![k] =
             [s \in DOMAIN @ |-> IF s \in Unknown(@) THEN [@[s] EXCEPT !.host = host] ELSE @[s]]]
        /\ handler' = [handler EXCEPT ![k] = "record"]
        /\ saveScreenshots([s \in DOMAIN shots |->
             IF s \in Unknown(asked[k]) THEN [shots[s] EXCEPT !.host = host] ELSE shots[s]], k)
        /\ UNCHANGED queue
     \/ Send(k, asked[k]) /\ UNCHANGED <<storage, replies>>
  /\ UNCHANGED <<files, takes, opens, open, shots, acts, removed>>

\* Mutant: a copy is looked for on whatever server is connected.
DeletedAnywhere(d, host) ==
  {s \in DOMAIN d : d[s].path => d[s].host # NoServer /\ host[s] # NoServer}

\* deleteRemoteScreenshot: the copies that are on the server connected at their turn.
DeletedRemote(d, host) ==
  {s \in DOMAIN d : d[s].path => d[s].host # NoServer /\ d[s].host = host[s]}

\* The popup hears what is left, or that the request failed.
Tells(r, pc, left) ==
  IF r.reply THEN /\ handler' = [handler EXCEPT ![r.kind] = pc]
                  /\ asked' = [asked EXCEPT ![r.kind] = left]
             ELSE UNCHANGED <<handler, asked>>

\* The files that a request is to delete here.
LocalFiles(r) == IF r.kind = "clear" THEN local ELSE local \cap DOMAIN r.shots

\* Mutant: a file that cannot be removed is passed over.
LocalAnyway(r, gone) == TRUE

\* A request goes on to the copies only when every file is removed.
LocalDeleted(r, gone) == gone = LocalFiles(r)

\* The helper removes the local file, or all of them; it stops at the first that it
\* cannot remove, or is stopped, and the request has failed.
DeleteLocal ==
  /\ queue # <<>> /\ Head(queue).here
  /\ LET r == Head(queue) IN
     \E gone \in SUBSET LocalFiles(r) :
       /\ local' = local \ gone
       /\ \/ /\ LocalDeleted(r, gone)
             /\ queue' = [queue EXCEPT ![1].here = FALSE]
             /\ UNCHANGED <<handler, asked>>
          \/ queue' = Tail(queue) /\ Tells(r, "none", Empty)
  /\ UNCHANGED <<storage, remote, made, takes, view, acts, removed>>

\* Then the copies in turn, each on the server connected by then, as far as it gets;
\* the answer may be lost.
DeleteFiles ==
  /\ queue # <<>> /\ ~Head(queue).here /\ queue' = Tail(queue)
  /\ LET r == Head(queue) IN
     \E host \in [DOMAIN r.shots -> Server] : \E there \in SUBSET DeletedRemote(r.shots, host) :
       LET answer == [s \in DOMAIN r.shots |->
             [host |-> r.shots[s].host, path |-> r.shots[s].path /\ s \notin there]] IN
       /\ remote' = remote \ {<<host[s], s>> : s \in there}
       /\ Tells(r, "answer", answer) \/ Tells(r, "none", Empty)
  /\ UNCHANGED <<storage, local, made, takes, view, acts, removed>>

\* The request is not served: Tether disconnects, or there is no helper.
RefuseFiles ==
  /\ queue # <<>> /\ Head(queue).here
  /\ queue' = Tail(queue) /\ Tells(Head(queue), "none", Empty)
  /\ UNCHANGED <<storage, files, takes, view, acts, removed>>

\* What is gone; a capture whose copy is left stays, with the reason.
Dropped(k) == {s \in DOMAIN asked[k] : ~asked[k][s].path}

RemoveEntries(k) ==
  /\ open /\ handler[k] = "answer"
  /\ saveScreenshots([s \in DOMAIN shots \ Dropped(k) |-> shots[s]], "none")
  /\ removed' = removed \cup {<<asked[k][s].host, s>> : s \in Dropped(k)}
  /\ handler' = [handler EXCEPT ![k] = "none"] /\ asked' = [asked EXCEPT ![k] = Empty]
  /\ UNCHANGED <<files, takes, opens, open, shots, acts, queue>>

GalleryNext ==
  \/ selectTab \/ OpenPopup \/ ClosePopup \/ Reply \/ Comment
  \/ \E s \in Shots : Capture(s) \/ SaveShot(s) \/ AddViewed(s) \/ ReadGallery(s) \/ AddArea(s)
  \/ \E k \in Keys : AskDelete(k) \/ screenshotDestination(k) \/ RemoveEntries(k)
  \/ DeleteLocal \/ DeleteFiles \/ RefuseFiles

GallerySpec == GalleryInit /\ [][GalleryNext]_gallery

-----------------------------------------------------------------------------

\* The gallery and its report name a server for a capture only if a copy was made
\* there, whatever lists were overwritten since; that of an old entry without a
\* host is what the user said (README.md:235).
ServerPathIsCopy ==
  /\ {c \in updateShotsUI(shots) : c[2] \in Shots} \subseteq made
  /\ {c \in formatScreenshotsReport(storage) : c[2] \in Shots} \subseteq made

\* What Delete or Clear took out of the gallery has no file left: not here, and not
\* on the server its entry named, though servers were changed, answers lost and
\* popups closed meanwhile (popup.js:134-152, 770-803; screenshots.go:147-167).
RemovedIsGone == \A r \in removed : r[2] \notin local /\ r \notin remote

\* A capture that was put into the gallery stays until a Delete or a Clear takes it
\* out (README.md:233).
CapturesStay ==
  \A s \in Shots : taken[s] = "in" /\ (\A h \in Server : <<h, s>> \notin removed)
                     => s \in DOMAIN storage
=============================================================================
