------------------------------- MODULE Review -------------------------------
(***************************************************************************)
(* The review overlay of a page (packages/extension/review/overlay.js) and *)
(* the parts of the service worker that drive it (background.js): pinned   *)
(* notes, their card, and the area captures that take the page over for a  *)
(* selection and give it back.                                             *)
(*                                                                         *)
(* The page is one thread: each of its handlers is one action.  The worker *)
(* evaluates expressions in it, one action each; a capture is a job of the *)
(* worker that goes on while the page, the user and other jobs act.  What  *)
(* notes say and where things are drawn is left out.                       *)
(***************************************************************************)
EXTENDS Integers, Sequences, FiniteSets

CONSTANTS Elements,   \* the elements of the page that may be annotated
          None,
          MaxNotes,   \* bound on the notes of a page
          Crops,      \* the area captures, by their request ids
          MaxReloads  \* bound on the documents the tab goes through

ASSUME ElementsAssumption == None \notin Elements
ASSUME BoundsAssumption == MaxNotes \in Nat /\ MaxReloads \in Nat
ASSUME CropsAssumption == Crops \cap {None, "cancelled", "note"} = {}
ASSUME ResumesAssumption == None \notin [active : BOOLEAN, armed : BOOLEAN, hidden : BOOLEAN]

VARIABLES
  loaded,     \* window.__tetherReview exists in the tab's document
  active,     \* .active
  armed,      \* .armed: a click picks an element
  listening,  \* the listeners of the window are registered
  tracking,   \* .rafId: the loop that places the badges runs
  catching,   \* the host element takes pointer events
  reticle,    \* the frame around the hovered element is shown
  modalOpen,  \* .modalOpen
  editing,    \* .editingNote, by its index, or 0
  pending,    \* .selectedEl and .pendingPayload
  notes,      \* .notes: the element of each
  pins,       \* the ids in the data-tether-pin of each element
  badges,     \* .markerElements, by note
  clickable,  \* the badges that take clicks
  dockCount,  \* the number on the dock
  rows,       \* the rows of the summary
  summary,    \* the summary is shown
  hidden,     \* the host element's visibility is hidden
  request,    \* .cropRequestId
  result,     \* .cropResult: the capture its area belongs to, or "cancelled"
  dialog,     \* the capture whose selection dialog is open
  frames,     \* the captures whose area is chosen and waits for the next frame
  resume,     \* what finishCrop restores, while it is set
  returns,    \* .onNoteSaved is set
  job,        \* where the worker's job of each capture is
  area,       \* the area each job got, by the capture it belongs to
  stored,     \* the captures put into the gallery, with the job that did it
  lost,       \* the captures whose end could not reach the page
  reopen,     \* what was saved, and reopens the popup: captures, and "note"
  popups,     \* the captures the popup was reopened for
  reloads     \* the documents that may still come

mode  == <<active, armed, listening, tracking, catching, reticle>>
card  == <<modalOpen, editing, pending>>
marks == <<notes, pins, badges, dockCount>>
crop  == <<hidden, request, result, dialog, frames, resume>>
jobs  == <<job, area, stored, lost>>
popup == <<returns, reopen, popups>>
world == <<loaded, reloads>>
vars  == <<mode, card, marks, clickable, rows, summary, crop, jobs, popup, world>>

-----------------------------------------------------------------------------

\* A document without the overlay.
Blank ==
  /\ active' = FALSE /\ armed' = FALSE /\ listening' = FALSE /\ tracking' = FALSE
  /\ catching' = FALSE /\ reticle' = FALSE
  /\ modalOpen' = FALSE /\ editing' = 0 /\ pending' = None
  /\ notes' = <<>> /\ pins' = [e \in Elements |-> {}] /\ badges' = {} /\ dockCount' = 0
  /\ clickable' = {} /\ rows' = 0 /\ summary' = FALSE
  /\ hidden' = FALSE /\ request' = None /\ result' = None /\ dialog' = None
  /\ frames' = {} /\ resume' = None /\ returns' = FALSE

Init ==
  /\ active = FALSE /\ armed = FALSE /\ listening = FALSE /\ tracking = FALSE
  /\ catching = FALSE /\ reticle = FALSE
  /\ modalOpen = FALSE /\ editing = 0 /\ pending = None
  /\ notes = <<>> /\ pins = [e \in Elements |-> {}] /\ badges = {} /\ dockCount = 0
  /\ clickable = {} /\ rows = 0 /\ summary = FALSE
  /\ hidden = FALSE /\ request = None /\ result = None /\ dialog = None
  /\ frames = {} /\ resume = None /\ returns = FALSE
  /\ loaded = FALSE /\ reloads = MaxReloads
  /\ job = [j \in Crops |-> "none"] /\ area = [j \in Crops |-> None]
  /\ stored = {} /\ lost = {} /\ reopen = {} /\ popups = {}

closeModal == modalOpen' = FALSE /\ editing' = 0 /\ pending' = None

setArmed(on) == armed' = on /\ catching' = on /\ reticle' = (reticle /\ on)

\* The loop that places the badges, of which there is one at a time.
startTracking == tracking' = TRUE

renderSummary == rows' = Len(notes)

start(on) ==
  /\ active' = TRUE /\ listening' = TRUE /\ startTracking
  /\ setArmed(on)
  /\ closeModal
  /\ clickable' = badges /\ summary' = FALSE
  /\ dockCount' = Len(notes) /\ renderSummary

\* Mutant: Done leaves the listeners of the window.
stopsDeaf ==
  /\ active' = FALSE /\ tracking' = FALSE /\ UNCHANGED listening
  /\ setArmed(FALSE)
  /\ closeModal
  /\ clickable' = {} /\ summary' = FALSE

stop ==
  /\ active' = FALSE /\ listening' = FALSE /\ tracking' = FALSE
  /\ setArmed(FALSE)
  /\ closeModal
  /\ clickable' = {} /\ summary' = FALSE

\* Mutant: the card stays open.
clearsUnderCard ==
  /\ notes' = <<>> /\ pins' = [e \in Elements |-> {}] /\ badges' = {}
  /\ clickable' = {} /\ dockCount' = 0 /\ rows' = 0
  /\ UNCHANGED card

clear ==
  /\ notes' = <<>> /\ pins' = [e \in Elements |-> {}] /\ badges' = {}
  /\ clickable' = {} /\ dockCount' = 0 /\ rows' = 0
  /\ closeModal

-----------------------------------------------------------------------------
(* Annotation: what the user does in the page.  The hidden host, and what   *)
(* it holds, can be neither clicked nor focused; the listeners of the       *)
(* window hear the page still.                                              *)

Usable == loaded /\ ~hidden

\* A selection dialog makes the page inert, so that no element is found.
onPointerMove ==
  /\ loaded /\ listening /\ active /\ armed /\ ~modalOpen
  /\ reticle' \in IF dialog = None THEN BOOLEAN ELSE {FALSE}
  /\ UNCHANGED <<active, armed, listening, tracking, catching, card, marks, clickable, rows,
                 summary, crop, jobs, popup, world>>

openModal(e) == modalOpen' = TRUE /\ editing' = 0 /\ pending' = e /\ setArmed(FALSE)

openExistingModal(n) == active /\ modalOpen' = TRUE /\ editing' = n /\ UNCHANGED pending

\* A click of an armed overlay: over a badge, beside the card, or on an element.
onClick ==
  /\ loaded /\ listening /\ active /\ armed
  /\ \/ /\ ~hidden \/ dialog # None
        /\ \E n \in badges : openExistingModal(n)
        /\ UNCHANGED <<armed, catching, reticle>>
     \/ modalOpen /\ closeModal /\ setArmed(FALSE)
     \/ ~modalOpen /\ dialog = None /\ \E e \in Elements : openModal(e)
  /\ UNCHANGED <<active, listening, tracking, marks, clickable, rows, summary, crop, jobs, popup,
                 world>>

\* A click on a badge, or on a row of the summary.
ClickNote ==
  /\ Usable
  /\ \E n \in clickable \cup (IF summary THEN 1 .. rows ELSE {}) : openExistingModal(n)
  /\ UNCHANGED <<mode, marks, clickable, rows, summary, crop, jobs, popup, world>>

\* Mutant: the badge takes the number after its note's.
badgeOfNext(n) ==
  /\ notes' = Append(notes, pending)
  /\ pins' = [pins EXCEPT ![pending] = @ \cup {n}]
  /\ badges' = badges \cup {n + 1} /\ clickable' = IF active THEN clickable \cup {n} ELSE clickable
  /\ dockCount' = n /\ rows' = n

\* The note takes the next number, its element the pin, and a badge is made.
createBadge(n) ==
  /\ notes' = Append(notes, pending)
  /\ pins' = [pins EXCEPT ![pending] = @ \cup {n}]
  /\ badges' = badges \cup {n} /\ clickable' = IF active THEN clickable \cup {n} ELSE clickable
  /\ dockCount' = n /\ rows' = n

saveModal ==
  /\ Usable /\ modalOpen
  /\ IF editing # 0
     THEN UNCHANGED <<marks, clickable, rows>>
     ELSE pending # None /\ Len(notes) < MaxNotes /\ createBadge(Len(notes) + 1)
  /\ closeModal
  /\ reopen' = IF returns THEN reopen \cup {"note"} ELSE reopen
  /\ UNCHANGED <<mode, summary, crop, jobs, returns, popups, world>>

\* Cancel of the card.
Cancel ==
  /\ Usable /\ modalOpen /\ closeModal
  /\ UNCHANGED <<mode, marks, clickable, rows, summary, crop, jobs, popup, world>>

\* Escape closes the card, and without one ends the review.
onKeyDown ==
  /\ loaded /\ listening
  /\ IF modalOpen THEN closeModal /\ UNCHANGED <<mode, clickable, summary>>
                  ELSE active /\ stop
  /\ UNCHANGED <<marks, rows, crop, jobs, popup, world>>

\* The buttons of the dock.
Select ==
  /\ Usable /\ active /\ setArmed(TRUE)
  /\ UNCHANGED <<active, listening, tracking, card, marks, clickable, rows, summary, crop, jobs,
                 popup, world>>

toggleSummary ==
  /\ Usable /\ active
  /\ summary' = ~summary /\ IF summary THEN UNCHANGED rows ELSE renderSummary
  /\ UNCHANGED <<mode, card, marks, clickable, crop, jobs, popup, world>>

Done ==
  /\ Usable /\ active /\ stop
  /\ UNCHANGED <<marks, rows, crop, jobs, popup, world>>

-----------------------------------------------------------------------------
(* An area capture in the page.                                            *)

\* The overlay as it is once a capture that still holds the page gave it back.
BackActive == IF resume # None /\ resume.active THEN TRUE ELSE active
BackArmed  == IF resume # None /\ resume.active THEN resume.armed ELSE armed
BackHidden == IF resume # None THEN resume.hidden ELSE hidden

\* Mutant: an earlier capture is not cancelled first.
startsOver(j) ==
  /\ hidden' = TRUE /\ request' = j /\ result' = None
  /\ dialog' = j /\ UNCHANGED frames
  /\ resume' = [active |-> active, armed |-> armed, hidden |-> hidden]
  /\ IF active THEN stop /\ rows' = Len(notes) /\ dockCount' = Len(notes)
               ELSE UNCHANGED <<mode, card, clickable, summary, rows, dockCount>>

startCropMode(j) ==
  /\ hidden' = TRUE /\ request' = j /\ result' = None
  /\ dialog' = j /\ UNCHANGED frames
  /\ resume' = [active |-> BackActive, armed |-> BackArmed, hidden |-> BackHidden]
  /\ IF BackActive THEN stop /\ rows' = Len(notes) /\ dockCount' = Len(notes)
                   ELSE UNCHANGED <<mode, card, clickable, summary, rows, dockCount>>

\* this.finishCrop, while it is set.
finishCrop ==
  /\ dialog' = None /\ hidden' = resume.hidden /\ resume' = None
  /\ IF resume.active THEN start(resume.armed)
                      ELSE UNCHANGED <<mode, card, clickable, summary, rows, dockCount>>

\* Mutant: the area is given out before the frame that takes the dialog away.
capturesAtOnce ==
  /\ loaded /\ dialog # None
  /\ result' = dialog /\ UNCHANGED <<frames, dialog>>
  /\ UNCHANGED <<mode, card, marks, clickable, rows, summary, hidden, request, resume,
                 jobs, popup, world>>

\* The pointer is released, or Enter pressed, on an area.
capture ==
  /\ loaded /\ dialog # None
  /\ frames' = frames \cup {dialog}
  /\ UNCHANGED <<mode, card, marks, clickable, rows, summary, hidden, request, result, dialog,
                 resume, jobs, popup, world>>

\* Mutant: a selection that was cancelled gives its area all the same.
FrameOfCancelled(j) ==
  /\ loaded /\ j \in frames /\ frames' = frames \ {j}
  /\ dialog' = None /\ result' = j
  /\ UNCHANGED <<mode, card, marks, clickable, rows, summary, hidden, request, resume, jobs,
                 popup, world>>

\* The next frame; the area of a selection that is over is dropped.
Frame(j) ==
  /\ loaded /\ j \in frames /\ frames' = frames \ {j}
  /\ IF dialog = j THEN dialog' = None /\ result' = j
                   ELSE UNCHANGED <<dialog, result>>
  /\ UNCHANGED <<mode, card, marks, clickable, rows, summary, hidden, request, resume, jobs,
                 popup, world>>

\* Escape, Cancel, a lost pointer or a resized window.
cancelCrop ==
  /\ loaded /\ dialog # None
  /\ finishCrop /\ result' = "cancelled"
  /\ UNCHANGED <<notes, pins, badges, frames, request, jobs, popup, world>>

-----------------------------------------------------------------------------
(* The worker.  An evaluation in the page fails at any time: the debugger is *)
(* detached, the session ends, the tab leaves its document.                 *)

StartReview ==
  /\ loaded' = TRUE /\ start(TRUE) /\ returns' \in BOOLEAN
  /\ UNCHANGED <<notes, pins, badges, crop, jobs, reopen, popups, reloads>>

ClearNotes ==
  /\ loaded /\ clear
  /\ UNCHANGED <<mode, summary, crop, jobs, popup, world>>

\* popup_start_crop: the answer of startCropMode may be lost, and no job runs.
StartCrop(j) ==
  /\ job[j] = "none" /\ loaded' = TRUE /\ startCropMode(j)
  /\ \/ job' = [job EXCEPT ![j] = "poll"] /\ UNCHANGED lost
     \/ job' = [job EXCEPT ![j] = "done"] /\ lost' = lost \cup {j}
  /\ UNCHANGED <<notes, pins, badges, area, stored, popup, reloads>>

\* The page is asked for the area of this capture; without one, again later.
Poll(j) ==
  /\ job[j] = "poll"
  /\ IF ~loaded \/ request # j \/ result = "cancelled"
     THEN job' = [job EXCEPT ![j] = "finish"] /\ UNCHANGED area
     ELSE result # None /\ job' = [job EXCEPT ![j] = "shot"] /\ area' = [area EXCEPT ![j] = result]
  /\ UNCHANGED <<mode, card, marks, clickable, rows, summary, crop, stored, lost, popup, world>>

\* The screenshot is taken, mirrored or not, and put into the gallery.
Store(j) ==
  /\ job[j] = "shot"
  /\ job' = [job EXCEPT ![j] = "finish"] /\ stored' = stored \cup {<<area[j], j>>}
  /\ UNCHANGED <<mode, card, marks, clickable, rows, summary, crop, area, lost, popup, world>>

\* The polls are used up, or a step of the job fails.
Fail(j) ==
  /\ job[j] \in {"poll", "shot"}
  /\ job' = [job EXCEPT ![j] = "finish"]
  /\ UNCHANGED <<mode, card, marks, clickable, rows, summary, crop, area, stored, lost, popup,
                 world>>

saved(j) == \E a \in Crops : <<a, j>> \in stored

\* Whatever came of it, the page is given back, if it can still be reached.
Finish(j) ==
  /\ job[j] = "finish" /\ job' = [job EXCEPT ![j] = "done"]
  /\ \/ /\ IF loaded /\ request = j /\ resume # None THEN finishCrop
           ELSE UNCHANGED <<mode, card, clickable, summary, rows, dockCount, dialog, hidden,
                            resume>>
        /\ reopen' = IF loaded /\ request = j /\ saved(j) THEN reopen \cup {j} ELSE reopen
        /\ UNCHANGED lost
     \/ /\ lost' = lost \cup {j}
        /\ UNCHANGED <<mode, card, clickable, summary, rows, dockCount, dialog, hidden, resume,
                       reopen>>
  /\ UNCHANGED <<notes, pins, badges, frames, request, result, area, stored, returns, popups,
                 world>>

\* The popup opens if the tab is still the one in front.
reopenPopup(r) ==
  /\ r \in reopen /\ reopen' = reopen \ {r}
  /\ popups' \in {popups, popups \cup ({r} \ {"note"})}
  /\ UNCHANGED <<mode, card, marks, clickable, rows, summary, crop, jobs, returns, world>>

\* The tab goes to another document.
Reload ==
  /\ reloads > 0 /\ reloads' = reloads - 1 /\ loaded' = FALSE
  /\ Blank
  /\ UNCHANGED <<jobs, reopen, popups>>

Next ==
  \/ onPointerMove \/ onClick \/ ClickNote \/ saveModal \/ Cancel \/ onKeyDown
  \/ Select \/ toggleSummary \/ Done \/ capture \/ cancelCrop
  \/ StartReview \/ ClearNotes \/ Reload
  \/ \E j \in Crops : Frame(j) \/ StartCrop(j) \/ Poll(j) \/ Store(j) \/ Fail(j) \/ Finish(j)
  \/ \E r \in Crops \cup {"note"} : reopenPopup(r)

Spec == Init /\ [][Next]_vars

-----------------------------------------------------------------------------

Resumes == [active : BOOLEAN, armed : BOOLEAN, hidden : BOOLEAN]

ModeTypes ==
  /\ loaded \in BOOLEAN /\ active \in BOOLEAN /\ armed \in BOOLEAN
  /\ listening \in BOOLEAN /\ tracking \in BOOLEAN /\ catching \in BOOLEAN
  /\ reticle \in BOOLEAN /\ modalOpen \in BOOLEAN /\ summary \in BOOLEAN
  /\ hidden \in BOOLEAN /\ returns \in BOOLEAN

CardTypes == editing \in 0 .. MaxNotes /\ pending \in Elements \cup {None}

NoteTypes ==
  /\ notes \in Seq(Elements) /\ Len(notes) <= MaxNotes
  /\ pins \in [Elements -> SUBSET (1 .. MaxNotes)]
  /\ badges \subseteq 1 .. MaxNotes /\ clickable \subseteq 1 .. MaxNotes
  /\ dockCount \in 0 .. MaxNotes /\ rows \in 0 .. MaxNotes

CropTypes ==
  /\ request \in Crops \cup {None} /\ result \in Crops \cup {None, "cancelled"}
  /\ dialog \in Crops \cup {None} /\ frames \subseteq Crops
  /\ resume \in Resumes \cup {None}

JobTypes ==
  /\ job \in [Crops -> {"none", "poll", "shot", "finish", "done"}]
  /\ area \in [Crops -> Crops \cup {None}]
  /\ stored \subseteq Crops \X Crops /\ lost \subseteq Crops
  /\ reopen \subseteq Crops \cup {"note"} /\ popups \subseteq Crops
  /\ reloads \in 0 .. MaxReloads

TypeOK == ModeTypes /\ CardTypes /\ NoteTypes /\ CropTypes /\ JobTypes

\* The pins left in the page, the badges, the number on the dock and the rows of
\* the summary are those of the notes there are, after any sequence of saving,
\* clearing, leaving and capturing (overlay.js:1164-1193, 1418-1472).
PinsMatchNotes ==
  /\ \A e \in Elements : pins[e] = {n \in 1 .. Len(notes) : notes[n] = e}
  /\ badges = 1 .. Len(notes)
  /\ dockCount = Len(notes) /\ rows = Len(notes)

\* An open card edits a note that exists or describes an element that waits to
\* be one, and a card that is closed leaves neither to the next Save, whatever
\* cleared, stopped or took over the page under it (overlay.js:1387-1456).
CardHasItsNote ==
  IF modalOpen THEN active /\ (editing \in 1 .. Len(notes) \/ (editing = 0 /\ pending # None))
               ELSE editing = 0 /\ pending = None

\* The notes, what the page shows of them and the card that edits one agree.
NotesAgree == PinsMatchNotes /\ CardHasItsNote

\* The overlay of a review that is over keeps nothing in the page: no listener,
\* no loop, no frame, no badge that takes clicks, no host that catches pointers;
\* while one is on, all of its badges and listeners work, and the host catches
\* pointers exactly when an element is to be picked (overlay.js:929, 1140, 1323).
QuietWhenStopped ==
  /\ (listening <=> active) /\ (tracking <=> active) /\ (catching <=> armed)
  /\ clickable = IF active THEN badges ELSE {}
  /\ armed \/ modalOpen \/ summary \/ reticle => active
  /\ reticle => armed

\* What a capture puts into the gallery is the area its own dialog chose, though
\* other captures supersede it, frames come late and reloads intervene
\* (overlay.js:1003-1013, background.js:1698).
OwnArea == \A a, j \in Crops : <<a, j>> \in stored => a = j

\* While the worker takes the screenshot of a capture the page still holds for it,
\* no dialog is open and the host of the overlay is hidden (overlay.js:957,
\* 1003-1013; scripts/check_popup.mjs:922).
CleanShot ==
  \A j \in Crops : (job[j] = "shot" /\ loaded /\ request = j) => hidden /\ dialog = None

\* The page is taken over, its overlay hidden and its review suspended, only for
\* a capture that will give it back, unless that one's end was lost on the way
\* (background.js:1738-1741).
GivenBack ==
  /\ hidden <=> resume # None
  /\ resume # None => job[request] \in {"poll", "shot", "finish"} \/ request \in lost
  /\ dialog # None => dialog = request /\ resume # None

\* The popup returns for a capture that is in the gallery and whose page was
\* given back (background.js:1741).
PopupAfterSave == \A j \in popups : saved(j) /\ j \notin lost

\* A capture ends for the page and for the user.
CaptureEnds == GivenBack /\ PopupAfterSave
=============================================================================
