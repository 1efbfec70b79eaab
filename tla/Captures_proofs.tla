--------------------------- MODULE Captures_proofs ---------------------------
(***************************************************************************)
(* Theorems about what the user takes of pages: the notes and areas of a   *)
(* review (Review), for any number of elements, notes, captures and        *)
(* documents, and the screenshots of the gallery (Gallery), for any number *)
(* of captures, servers and popups.                                        *)
(***************************************************************************)
EXTENDS Review, Gallery, TLAPS, SequenceTheorems

\* Who holds the page: a dialog belongs to the current request and to a page
\* that was taken over, an area belongs to the request that is current and to no
\* open dialog, and a document without the overlay is held by nobody.
Holder ==
  /\ resume # None => request \in Crops /\ ~resume.hidden
  /\ hidden <=> resume # None
  /\ dialog # None => dialog = request /\ resume # None
  /\ result \in Crops => result = request /\ dialog = None
  /\ ~loaded => request = None /\ resume = None

\* What each job has of the page: its area is its own, and until its area was
\* cancelled the page is still held for it.
Jobs ==
  /\ \A j \in Crops : job[j] = "shot" => area[j] = j /\ (request = j => result = j)
  /\ \A j \in Crops : job[j] \in {"poll", "shot"} /\ request = j /\ result # "cancelled"
                        => resume # None
  /\ resume # None => job[request] \in {"poll", "shot", "finish"} \/ request \in lost

\* A job whose end was lost is over, and so is one that reopens the popup, which
\* was not lost.
Ends ==
  /\ \A j \in lost : job[j] = "done"
  /\ \A j \in (reopen \cup popups) \ {"note"} : job[j] = "done" /\ saved(j) /\ j \notin lost

IInv == TypeOK /\ NotesAgree /\ QuietWhenStopped /\ Holder /\ Jobs /\ OwnArea /\ Ends

-----------------------------------------------------------------------------

\* A browser tab starts without an overlay, without notes and without captures.
LEMMA Initially == Init => IInv
<1> SUFFICES ASSUME Init PROVE IInv
  OBVIOUS
<1> USE ElementsAssumption, BoundsAssumption, CropsAssumption DEF Init
<1>1. ModeTypes /\ CardTypes
  <2>1. ModeTypes
    BY DEF ModeTypes
  <2>2. CardTypes
    BY DEF CardTypes
  <2> QED BY <2>1, <2>2
<1>2. NoteTypes
  BY DEF NoteTypes
<1>3. CropTypes
  BY DEF CropTypes
<1>4. JobTypes
  BY DEF JobTypes
<1>5. NotesAgree /\ QuietWhenStopped
  BY DEF NotesAgree, PinsMatchNotes, CardHasItsNote, QuietWhenStopped
<1>6. Holder /\ Jobs /\ OwnArea /\ Ends
  BY DEF Holder, Jobs, OwnArea, Ends
<1> QED BY <1>1, <1>2, <1>3, <1>4, <1>5, <1>6 DEF IInv, TypeOK

-----------------------------------------------------------------------------
(* The operators that several actions share.                               *)

Page == NoteTypes /\ CardTypes /\ NotesAgree /\ QuietWhenStopped

\* A review that starts shows the notes there are, and opens no card.
LEMMA Starts ==
  ASSUME Page, NEW on \in BOOLEAN, start(on), reticle \in BOOLEAN,
         UNCHANGED <<notes, pins, badges>>
  PROVE  Page'
<1> USE DEF Page, start, startTracking, renderSummary, closeModal
<1>1. Len(notes) \in 0 .. MaxNotes
  BY BoundsAssumption DEF NoteTypes
<1>2. NoteTypes'
  BY <1>1 DEF NoteTypes
<1>3. CardTypes'
  BY BoundsAssumption DEF CardTypes
<1>4. NotesAgree'
  BY DEF NotesAgree, PinsMatchNotes, CardHasItsNote
<1>5. QuietWhenStopped'
  BY DEF QuietWhenStopped, setArmed
<1> QED BY <1>2, <1>3, <1>4, <1>5

\* A review that stops keeps its notes, without a card.
LEMMA Stops ==
  ASSUME Page, stop, UNCHANGED <<notes, pins, badges>>,
         dockCount' = Len(notes), rows' = Len(notes)
  PROVE  Page'
<1> USE DEF Page, stop, closeModal
<1>1. Len(notes) \in 0 .. MaxNotes
  BY BoundsAssumption DEF NoteTypes
<1>2. NoteTypes'
  BY <1>1 DEF NoteTypes
<1>3. CardTypes'
  BY BoundsAssumption DEF CardTypes
<1>4. NotesAgree'
  BY DEF NotesAgree, PinsMatchNotes, CardHasItsNote
<1>5. QuietWhenStopped'
  BY DEF QuietWhenStopped, setArmed
<1> QED BY <1>2, <1>3, <1>4, <1>5

\* What does not touch the page keeps it.
LEMMA Untouched ==
  ASSUME Page, UNCHANGED <<mode, card, marks, clickable, rows, summary>>
  PROVE  Page'
BY DEF Page, NoteTypes, CardTypes, NotesAgree, PinsMatchNotes, CardHasItsNote, QuietWhenStopped,
   mode, card, marks

\* A page that is given back is as it was.
LEMMA GivesBack ==
  ASSUME Page, ModeTypes, CropTypes, resume # None, finishCrop,
         UNCHANGED <<notes, pins, badges>>
  PROVE  Page'
<1>1. resume.active \in BOOLEAN /\ resume.armed \in BOOLEAN
  BY DEF CropTypes, Resumes
<1>2. CASE resume.active
  BY <1>1, <1>2, Starts DEF finishCrop, ModeTypes
<1>3. CASE ~resume.active
  BY <1>3, Untouched DEF finishCrop, marks
<1> QED BY <1>1, <1>2, <1>3

\* A page that is taken over has no review.
LEMMA TakesOver ==
  ASSUME Page, NEW j \in Crops, startCropMode(j), UNCHANGED <<notes, pins, badges>>
  PROVE  Page'
<1>1. CASE BackActive
  BY <1>1, Stops DEF startCropMode
<1>2. CASE ~BackActive
  BY <1>2, Untouched DEF startCropMode, marks
<1> QED BY <1>1, <1>2

\* The steps of the page and of the worker keep the page.
LEMMA PageKept == Page /\ ModeTypes /\ CropTypes /\ Holder /\ [Next]_vars => Page'
<1> SUFFICES ASSUME Page, ModeTypes, CropTypes, Holder, [Next]_vars PROVE Page'
  OBVIOUS
<1>1. CASE onPointerMove
  <2>1. NoteTypes' /\ CardTypes'
    BY <1>1 DEF Page, onPointerMove, NoteTypes, CardTypes, card, marks
  <2>2. NotesAgree'
    BY <1>1 DEF Page, onPointerMove, NotesAgree, PinsMatchNotes, CardHasItsNote, card, marks
  <2>3. QuietWhenStopped'
    BY <1>1 DEF Page, onPointerMove, QuietWhenStopped, card, marks
  <2> QED BY <2>1, <2>2, <2>3 DEF Page
<1>2. CASE onClick
  <2> UNCHANGED <<active, listening, tracking, notes, pins, badges, dockCount, clickable, rows,
                  summary>>
    BY <1>2 DEF onClick, marks
  <2>1. NoteTypes'
    BY DEF Page, NoteTypes
  <2>2. CASE \E n \in badges : openExistingModal(n) /\ UNCHANGED <<armed, catching, reticle>>
    <3>1. PICK n \in badges : openExistingModal(n) /\ UNCHANGED <<armed, catching, reticle>>
      BY <2>2
    <3>2. n \in 1 .. Len(notes) /\ n \in 0 .. MaxNotes
      BY BoundsAssumption DEF Page, NoteTypes, NotesAgree, PinsMatchNotes
    <3>3. CardTypes'
      BY <3>1, <3>2 DEF Page, CardTypes, openExistingModal
    <3>4. NotesAgree'
      BY <3>1, <3>2 DEF Page, NotesAgree, PinsMatchNotes, CardHasItsNote, openExistingModal
    <3>5. QuietWhenStopped'
      BY <3>1 DEF Page, QuietWhenStopped, openExistingModal
    <3> QED BY <2>1, <3>3, <3>4, <3>5 DEF Page
  <2>3. CASE closeModal /\ setArmed(FALSE)
    <3>1. CardTypes'
      BY <2>3, BoundsAssumption DEF CardTypes, closeModal
    <3>2. NotesAgree'
      BY <2>3 DEF Page, NotesAgree, PinsMatchNotes, CardHasItsNote, closeModal
    <3>3. QuietWhenStopped'
      BY <2>3 DEF Page, QuietWhenStopped, closeModal, setArmed
    <3> QED BY <2>1, <3>1, <3>2, <3>3 DEF Page
  <2>4. CASE \E e \in Elements : openModal(e)
    <3>1. PICK e \in Elements : openModal(e)
      BY <2>4
    <3>2. active
      BY <1>2 DEF onClick
    <3>3. CardTypes'
      BY <3>1, BoundsAssumption DEF CardTypes, openModal
    <3>4. NotesAgree'
      BY <3>1, <3>2, ElementsAssumption
      DEF Page, NotesAgree, PinsMatchNotes, CardHasItsNote, openModal
    <3>5. QuietWhenStopped'
      BY <3>1, <3>2 DEF Page, QuietWhenStopped, openModal, setArmed
    <3> QED BY <2>1, <3>3, <3>4, <3>5 DEF Page
  <2> QED BY <1>2, <2>2, <2>3, <2>4 DEF onClick
<1>3. CASE ClickNote
  <2>1. PICK n \in clickable \cup (IF summary THEN 1 .. rows ELSE {}) : openExistingModal(n)
    BY <1>3 DEF ClickNote
  <2>2. n \in 1 .. Len(notes) /\ n \in 0 .. MaxNotes
    BY <2>1, BoundsAssumption DEF Page, NoteTypes, NotesAgree, PinsMatchNotes, QuietWhenStopped
  <2>3. UNCHANGED <<mode, marks, clickable, rows, summary>>
    BY <1>3 DEF ClickNote
  <2>4. NoteTypes'
    BY <2>3 DEF Page, NoteTypes, marks
  <2>5. CardTypes'
    BY <2>1, <2>2 DEF Page, CardTypes, openExistingModal
  <2>6. NotesAgree'
    BY <2>1, <2>2, <2>3
    DEF Page, NotesAgree, PinsMatchNotes, CardHasItsNote, openExistingModal, mode, marks
  <2>7. QuietWhenStopped'
    BY <2>1, <2>3 DEF Page, QuietWhenStopped, openExistingModal, mode, marks
  <2> QED BY <2>4, <2>5, <2>6, <2>7 DEF Page
<1>4. CASE saveModal
  <2>0. modalOpen /\ closeModal /\ UNCHANGED <<mode, summary>>
    BY <1>4 DEF saveModal
  <2>1. CASE editing # 0
    <3>1. UNCHANGED <<marks, clickable, rows>>
      BY <1>4, <2>1 DEF saveModal
    <3>2. NoteTypes' /\ CardTypes'
      BY <2>0, <3>1, BoundsAssumption DEF Page, NoteTypes, CardTypes, closeModal, marks
    <3>3. NotesAgree'
      BY <2>0, <3>1 DEF Page, NotesAgree, PinsMatchNotes, CardHasItsNote, closeModal, marks
    <3>4. QuietWhenStopped'
      BY <2>0, <3>1 DEF Page, QuietWhenStopped, closeModal, marks, mode
    <3> QED BY <3>2, <3>3, <3>4 DEF Page
  <2>2. CASE editing = 0
    <3> DEFINE n == Len(notes) + 1
    <3>1. pending \in Elements /\ n \in 1 .. MaxNotes /\ createBadge(n)
      BY <1>4, <2>2, BoundsAssumption DEF saveModal, Page, CardTypes, NoteTypes
    <3>2. active
      BY <2>0 DEF Page, NotesAgree, CardHasItsNote
    <3>3. /\ notes' \in Seq(Elements) /\ Len(notes') = n
          /\ \A m \in 1 .. n : notes'[m] = IF m = n THEN pending ELSE notes[m]
      BY <3>1 DEF Page, NoteTypes, createBadge
    <3>4. NoteTypes'
      <4>1. notes' \in Seq(Elements) /\ Len(notes') <= MaxNotes
        BY <3>1, <3>3 DEF NoteTypes
      <4>2. pins' \in [Elements -> SUBSET (1 .. MaxNotes)]
        BY <3>1 DEF Page, NoteTypes, createBadge
      <4>3. badges' \subseteq 1 .. MaxNotes /\ clickable' \subseteq 1 .. MaxNotes
        BY <3>1, <3>2 DEF Page, NoteTypes, createBadge
      <4>4. dockCount' \in 0 .. MaxNotes /\ rows' \in 0 .. MaxNotes
        BY <3>1 DEF createBadge
      <4> QED BY <4>1, <4>2, <4>3, <4>4 DEF NoteTypes
    <3>5. CardTypes'
      BY <2>0, BoundsAssumption DEF CardTypes, closeModal
    <3>6. PinsMatchNotes'
      <4>1. badges' = 1 .. n
        BY <3>1 DEF Page, NoteTypes, NotesAgree, PinsMatchNotes, createBadge
      <4>2. ASSUME NEW e \in Elements
            PROVE  pins'[e] = {m \in 1 .. Len(notes') : notes'[m] = e}
        BY <3>1, <3>3 DEF Page, NoteTypes, NotesAgree, PinsMatchNotes, createBadge
      <4> QED BY <3>1, <3>3, <4>1, <4>2 DEF PinsMatchNotes, createBadge
    <3>7. CardHasItsNote'
      BY <2>0 DEF CardHasItsNote, closeModal
    <3>8. QuietWhenStopped'
      BY <2>0, <3>1, <3>2 DEF Page, QuietWhenStopped, closeModal, createBadge, mode
    <3> QED BY <3>4, <3>5, <3>6, <3>7, <3>8 DEF Page, NotesAgree
  <2> QED BY <2>1, <2>2
<1>5. CASE Cancel
  <2>1. NoteTypes' /\ CardTypes'
    BY <1>5, BoundsAssumption DEF Page, Cancel, NoteTypes, CardTypes, closeModal, marks
  <2>2. NotesAgree' /\ QuietWhenStopped'
    BY <1>5 DEF Page, Cancel, NotesAgree, PinsMatchNotes, CardHasItsNote, QuietWhenStopped,
                closeModal, marks, mode
  <2> QED BY <2>1, <2>2 DEF Page
<1>6. CASE onKeyDown
  <2>1. CASE modalOpen
    <3>1. closeModal /\ UNCHANGED <<mode, marks, clickable, rows, summary>>
      BY <1>6, <2>1 DEF onKeyDown
    <3>2. NoteTypes'
      BY <3>1 DEF Page, NoteTypes, marks
    <3>3. CardTypes'
      BY <3>1, BoundsAssumption DEF CardTypes, closeModal
    <3>4. NotesAgree' /\ QuietWhenStopped'
      BY <2>1, <3>1 DEF Page, NotesAgree, PinsMatchNotes, CardHasItsNote, QuietWhenStopped,
                        closeModal, marks, mode
    <3> QED BY <3>2, <3>3, <3>4 DEF Page
  <2>2. CASE ~modalOpen
    BY <1>6, <2>2, Stops DEF onKeyDown, marks, Page, NotesAgree, PinsMatchNotes
  <2> QED BY <2>1, <2>2
<1>7. CASE Select
  <2>1. NoteTypes' /\ CardTypes' /\ NotesAgree'
    BY <1>7 DEF Page, Select, NoteTypes, CardTypes, NotesAgree, PinsMatchNotes, CardHasItsNote,
                card, marks
  <2>2. QuietWhenStopped'
    BY <1>7 DEF Page, Select, QuietWhenStopped, setArmed, card, marks
  <2> QED BY <2>1, <2>2 DEF Page
<1>8. CASE toggleSummary
  <2>1. rows' = rows
    BY <1>8 DEF Page, toggleSummary, renderSummary, NotesAgree, PinsMatchNotes
  <2>2. NoteTypes' /\ CardTypes' /\ NotesAgree'
    BY <1>8, <2>1 DEF Page, toggleSummary, NoteTypes, CardTypes, NotesAgree, PinsMatchNotes,
                      CardHasItsNote, card, marks, mode
  <2>3. QuietWhenStopped'
    BY <1>8 DEF Page, toggleSummary, QuietWhenStopped, card, marks, mode
  <2> QED BY <2>2, <2>3 DEF Page
<1>9. CASE Done
  BY <1>9, Stops DEF Done, marks, Page, NotesAgree, PinsMatchNotes
<1>10. CASE capture \/ \E j \in Crops : Frame(j) \/ Poll(j) \/ Store(j) \/ Fail(j)
  BY <1>10, Untouched DEF capture, Frame, Poll, Store, Fail
<1>11. CASE cancelCrop
  BY <1>11, GivesBack DEF cancelCrop, Holder
<1>12. CASE StartReview
  BY <1>12, Starts DEF StartReview, ModeTypes
<1>13. CASE ClearNotes
  <2>1. NoteTypes' /\ CardTypes'
    BY <1>13, BoundsAssumption DEF ClearNotes, clear, closeModal, NoteTypes, CardTypes
  <2>2. NotesAgree' /\ QuietWhenStopped'
    BY <1>13 DEF Page, ClearNotes, clear, closeModal, NotesAgree, PinsMatchNotes, CardHasItsNote,
                 QuietWhenStopped, mode
  <2> QED BY <2>1, <2>2 DEF Page
<1>14. CASE Reload
  <2>1. NoteTypes' /\ CardTypes'
    BY <1>14, BoundsAssumption DEF Reload, Blank, NoteTypes, CardTypes
  <2>2. NotesAgree' /\ QuietWhenStopped'
    BY <1>14 DEF Reload, Blank, NotesAgree, PinsMatchNotes, CardHasItsNote, QuietWhenStopped
  <2> QED BY <2>1, <2>2 DEF Page
<1>15. CASE \E j \in Crops : StartCrop(j)
  BY <1>15, TakesOver DEF StartCrop
<1>16. CASE \E j \in Crops : Finish(j)
  <2>1. PICK j \in Crops : Finish(j)
    BY <1>16
  <2>2. UNCHANGED <<notes, pins, badges>>
    BY <2>1 DEF Finish
  <2>3. CASE resume # None /\ finishCrop
    BY <2>2, <2>3, GivesBack
  <2>4. CASE UNCHANGED <<mode, card, clickable, summary, rows, dockCount>>
    BY <2>2, <2>4, Untouched DEF marks
  <2> QED BY <2>1, <2>3, <2>4 DEF Finish
<1>17. CASE \E r \in Crops \cup {"note"} : reopenPopup(r)
  BY <1>17, Untouched DEF reopenPopup
<1>18. CASE UNCHANGED vars
  BY <1>18, Untouched DEF vars
<1> QED
  BY <1>1, <1>2, <1>3, <1>4, <1>5, <1>6, <1>7, <1>8, <1>9, <1>10, <1>11, <1>12, <1>13, <1>14,
     <1>15, <1>16, <1>17, <1>18
  DEF Next


-----------------------------------------------------------------------------
(* The captures.                                                           *)

\* The steps of the user and of the page that are about notes.
Annotation ==
  \/ onPointerMove \/ onClick \/ ClickNote \/ saveModal \/ Cancel \/ onKeyDown
  \/ Select \/ toggleSummary \/ Done \/ ClearNotes

\* Annotating leaves every capture where it is.
LEMMA Annotating ==
  ASSUME Annotation
  PROVE  /\ UNCHANGED <<crop, jobs, world, popups, returns>>
         /\ reopen' = reopen \/ reopen' = reopen \cup {"note"}
<1>1. CASE onPointerMove \/ onClick \/ ClickNote \/ Cancel \/ onKeyDown
  BY <1>1 DEF onPointerMove, onClick, ClickNote, Cancel, onKeyDown, popup
<1>2. CASE saveModal
  BY <1>2 DEF saveModal
<1>3. CASE Select \/ toggleSummary \/ Done \/ ClearNotes
  BY <1>3 DEF Select, toggleSummary, Done, ClearNotes, popup
<1> QED BY <1>1, <1>2, <1>3 DEF Annotation

\* What a capture that takes the page over restores later is a page without one.
LEMMA Suspends ==
  ASSUME ModeTypes, CropTypes, Holder
  PROVE  BackActive \in BOOLEAN /\ BackArmed \in BOOLEAN /\ BackHidden = FALSE
BY DEF ModeTypes, CropTypes, Resumes, Holder, BackActive, BackArmed, BackHidden

\* The fields of the mode stay Booleans.
LEMMA ModesKept == ModeTypes /\ CropTypes /\ Holder /\ [Next]_vars => ModeTypes'
<1> SUFFICES ASSUME ModeTypes, CropTypes, Holder, [Next]_vars PROVE ModeTypes'
  OBVIOUS
<1> USE DEF ModeTypes, closeModal, setArmed, mode, card, crop, popup, world
<1>1. CASE onPointerMove
  BY <1>1 DEF onPointerMove
<1>16. CASE onClick
  <2>1. /\ modalOpen' \in BOOLEAN /\ armed' \in BOOLEAN /\ catching' \in BOOLEAN /\ reticle' \in BOOLEAN
    <3>1. CASE UNCHANGED <<armed, catching, reticle>> /\ \E n \in badges : openExistingModal(n)
      BY <3>1 DEF openExistingModal
    <3>2. CASE closeModal /\ setArmed(FALSE)
      BY <3>2
    <3>3. CASE \E e \in Elements : openModal(e)
      BY <3>3 DEF openModal
    <3> QED BY <1>16, <3>1, <3>2, <3>3 DEF onClick
  <2> QED BY <1>16, <2>1 DEF onClick
<1>13. CASE ClickNote
  BY <1>13 DEF ClickNote, openExistingModal
<1>2. CASE saveModal
  BY <1>2 DEF saveModal
<1>14. CASE Cancel
  BY <1>14 DEF Cancel
<1>12. CASE onKeyDown \/ Done
  <2>1. CASE closeModal /\ UNCHANGED <<mode, summary, crop, popup, world>>
    BY <2>1
  <2>2. CASE stop /\ UNCHANGED <<crop, popup, world>>
    BY <2>2 DEF stop
  <2> QED BY <1>12, <2>1, <2>2 DEF onKeyDown, Done
<1>3. CASE Select
  BY <1>3 DEF Select
<1>17. CASE toggleSummary
  BY <1>17 DEF toggleSummary
<1>15. CASE ClearNotes
  BY <1>15 DEF ClearNotes, clear
<1>4. CASE capture \/ \E j \in Crops : Frame(j) \/ Poll(j) \/ Store(j) \/ Fail(j)
  BY <1>4 DEF capture, Frame, Poll, Store, Fail
<1>5. ASSUME finishCrop, UNCHANGED world, UNCHANGED returns, resume # None PROVE ModeTypes'
  <2>1. resume.active \in BOOLEAN /\ resume.armed \in BOOLEAN /\ resume.hidden \in BOOLEAN
    BY <1>5 DEF CropTypes, Resumes
  <2>2. CASE resume.active
    BY <1>5, <2>1, <2>2 DEF finishCrop, start, startTracking
  <2>3. CASE ~resume.active
    BY <1>5, <2>1, <2>3 DEF finishCrop
  <2> QED BY <2>1, <2>2, <2>3
<1>6. CASE cancelCrop
  BY <1>5, <1>6 DEF cancelCrop, Holder
<1>7. CASE StartReview \/ Reload
  BY <1>7 DEF StartReview, start, startTracking, Reload, Blank
<1>8. CASE \E j \in Crops : StartCrop(j)
  <2>1. CASE BackActive
    BY <1>8, <2>1 DEF StartCrop, startCropMode, stop
  <2>2. CASE ~BackActive
    BY <1>8, <2>2 DEF StartCrop, startCropMode
  <2> QED BY <2>1, <2>2
<1>9. CASE \E j \in Crops : Finish(j)
  <2>1. PICK j \in Crops : Finish(j)
    BY <1>9
  <2>2. CASE loaded /\ request = j /\ resume # None /\ finishCrop
    BY <1>5, <2>1, <2>2 DEF Finish
  <2>3. CASE UNCHANGED <<mode, card, summary, hidden>>
    BY <2>1, <2>3 DEF Finish
  <2> QED BY <2>1, <2>2, <2>3 DEF Finish
<1>10. CASE \E r \in Crops \cup {"note"} : reopenPopup(r)
  BY <1>10 DEF reopenPopup
<1>11. CASE UNCHANGED vars
  BY <1>11 DEF vars
<1> QED BY <1>1, <1>2, <1>3, <1>4, <1>6, <1>7, <1>8, <1>9, <1>10, <1>11, <1>12, <1>13, <1>14, <1>15,
           <1>16, <1>17 DEF Next

\* The state of the capture in the page keeps its types.
LEMMA CropKept == ModeTypes /\ CropTypes /\ Holder /\ [Next]_vars => CropTypes'
<1> SUFFICES ASSUME ModeTypes, CropTypes, Holder, [Next]_vars PROVE CropTypes'
  OBVIOUS
<1> USE CropsAssumption DEF CropTypes, crop
<1>1. CASE Annotation
  BY <1>1, Annotating
<1>2. CASE capture \/ \E j \in Crops : Frame(j)
  BY <1>2 DEF capture, Frame
<1>3. CASE cancelCrop
  BY <1>3 DEF cancelCrop, finishCrop
<1>4. CASE StartReview \/ Reload
  BY <1>4 DEF StartReview, Reload, Blank
<1>5. CASE \E j \in Crops : StartCrop(j)
  <2>1. PICK j \in Crops : StartCrop(j)
    BY <1>5
  <2>2. resume' \in Resumes
    BY <2>1, Suspends DEF StartCrop, startCropMode, Resumes
  <2> QED BY <2>1, <2>2 DEF StartCrop, startCropMode
<1>6. CASE \E j \in Crops : Poll(j) \/ Store(j) \/ Fail(j)
  BY <1>6 DEF Poll, Store, Fail
<1>7. CASE \E j \in Crops : Finish(j)
  BY <1>7 DEF Finish, finishCrop
<1>8. CASE (\E r \in Crops \cup {"note"} : reopenPopup(r)) \/ UNCHANGED vars
  BY <1>8 DEF reopenPopup, vars
<1> QED BY <1>1, <1>2, <1>3, <1>4, <1>5, <1>6, <1>7, <1>8 DEF Next, Annotation

\* The jobs of the worker keep their types.
LEMMA JobKept == JobTypes /\ CropTypes /\ Jobs /\ [Next]_vars => JobTypes'
<1> SUFFICES ASSUME JobTypes, CropTypes, Jobs, [Next]_vars PROVE JobTypes'
  OBVIOUS
<1> USE CropsAssumption, BoundsAssumption DEF JobTypes, jobs, popup, world
<1>1. CASE Annotation
  BY <1>1, Annotating
<1>2. CASE capture \/ cancelCrop \/ \E j \in Crops : Frame(j)
  BY <1>2 DEF capture, cancelCrop, Frame
<1>3. CASE StartReview
  BY <1>3 DEF StartReview
<1>4. CASE \E j \in Crops : StartCrop(j)
  BY <1>4 DEF StartCrop
<1>5. CASE \E j \in Crops : Poll(j)
  BY <1>5 DEF Poll, CropTypes
<1>6. CASE \E j \in Crops : Store(j)
  <2>1. PICK j \in Crops : Store(j)
    BY <1>6
  <2>2. area[j] = j
    BY <2>1 DEF Store, Jobs
  <2>3. stored' \subseteq Crops \X Crops
    BY <2>1, <2>2 DEF Store
  <2> QED BY <2>1, <2>3 DEF Store
<1>7. CASE \E j \in Crops : Fail(j)
  BY <1>7 DEF Fail
<1>8. CASE \E j \in Crops : Finish(j)
  BY <1>8 DEF Finish
<1>9. CASE \E r \in Crops \cup {"note"} : reopenPopup(r)
  BY <1>9 DEF reopenPopup
<1>10. CASE UNCHANGED vars
  BY <1>10 DEF vars
<1>11. CASE Reload
  BY <1>11 DEF Reload
<1> QED BY <1>1, <1>2, <1>3, <1>4, <1>5, <1>6, <1>7, <1>8, <1>9, <1>10, <1>11 DEF Next, Annotation

\* The page is held by the current request, or by nobody.
LEMMA HolderKept == ModeTypes /\ CropTypes /\ Holder /\ [Next]_vars => Holder'
<1> SUFFICES ASSUME ModeTypes, CropTypes, Holder, [Next]_vars PROVE Holder'
  OBVIOUS
<1> USE CropsAssumption DEF Holder, crop, world
<1>1. CASE Annotation
  BY <1>1, Annotating
<1>2. CASE capture \/ \E j \in Crops : Frame(j)
  BY <1>2 DEF capture, Frame
<1>3. CASE cancelCrop
  BY <1>3 DEF cancelCrop, finishCrop, CropTypes
<1>4. CASE StartReview
  BY <1>4 DEF StartReview
<1>5. CASE \E j \in Crops : StartCrop(j)
  <2>1. PICK j \in Crops : StartCrop(j)
    BY <1>5
  <2>2. resume'.hidden = FALSE /\ resume' \in Resumes
    BY <2>1, Suspends DEF StartCrop, startCropMode, Resumes
  <2>3. resume' # None
    BY <2>2, ResumesAssumption DEF Resumes
  <2> QED BY <2>1, <2>2, <2>3 DEF StartCrop, startCropMode
<1>6. CASE \E j \in Crops : Poll(j) \/ Store(j) \/ Fail(j)
  BY <1>6 DEF Poll, Store, Fail
<1>7. CASE \E j \in Crops : Finish(j)
  BY <1>7 DEF Finish, finishCrop, CropTypes
<1>8. CASE (\E r \in Crops \cup {"note"} : reopenPopup(r)) \/ UNCHANGED vars
  BY <1>8 DEF reopenPopup, vars
<1>9. CASE Reload
  BY <1>9 DEF Reload, Blank
<1> QED BY <1>1, <1>2, <1>3, <1>4, <1>5, <1>6, <1>7, <1>8, <1>9 DEF Next, Annotation

\* The area of a job is its own, and the page stays held for a job that runs.
LEMMA JobsKept ==
  ModeTypes /\ CropTypes /\ JobTypes /\ Holder /\ Jobs /\ [Next]_vars => Jobs'
<1> SUFFICES ASSUME ModeTypes, CropTypes, JobTypes, Holder, Jobs, [Next]_vars PROVE Jobs'
  OBVIOUS
<1> USE CropsAssumption DEF JobTypes, Holder, Jobs, crop, jobs, world
<1>1. CASE Annotation
  BY <1>1, Annotating
<1>2. CASE capture \/ \E j \in Crops : Frame(j)
  BY <1>2 DEF capture, Frame, CropTypes
<1>3. CASE cancelCrop
  BY <1>3 DEF cancelCrop, finishCrop, CropTypes
<1>4. CASE StartReview \/ Reload
  BY <1>4 DEF StartReview, Reload, Blank
<1>5. CASE \E j \in Crops : StartCrop(j)
  <2>1. PICK j \in Crops : StartCrop(j)
    BY <1>5
  <2>2. request' = j /\ result' = None /\ resume' = [active |-> BackActive, armed |-> BackArmed,
                                                    hidden |-> BackHidden]
    BY <2>1 DEF StartCrop, startCropMode
  <2>3. job[j] = "none" /\ UNCHANGED area
    BY <2>1 DEF StartCrop
  <2>4. resume' # None
    <3>1. BackActive \in BOOLEAN /\ BackArmed \in BOOLEAN /\ BackHidden \in BOOLEAN
      BY Suspends
    <3>2. resume' \in [active : BOOLEAN, armed : BOOLEAN, hidden : BOOLEAN]
      BY <2>2, <3>1
    <3> QED BY <3>2, ResumesAssumption
  <2>5. job' = [job EXCEPT ![j] = "poll"] \/ (job' = [job EXCEPT ![j] = "done"] /\ j \in lost')
    BY <2>1 DEF StartCrop
  <2> QED BY <2>2, <2>3, <2>4, <2>5
<1>6. CASE \E j \in Crops : Poll(j)
  BY <1>6 DEF Poll, CropTypes
<1>7. CASE \E j \in Crops : Store(j)
  BY <1>7 DEF Store
<1>8. CASE \E j \in Crops : Fail(j)
  BY <1>8 DEF Fail
<1>9. CASE \E j \in Crops : Finish(j)
  BY <1>9 DEF Finish, finishCrop, CropTypes
<1>10. CASE (\E r \in Crops \cup {"note"} : reopenPopup(r)) \/ UNCHANGED vars
  BY <1>10 DEF reopenPopup, vars
<1> QED BY <1>1, <1>2, <1>3, <1>4, <1>5, <1>6, <1>7, <1>8, <1>9, <1>10 DEF Next, Annotation

\* What goes into the gallery is the area of the job that puts it there.
LEMMA OwnKept == Jobs /\ OwnArea /\ [Next]_vars => OwnArea'
<1> SUFFICES ASSUME Jobs, OwnArea, [Next]_vars PROVE OwnArea'
  OBVIOUS
<1>1. CASE \E j \in Crops : Store(j)
  BY <1>1 DEF Store, Jobs, OwnArea
<1>2. CASE UNCHANGED stored
  BY <1>2 DEF OwnArea
<1>3. CASE Annotation
  BY <1>2, <1>3, Annotating DEF jobs
<1>4. CASE \/ capture \/ cancelCrop \/ StartReview \/ Reload
           \/ \E j \in Crops : Frame(j) \/ StartCrop(j) \/ Poll(j) \/ Fail(j) \/ Finish(j)
  BY <1>2, <1>4
  DEF capture, cancelCrop, StartReview, Reload, Frame, StartCrop, Poll, Fail, Finish, jobs
<1>5. CASE (\E r \in Crops \cup {"note"} : reopenPopup(r)) \/ UNCHANGED vars
  BY <1>2, <1>5 DEF reopenPopup, vars, jobs
<1> QED BY <1>1, <1>3, <1>4, <1>5 DEF Next, Annotation

\* A job whose end was lost is over, and the popup waits for no such job.
LEMMA EndsKept == JobTypes /\ Ends /\ [Next]_vars => Ends'
<1> SUFFICES ASSUME JobTypes, Ends, [Next]_vars PROVE Ends'
  OBVIOUS
<1> USE CropsAssumption DEF JobTypes, Ends, jobs, popup, saved
<1>1. CASE Annotation
  BY <1>1, Annotating
<1>2. CASE capture \/ cancelCrop \/ StartReview \/ Reload \/ \E j \in Crops : Frame(j)
  BY <1>2 DEF capture, cancelCrop, StartReview, Reload, Frame
<1>3. CASE \E j \in Crops : StartCrop(j)
  <2>1. PICK j \in Crops : StartCrop(j)
    BY <1>3
  <2>2. job[j] = "none" /\ UNCHANGED <<stored, reopen, popups>>
    BY <2>1 DEF StartCrop
  <2>3. CASE job' = [job EXCEPT ![j] = "poll"] /\ UNCHANGED lost
    BY <2>2, <2>3
  <2>4. CASE job' = [job EXCEPT ![j] = "done"] /\ lost' = lost \cup {j}
    BY <2>2, <2>4
  <2> QED BY <2>1, <2>3, <2>4 DEF StartCrop
<1>4. ASSUME NEW j \in Crops, job[j] \in {"poll", "shot"},
             \E w \in {"shot", "finish"} : job' = [job EXCEPT ![j] = w],
             stored \subseteq stored', UNCHANGED <<lost, reopen, popups>>
      PROVE  Ends'
  <2>1. j \notin lost \cup ((reopen \cup popups) \ {"note"})
    BY <1>4
  <2>2. \A i \in Crops : i # j => job'[i] = job[i]
    BY <1>4
  <2>3. lost \cup ((reopen \cup popups) \ {"note"}) \subseteq Crops
    OBVIOUS
  <2> QED BY <1>4, <2>1, <2>2, <2>3
<1>5. CASE \E j \in Crops : Poll(j) \/ Store(j) \/ Fail(j)
  <2>1. PICK j \in Crops : Poll(j) \/ Store(j) \/ Fail(j)
    BY <1>5
  <2> QED BY <2>1, <1>4 DEF Poll, Store, Fail
<1>6. CASE \E j \in Crops : Finish(j)
  <2>1. PICK j \in Crops : Finish(j)
    BY <1>6
  <2>2. /\ job[j] = "finish" /\ job' = [job EXCEPT ![j] = "done"]
        /\ UNCHANGED <<stored, popups>>
    BY <2>1 DEF Finish
  <2>3. CASE reopen' = reopen \cup {j} /\ saved(j) /\ UNCHANGED lost
    <3>1. j \notin lost
      BY <2>2
    <3>2. UNCHANGED <<lost, stored, popups>> /\ job'[j] = "done"
      BY <2>2, <2>3
    <3>3. \A i \in lost' : job'[i] = "done"
      BY <2>2, <3>2
    <3>4. ASSUME NEW i \in (reopen' \cup popups') \ {"note"}
          PROVE  job'[i] = "done" /\ saved(i) /\ i \notin lost
      <4>1. CASE i = j
        BY <2>3, <3>1, <3>2, <4>1
      <4>2. CASE i # j
        BY <2>2, <2>3, <3>2, <4>2
      <4> QED BY <4>1, <4>2
    <3> QED BY <3>2, <3>3, <3>4
  <2>4. CASE UNCHANGED <<reopen, lost>>
    BY <2>2, <2>4
  <2>5. CASE UNCHANGED reopen /\ lost' = lost \cup {j}
    BY <2>2, <2>5
  <2> QED BY <2>1, <2>3, <2>4, <2>5 DEF Finish
<1>7. CASE \E r \in Crops \cup {"note"} : reopenPopup(r)
  BY <1>7 DEF reopenPopup
<1>8. CASE UNCHANGED vars
  BY <1>8 DEF vars
<1> QED BY <1>1, <1>2, <1>3, <1>4, <1>5, <1>6, <1>7, <1>8 DEF Next, Annotation

-----------------------------------------------------------------------------

\* Every step keeps the inductive invariant.
LEMMA Inductive == IInv /\ [Next]_vars => IInv'
<1> SUFFICES ASSUME IInv, [Next]_vars PROVE IInv'
  OBVIOUS
<1>1. Page /\ ModeTypes /\ CropTypes /\ JobTypes /\ Holder /\ Jobs /\ OwnArea /\ Ends
  BY DEF IInv, TypeOK, Page
<1>2. Page' /\ ModeTypes' /\ CropTypes' /\ JobTypes'
  BY <1>1, PageKept, ModesKept, CropKept, JobKept
<1>3. Holder' /\ Jobs' /\ OwnArea' /\ Ends'
  BY <1>1, HolderKept, JobsKept, OwnKept, EndsKept
<1> QED BY <1>2, <1>3 DEF IInv, TypeOK, Page

\* The inductive invariant holds in every behaviour.
LEMMA Invariant == Spec => []IInv
BY Initially, Inductive, PTL DEF Spec

\* The type invariant, for any number of elements, notes, captures and documents.
THEOREM ReviewTypes == Spec => []TypeOK
<1>1. IInv => TypeOK
  BY DEF IInv
<1> QED BY <1>1, Invariant, PTL

\* The pins, the badges, the counts and the card are those of the notes there are
\* (overlay.js:1164-1193, 1387-1472).
THEOREM NotesStayTrue == Spec => []NotesAgree
<1>1. IInv => NotesAgree
  BY DEF IInv
<1> QED BY <1>1, Invariant, PTL

\* A review that is over leaves no listener, loop, frame or catching host in the
\* page (overlay.js:929, 1140, 1323).
THEOREM StoppedIsQuiet == Spec => []QuietWhenStopped
<1>1. IInv => QuietWhenStopped
  BY DEF IInv
<1> QED BY <1>1, Invariant, PTL

\* A capture never puts another capture's area into the gallery
\* (overlay.js:1003-1013, background.js:1698).
THEOREM StoresItsOwn == Spec => []OwnArea
<1>1. IInv => OwnArea
  BY DEF IInv
<1> QED BY <1>1, Invariant, PTL

\* A screenshot of a page that is held for its capture shows neither the overlay
\* nor a dialog (overlay.js:957, 1003-1013).
THEOREM ShotIsClean == Spec => []CleanShot
<1>1. IInv => CleanShot
  <2> SUFFICES ASSUME IInv, NEW j \in Crops, job[j] = "shot", request = j
               PROVE  hidden /\ dialog = None
    BY DEF CleanShot
  <2>1. result = j
    BY DEF IInv, Jobs
  <2>2. dialog = None
    BY <2>1 DEF IInv, Holder
  <2>3. resume # None
    BY <2>1, CropsAssumption DEF IInv, Jobs
  <2> QED BY <2>2, <2>3 DEF IInv, Holder
<1> QED BY <1>1, Invariant, PTL

\* A page that was taken over has a capture that will give it back, or whose end
\* was lost; the popup returns only for a capture that was saved and ended
\* (background.js:1738-1741).
THEOREM CapturesEnd == Spec => []CaptureEnds
<1>1. IInv => CaptureEnds
  <2> SUFFICES ASSUME IInv PROVE CaptureEnds
    OBVIOUS
  <2>1. GivenBack
    BY DEF IInv, Holder, Jobs, GivenBack
  <2>2. PopupAfterSave
    BY CropsAssumption DEF IInv, TypeOK, JobTypes, Ends, PopupAfterSave
  <2> QED BY <2>1, <2>2 DEF CaptureEnds
<1> QED BY <1>1, Invariant, PTL

-----------------------------------------------------------------------------
(* The gallery: its inductive invariant.                                   *)

\* What a list of captures may be: each capture in it was put into the gallery; the
\* copy that its entry names was made, and the one of an entry without a path is gone.
Lists == UNION {[D -> Entry] : D \in SUBSET All}

Fits(L, done, copies, left) ==
  /\ L \in Lists
  /\ \A s \in DOMAIN L :
       /\ s \in Shots => done[s] = "in" /\ (L[s].path => <<L[s].host, s>> \in copies)
       /\ ~L[s].path => <<L[s].host, s>> \notin left

\* A list that is shown or stored has its old captures as they were: with a path.
Whole(L) == \A s \in DOMAIN L : s \in Old => L[s].path

\* The lists there are: the gallery, the popup's own, those that storage calls will
\* answer, those that the worker has read, and what is asked of the helper.
StoredFits == Fits(storage, taken, made, remote) /\ Whole(storage)
ShownFits  == Fits(shots, taken, made, remote) /\ Whole(shots)
RepliesFit ==
  /\ replies \in Seq([list : Lists, for : Keys \cup {"none"}])
  /\ \A i \in 1 .. Len(replies) :
       Fits(replies[i].list, taken, made, remote) /\ Whole(replies[i].list)
ReadFits   == /\ got \in [Shots -> Lists]
              /\ \A s \in Shots : Fits(got[s], taken, made, remote) /\ Whole(got[s])
AskedFits  == /\ asked \in [Keys -> Lists]
              /\ \A k \in Keys : Fits(asked[k], taken, made, remote)
QueueFits  ==
  /\ queue \in Seq([kind : Keys, shots : Lists, reply : BOOLEAN, here : BOOLEAN])
  /\ \A i \in 1 .. Len(queue) : Fits(queue[i].shots, taken, made, remote)

\* A request that has come to its copies has no local file left.
Emptied(q) == ~q.here => DOMAIN q.shots \cap local = {}
CopiesNext == \A i \in 1 .. Len(queue) : Emptied(queue[i])

\* Every copy is one on a server, and the entry of a capture is true of its copy.
Copies ==
  /\ local \subseteq All /\ remote \subseteq made /\ made \subseteq Hosts \X All
  /\ taken \in [Shots -> {"no", "asked", "gone", "saved", "lost", "read", "in"}]
  /\ entry \in [Shots -> Entry]
  /\ \A s \in Shots : IF entry[s].path THEN <<entry[s].host, s>> \in made
                                       ELSE entry[s].host = NoServer

\* What a handler has heard to be deleted has no local file.
Heard ==
  /\ handler \in [Keys -> {"none", "status", "record", "files", "answer"}]
  /\ \A k \in Keys : handler[k] = "answer" => DOMAIN asked[k] \cap local = {}

\* What was removed was in the gallery, and its files are gone.
Gone ==
  /\ removed \subseteq Server \X All
  /\ \A r \in removed : /\ r[2] \notin local /\ r \notin remote
                        /\ r[2] \in Shots => taken[r[2]] = "in"

GalleryInv == /\ StoredFits /\ ShownFits /\ RepliesFit /\ ReadFits /\ AskedFits /\ QueueFits
              /\ CopiesNext /\ Copies /\ Heard /\ Gone

-----------------------------------------------------------------------------
(* What a step does to files and captures, and what it leaves of the lists. *)

\* Only a capture that is not in the gallery yet gets files.
Forward ==
  /\ \A s \in Shots : taken[s] = "in" => taken'[s] = "in"
  /\ made \subseteq made'
  /\ \A c \in remote' : c \in remote \/ (c[2] \in Shots /\ taken[c[2]] # "in")
  /\ \A s \in local' : s \in local \/ (s \in Shots /\ taken[s] # "in")

LEMMA ListsAre ==
  ASSUME NEW L
  PROVE  L \in Lists <=> DOMAIN L \subseteq All /\ L \in [DOMAIN L -> Entry]
BY DEF Lists

LEMMA StillFits ==
  ASSUME Forward, NEW L, Fits(L, taken, made, remote)
  PROVE  Fits(L, taken', made', remote')
<1> SUFFICES ASSUME NEW s \in DOMAIN L
             PROVE  /\ s \in Shots => /\ taken'[s] = "in"
                                      /\ L[s].path => <<L[s].host, s>> \in made'
                    /\ ~L[s].path => <<L[s].host, s>> \notin remote'
  BY DEF Fits
<1>1. s \in Shots => taken[s] = "in" /\ (L[s].path => <<L[s].host, s>> \in made)
  BY DEF Fits
<1>2. ~L[s].path => <<L[s].host, s>> \notin remote
  BY DEF Fits
<1>3. <<L[s].host, s>>[2] = s
  OBVIOUS
<1> QED  BY <1>1, <1>2, <1>3 DEF Forward

LEMMA StillEmptied ==
  ASSUME Forward, NEW q, Fits(q.shots, taken, made, remote), Emptied(q)
  PROVE  Emptied(q)'
BY DEF Fits, Emptied, Forward

LEMMA PartsKept ==
  ASSUME GalleryInv, Forward
  PROVE  /\ storage' = storage => StoredFits'
         /\ shots' = shots => ShownFits'
         /\ replies' = replies => RepliesFit'
         /\ got' = got => ReadFits'
         /\ asked' = asked => AskedFits'
         /\ queue' = queue => QueueFits' /\ CopiesNext'
<1>1. storage' = storage => StoredFits'
  BY StillFits DEF GalleryInv, StoredFits
<1>2. shots' = shots => ShownFits'
  BY StillFits DEF GalleryInv, ShownFits
<1>3. replies' = replies => RepliesFit'
  BY StillFits DEF GalleryInv, RepliesFit
<1>4. got' = got => ReadFits'
  BY StillFits DEF GalleryInv, ReadFits
<1>5. asked' = asked => AskedFits'
  BY StillFits DEF GalleryInv, AskedFits
<1>6. queue' = queue => QueueFits' /\ CopiesNext'
  BY StillFits, StillEmptied DEF GalleryInv, QueueFits, CopiesNext
<1> QED  BY <1>1, <1>2, <1>3, <1>4, <1>5, <1>6

LEMMA GoneKept ==
  ASSUME GalleryInv, Forward, removed' = removed
  PROVE  Gone'
<1> SUFFICES ASSUME NEW r \in removed
             PROVE  r[2] \notin local' /\ r \notin remote' /\ (r[2] \in Shots => taken'[r[2]] = "in")
  BY DEF GalleryInv, Gone
<1> QED  BY DEF GalleryInv, Gone, Forward

LEMMA HeardKept ==
  ASSUME GalleryInv, Forward, UNCHANGED <<handler, asked>>
  PROVE  Heard'
<1> SUFFICES ASSUME NEW k \in Keys, handler[k] = "answer", NEW s \in DOMAIN asked[k]
             PROVE  s \notin local'
  BY DEF GalleryInv, Heard
<1>1. s \notin local /\ (s \in Shots => taken[s] = "in")
  BY DEF GalleryInv, Heard, AskedFits, Fits
<1> QED  BY <1>1 DEF Forward

LEMMA SameFiles == ASSUME GalleryInv, UNCHANGED <<files, takes>> PROVE Forward /\ Copies' /\ ReadFits'
<1>1. Forward /\ Copies'
  BY DEF Forward, GalleryInv, Copies, files, takes
<1> QED  BY <1>1, PartsKept DEF takes

LEMMA AppendFits ==
  ASSUME GalleryInv, Forward, NEW L, Fits(L, taken', made', remote'), Whole(L),
         NEW k \in Keys \cup {"none"}, replies' = Append(replies, Answer(L, k))
  PROVE  RepliesFit'
<1>1. replies \in Seq([list : Lists, for : Keys \cup {"none"}])
  BY DEF GalleryInv, RepliesFit
<1>2. Answer(L, k) \in [list : Lists, for : Keys \cup {"none"}] /\ Answer(L, k).list = L
  BY DEF Answer, Fits
<1>3. /\ replies' \in Seq([list : Lists, for : Keys \cup {"none"}])
      /\ Len(replies') = Len(replies) + 1
      /\ \A i \in 1 .. Len(replies') :
           replies'[i] = IF i <= Len(replies) THEN replies[i] ELSE Answer(L, k)
  BY <1>1, <1>2
<1>4. ASSUME NEW i \in 1 .. Len(replies')
      PROVE  Fits(replies'[i].list, taken', made', remote') /\ Whole(replies'[i].list)
  <2>1. CASE i <= Len(replies)
    <3>1. Fits(replies[i].list, taken, made, remote) /\ Whole(replies[i].list)
      BY <1>1, <2>1 DEF GalleryInv, RepliesFit
    <3> QED  BY <1>3, <2>1, <3>1, StillFits
  <2>2. CASE ~(i <= Len(replies))
    BY <1>2, <1>3, <2>2
  <2> QED  BY <2>1, <2>2
<1> QED  BY <1>3, <1>4 DEF RepliesFit

LEMMA SendFits ==
  ASSUME GalleryInv, Forward, NEW d, Fits(d, taken', made', remote'), NEW k \in Keys, Send(k, d)
  PROVE  QueueFits' /\ CopiesNext' /\ AskedFits' /\ Heard'
<1> DEFINE R == [kind : Keys, shots : Lists, reply : BOOLEAN, here : BOOLEAN]
           r == [kind |-> k, shots |-> d, reply |-> TRUE, here |-> TRUE]
<1>1. queue \in Seq(R) /\ queue' = Append(queue, r)
  BY DEF GalleryInv, QueueFits, Send
<1>2. r \in R /\ r.shots = d /\ r.here
  BY DEF Fits
<1>3. QueueFits' /\ CopiesNext'
  <2> HIDE DEF R, r
  <2>1. /\ queue' \in Seq(R) /\ Len(queue') = Len(queue) + 1
        /\ \A i \in 1 .. Len(queue') : queue'[i] = IF i <= Len(queue) THEN queue[i] ELSE r
    BY <1>1, <1>2
  <2>2. ASSUME NEW i \in 1 .. Len(queue')
        PROVE  Fits(queue'[i].shots, taken', made', remote') /\ Emptied(queue[i])'
    <3>1. CASE i <= Len(queue)
      <4>1. Fits(queue[i].shots, taken, made, remote) /\ Emptied(queue[i])
        BY <1>1, <3>1 DEF GalleryInv, QueueFits, CopiesNext
      <4>2. queue'[i] = queue[i]
        BY <2>1, <3>1
      <4>3. (~queue[i].here => DOMAIN queue[i].shots \cap local' = {})
        BY <4>1 DEF Emptied, Fits, Forward
      <4> QED  BY <4>1, <4>2, <4>3, StillFits DEF Emptied
    <3>2. CASE ~(i <= Len(queue))
      BY <1>2, <2>1, <3>2 DEF Emptied
    <3> QED  BY <3>1, <3>2
  <2> QED  BY <2>1, <2>2 DEF QueueFits, CopiesNext, R
<1>4. /\ asked' = [asked EXCEPT ![k] = d] /\ handler' = [handler EXCEPT ![k] = "files"]
      /\ asked \in [Keys -> Lists] /\ d \in Lists
      /\ handler \in [Keys -> {"none", "status", "record", "files", "answer"}]
  BY DEF GalleryInv, AskedFits, Heard, Send, Fits
<1>5. AskedFits'
  BY <1>4, StillFits DEF GalleryInv, AskedFits
<1>6. Heard'
  <2>1. ASSUME NEW j \in Keys, handler'[j] = "answer", NEW s \in DOMAIN asked'[j]
        PROVE  s \notin local'
    <3>1. j # k /\ handler[j] = "answer" /\ s \in DOMAIN asked[j]
      BY <1>4, <2>1
    <3>2. s \notin local /\ (s \in Shots => taken[s] = "in")
      BY <3>1 DEF GalleryInv, Heard, AskedFits, Fits
    <3> QED  BY <3>2 DEF Forward
  <2> QED  BY <1>4, <2>1 DEF Heard
<1> QED  BY <1>3, <1>5, <1>6

LEMMA EmptyFits == ASSUME NEW t, NEW m, NEW r PROVE Fits(Empty, t, m, r) /\ Whole(Empty)
<1>1. DOMAIN Empty = {} /\ Empty \in [{} -> Entry]
  BY DEF Empty
<1> QED  BY <1>1, ListsAre DEF Fits, Whole

\* A step that leaves the handlers and their requests alone.
LEMMA HandlersAlone ==
  ASSUME GalleryInv, Forward, UNCHANGED deletes
  PROVE  AskedFits' /\ QueueFits' /\ CopiesNext' /\ Heard' /\ Gone'
BY PartsKept, GoneKept, HeardKept DEF deletes

-----------------------------------------------------------------------------
(* The popup.                                                              *)

LEMMA SelectKeeps == ASSUME GalleryInv, selectTab PROVE GalleryInv'
<1>1. /\ Forward /\ Copies' /\ ReadFits' /\ AskedFits' /\ QueueFits' /\ CopiesNext'
      /\ Heard' /\ Gone'
  BY SameFiles, HandlersAlone DEF selectTab
<1>2. StoredFits' /\ ShownFits'
  BY <1>1, PartsKept DEF selectTab
<1>3. RepliesFit'
  <2>1. Fits(storage, taken', made', remote') /\ Whole(storage)
    BY <1>1, StillFits DEF GalleryInv, StoredFits
  <2> QED  BY <1>1, <2>1, AppendFits DEF selectTab, loadScreenshots
<1> QED  BY <1>1, <1>2, <1>3 DEF GalleryInv

LEMMA OpenKeeps == ASSUME GalleryInv, OpenPopup PROVE GalleryInv'
<1>1. /\ Forward /\ Copies' /\ ReadFits' /\ AskedFits' /\ QueueFits' /\ CopiesNext'
      /\ Heard' /\ Gone'
  BY SameFiles, HandlersAlone DEF OpenPopup
<1>2. StoredFits' /\ ShownFits'
  BY <1>1, PartsKept, EmptyFits DEF OpenPopup, ShownFits
<1>3. RepliesFit'
  <2>1. Fits(storage, taken', made', remote') /\ Whole(storage)
    BY <1>1, StillFits DEF GalleryInv, StoredFits
  <2> DEFINE a == Answer(storage, "none")
  <2>2. a \in [list : Lists, for : Keys \cup {"none"}] /\ a.list = storage
    BY <2>1 DEF Answer, Fits
  <2>3. replies' = <<a>>
    BY DEF OpenPopup
  <2> HIDE DEF a
  <2>4. /\ replies' \in Seq([list : Lists, for : Keys \cup {"none"}])
        /\ Len(replies') = 1 /\ replies'[1] = a
    BY <2>2, <2>3
  <2> QED  BY <2>1, <2>2, <2>4 DEF RepliesFit
<1> QED  BY <1>1, <1>2, <1>3 DEF GalleryInv

LEMMA CloseKeeps == ASSUME GalleryInv, ClosePopup PROVE GalleryInv'
<1>1. /\ UNCHANGED <<storage, local, remote, made, entry, got, removed>>
      /\ \A s \in Shots : taken'[s] \in {taken[s], "gone", "lost"}
      /\ \A s \in Shots : taken'[s] # taken[s] => taken[s] \in {"asked", "saved"}
      /\ taken' \in [Shots -> {"no", "asked", "gone", "saved", "lost", "read", "in"}]
  <2>1. ASSUME NEW s \in Shots
        PROVE  /\ taken'[s] \in {taken[s], "gone", "lost"}
               /\ taken'[s] # taken[s] => taken[s] \in {"asked", "saved"}
               /\ taken'[s] \in {"no", "asked", "gone", "saved", "lost", "read", "in"}
    <3>1. taken'[s] = CASE s \in Viewed /\ taken[s] = "asked" -> "gone"
                        [] s \in Viewed /\ taken[s] = "saved" -> "lost"
                        [] OTHER -> taken[s]
      BY DEF ClosePopup
    <3>2. taken[s] \in {"no", "asked", "gone", "saved", "lost", "read", "in"}
      BY DEF GalleryInv, Copies
    <3> QED  BY <3>1, <3>2
  <2> QED  BY <2>1 DEF ClosePopup, files
<1>2. Forward /\ Copies'
  BY <1>1 DEF Forward, GalleryInv, Copies
<1>3. StoredFits' /\ ReadFits' /\ Gone'
  BY <1>1, <1>2, PartsKept, GoneKept
<1>4. ShownFits' /\ AskedFits' /\ Heard'
  <2>1. Empty \in Lists
    BY ListsAre DEF Empty
  <2> QED  BY <2>1, EmptyFits DEF ClosePopup, ShownFits, AskedFits, Heard
<1>5. RepliesFit'
  BY DEF ClosePopup, RepliesFit
<1>6. QueueFits' /\ CopiesNext'
  <2> DEFINE R == [kind : Keys, shots : Lists, reply : BOOLEAN, here : BOOLEAN]
  <2>1. queue \in Seq(R)
    BY DEF GalleryInv, QueueFits
  <2>2. ASSUME NEW q \in R
        PROVE  /\ [q EXCEPT !.reply = FALSE] \in R /\ [q EXCEPT !.reply = FALSE].shots = q.shots
               /\ [q EXCEPT !.reply = FALSE].here = q.here
    OBVIOUS
  <2> HIDE DEF R
  <2>3. /\ queue' \in Seq(R) /\ Len(queue') = Len(queue)
        /\ \A i \in 1 .. Len(queue) : queue'[i].shots = queue[i].shots /\ queue'[i].here = queue[i].here
    BY <2>1, <2>2 DEF ClosePopup
  <2>4. \A i \in 1 .. Len(queue) : Fits(queue[i].shots, taken', made', remote')
    BY <1>2, StillFits DEF GalleryInv, QueueFits
  <2>5. \A i \in 1 .. Len(queue) : Emptied(queue[i]) /\ local' = local
    BY DEF GalleryInv, CopiesNext, ClosePopup, files
  <2>6. CopiesNext'
    BY <2>3, <2>5 DEF CopiesNext, Emptied
  <2> QED  BY <2>3, <2>4, <2>6 DEF QueueFits, R
<1> QED  BY <1>2, <1>3, <1>4, <1>5, <1>6 DEF GalleryInv

LEMMA ReplyKeepsGallery == ASSUME GalleryInv, Reply PROVE GalleryInv'
<1>1. Forward /\ Copies' /\ ReadFits' /\ StoredFits' /\ Gone'
  BY SameFiles, PartsKept, GoneKept DEF Reply
<1> DEFINE R == [list : Lists, for : Keys \cup {"none"}]
<1>2. /\ replies \in Seq(R) /\ replies # <<>> /\ replies' = Tail(replies)
      /\ \A i \in 1 .. Len(replies) :
           Fits(replies[i].list, taken', made', remote') /\ Whole(replies[i].list)
  BY <1>1, StillFits DEF Reply, GalleryInv, RepliesFit
<1>3. Head(replies) = replies[1] /\ 1 \in 1 .. Len(replies)
  BY <1>2
<1>4. ShownFits'
  BY <1>2, <1>3 DEF Reply, ShownFits
<1>5. RepliesFit'
  <2> HIDE DEF R
  <2>1. /\ replies' \in Seq(R) /\ Len(replies') = Len(replies) - 1
        /\ \A i \in 1 .. Len(replies') : i + 1 \in 1 .. Len(replies) /\ replies'[i] = replies[i + 1]
    BY <1>2
  <2> QED  BY <1>2, <2>1 DEF RepliesFit, R
<1> DEFINE k == Head(replies).for
<1>6. CASE k \in Keys
  <2>1. Fits(asked[k], taken', made', remote')
    BY <1>1, <1>6, StillFits DEF GalleryInv, AskedFits
  <2>2. Send(k, asked[k])
    BY <1>6 DEF Reply
  <2> HIDE DEF k
  <2> QED  BY <1>1, <1>4, <1>5, <1>6, <2>1, <2>2, SendFits DEF GalleryInv
<1>7. CASE k \notin Keys
  <2>1. UNCHANGED <<handler, asked, queue>>
    BY <1>7 DEF Reply
  <2> QED  BY <1>1, <1>4, <1>5, <2>1, PartsKept, HeardKept DEF GalleryInv
<1> QED  BY <1>6, <1>7

LEMMA CommentKeeps == ASSUME GalleryInv, Comment PROVE GalleryInv'
<1>1. /\ Forward /\ Copies' /\ ReadFits' /\ AskedFits' /\ QueueFits' /\ CopiesNext'
      /\ Heard' /\ Gone'
  BY SameFiles, HandlersAlone DEF Comment
<1>2. ShownFits' /\ RepliesFit'
  BY <1>1, PartsKept DEF Comment, view
<1>3. StoredFits'
  BY <1>1, <1>2 DEF Comment, StoredFits, ShownFits, view
<1> QED  BY <1>1, <1>2, <1>3 DEF GalleryInv

-----------------------------------------------------------------------------
(* The captures.                                                           *)

LEMMA CaptureKeeps == ASSUME GalleryInv, NEW s \in Shots, Capture(s) PROVE GalleryInv'
<1>1. /\ \A x \in Shots : taken[x] = "in" => taken'[x] = "in"
      /\ taken' \in [Shots -> {"no", "asked", "gone", "saved", "lost", "read", "in"}]
  BY DEF GalleryInv, Copies, Capture
<1>2. Forward /\ Copies'
  BY <1>1 DEF Forward, GalleryInv, Copies, Capture, files
<1> QED  BY <1>2, PartsKept, GoneKept, HeardKept DEF GalleryInv, Capture, view

LEMMA SaveKeeps == ASSUME GalleryInv, NEW s \in Shots, SaveShot(s) PROVE GalleryInv'
<1>1. PICK done \in {"nothing", "local", "copy"}, known \in BOOLEAN, host \in Server :
        /\ done = "copy" => host # NoServer
        /\ local' = IF done = "nothing" THEN local ELSE local \cup {s}
        /\ remote' = IF done = "copy" THEN remote \cup {<<host, s>>} ELSE remote
        /\ made' = made \cup remote'
        /\ entry' = [entry EXCEPT ![s] =
             SavedEntry(IF known /\ done # "nothing" THEN host ELSE NoServer,
                        known /\ done = "copy")]
  BY DEF SaveShot
<1>2. taken[s] \in {"asked", "gone"}
  BY DEF SaveShot
<1>3. /\ taken' \in [Shots -> {"no", "asked", "gone", "saved", "lost", "read", "in"}]
      /\ \A x \in Shots : taken[x] = "in" => taken'[x] = "in"
  BY <1>2 DEF SaveShot, GalleryInv, Copies
<1>4. Forward
  BY <1>1, <1>2, <1>3 DEF Forward
<1>5. Copies'
  <2>1. s \in All /\ (done = "copy" => host \in Hosts)
    BY <1>1 DEF All, Server
  <2>2. local' \subseteq All /\ remote' \subseteq made' /\ made' \subseteq Hosts \X All
    BY <1>1, <2>1 DEF GalleryInv, Copies
  <2> DEFINE e == SavedEntry(IF known /\ done # "nothing" THEN host ELSE NoServer,
                             known /\ done = "copy")
  <2>3. /\ e \in Entry
        /\ IF e.path THEN <<e.host, s>> \in made' ELSE e.host = NoServer
    BY <1>1, <2>1 DEF SavedEntry, Kept, Entry, Server
  <2>4. entry' = [entry EXCEPT ![s] = e]
    BY <1>1
  <2> HIDE DEF e
  <2>5. /\ entry' \in [Shots -> Entry]
        /\ \A x \in Shots : IF entry'[x].path THEN <<entry'[x].host, x>> \in made'
                                              ELSE entry'[x].host = NoServer
    BY <1>1, <2>3, <2>4 DEF GalleryInv, Copies
  <2> QED  BY <1>3, <2>2, <2>5 DEF Copies
<1> QED  BY <1>4, <1>5, PartsKept, GoneKept, HeardKept DEF GalleryInv, SaveShot, view, deletes

\* A capture that is put before a list that fits.
LEMMA WithShotFits ==
  ASSUME GalleryInv, NEW s \in Shots, NEW L, Fits(L, taken, made, remote), Whole(L),
         taken' = [taken EXCEPT ![s] = "in"], UNCHANGED files,
         entry' = [entry EXCEPT ![s] = Kept(NoServer, FALSE)]
  PROVE  /\ Forward /\ Copies'
         /\ Fits(WithShot(s, L), taken', made', remote') /\ Whole(WithShot(s, L))
<1>1. Forward
  BY DEF Forward, GalleryInv, Copies, files
<1>2. Copies'
  <2>1. Kept(NoServer, FALSE) \in Entry /\ ~Kept(NoServer, FALSE).path
        /\ Kept(NoServer, FALSE).host = NoServer
    BY DEF Kept, Entry, Server
  <2> QED  BY <2>1 DEF GalleryInv, Copies, files
<1>3. /\ entry[s] \in Entry /\ s \in All
      /\ entry[s].path => <<entry[s].host, s>> \in made
      /\ ~entry[s].path => <<entry[s].host, s>> \notin remote
  BY HostsAssumption DEF GalleryInv, Copies, All
<1> DEFINE W == WithShot(s, L)
<1>4. /\ DOMAIN W = {s} \cup DOMAIN L
      /\ \A x \in DOMAIN W : W[x] = IF x = s THEN entry[s] ELSE L[x]
      /\ W = [x \in DOMAIN W |-> W[x]]
  BY DEF WithShot
<1>5. DOMAIN L \subseteq All /\ L \in [DOMAIN L -> Entry]
  BY ListsAre DEF Fits
<1> HIDE DEF W
<1>6. W \in Lists
  <2>1. \A x \in DOMAIN W : W[x] \in Entry
    BY <1>3, <1>4, <1>5
  <2> QED  BY <1>3, <1>4, <1>5, <2>1, ListsAre
<1>7. Fits(L, taken', made', remote')
  BY <1>1, StillFits
<1>8. taken'[s] = "in" /\ made' = made /\ remote' = remote
  BY DEF GalleryInv, Copies, files
<1>9. Fits(W, taken', made', remote')
  <2> SUFFICES ASSUME NEW x \in DOMAIN W
               PROVE  /\ x \in Shots => /\ taken'[x] = "in"
                                        /\ W[x].path => <<W[x].host, x>> \in made'
                      /\ ~W[x].path => <<W[x].host, x>> \notin remote'
    BY <1>6 DEF Fits
  <2>1. CASE x = s
    BY <1>3, <1>4, <1>8, <2>1
  <2>2. CASE x # s
    <3>1. x \in DOMAIN L /\ W[x] = L[x]
      BY <1>4, <2>2
    <3> QED  BY <1>7, <3>1 DEF Fits
  <2> QED  BY <2>1, <2>2
<1>10. Whole(W)
  BY <1>4, ShotsAssumption DEF Whole
<1> QED  BY <1>1, <1>2, <1>9, <1>10 DEF W

LEMMA AddViewedKeeps == ASSUME GalleryInv, NEW s \in Shots, AddViewed(s) PROVE GalleryInv'
<1>1. /\ Forward /\ Copies'
      /\ Fits(WithShot(s, shots), taken', made', remote') /\ Whole(WithShot(s, shots))
  BY WithShotFits DEF AddViewed, GalleryInv, ShownFits
<1>2. StoredFits' /\ RepliesFit'
  <2> DEFINE L == WithShot(s, shots)
  <2>1. storage' = L /\ replies' = Append(replies, Answer(L, "none"))
    BY DEF AddViewed, saveScreenshots
  <2> HIDE DEF L
  <2>2. Fits(L, taken', made', remote') /\ Whole(L)
    BY <1>1 DEF L
  <2> QED  BY <1>1, <2>1, <2>2, AppendFits DEF StoredFits
<1>3. ShownFits' /\ ReadFits'
  BY <1>1, PartsKept DEF AddViewed
<1> QED  BY <1>1, <1>2, <1>3, HandlersAlone DEF GalleryInv, AddViewed

LEMMA ReadKeeps == ASSUME GalleryInv, NEW s \in Shots, ReadGallery(s) PROVE GalleryInv'
<1>1. /\ taken[s] = "saved"
      /\ taken' \in [Shots -> {"no", "asked", "gone", "saved", "lost", "read", "in"}]
      /\ \A x \in Shots : taken[x] = "in" => taken'[x] = "in"
  BY DEF GalleryInv, Copies, ReadGallery
<1>2. Forward /\ Copies'
  BY <1>1 DEF Forward, GalleryInv, Copies, ReadGallery, files
<1>3. ReadFits'
  <2>1. storage \in Lists /\ got' = [got EXCEPT ![s] = storage] /\ got \in [Shots -> Lists]
    BY DEF GalleryInv, StoredFits, ReadFits, Fits, ReadGallery
  <2>2. /\ Fits(storage, taken', made', remote') /\ Whole(storage)
        /\ \A x \in Shots : Fits(got[x], taken', made', remote') /\ Whole(got[x])
    BY <1>2, StillFits DEF GalleryInv, StoredFits, ReadFits
  <2> QED  BY <2>1, <2>2 DEF ReadFits
<1> QED  BY <1>2, <1>3, PartsKept, HandlersAlone DEF GalleryInv, ReadGallery, view

LEMMA AddAreaKeeps == ASSUME GalleryInv, NEW s \in Shots, AddArea(s) PROVE GalleryInv'
<1>1. /\ Forward /\ Copies'
      /\ Fits(WithShot(s, got[s]), taken', made', remote') /\ Whole(WithShot(s, got[s]))
  BY WithShotFits DEF AddArea, GalleryInv, ReadFits
<1>2. StoredFits'
  BY <1>1 DEF AddArea, StoredFits
<1>3. ReadFits'
  <2>1. Empty \in Lists /\ got' = [got EXCEPT ![s] = Empty] /\ got \in [Shots -> Lists]
    BY EmptyFits DEF GalleryInv, ReadFits, Fits, AddArea
  <2>2. \A x \in Shots : Fits(got[x], taken', made', remote') /\ Whole(got[x])
    BY <1>1, StillFits DEF GalleryInv, ReadFits
  <2> QED  BY <2>1, <2>2, EmptyFits DEF ReadFits
<1> QED  BY <1>1, <1>2, <1>3, PartsKept, HandlersAlone DEF GalleryInv, AddArea, view

-----------------------------------------------------------------------------
(* Delete and Clear.                                                       *)

\* Only the entry of an old capture may lack the host of its copy.
LEMMA UnknownOld ==
  ASSUME GalleryInv, NEW L, Fits(L, taken, made, remote)
  PROVE  Unknown(L) \cap Shots = {}
BY HostsAssumption DEF Unknown, Fits, GalleryInv, Copies

\* Captures of a list, some of the old ones with another host.
LEMMA PartFits ==
  ASSUME GalleryInv, NEW L, Fits(L, taken, made, remote), NEW M \in Lists,
         \A s \in DOMAIN M :
           /\ s \in DOMAIN L /\ M[s].path = L[s].path
           /\ M[s].host = L[s].host \/ (s \notin Shots /\ L[s].path)
  PROVE  Fits(M, taken, made, remote)
BY DEF Fits

LEMMA DestinationsFit ==
  ASSUME GalleryInv, NEW S \in SUBSET DOMAIN shots
  PROVE  Fits(Destinations(S), taken, made, remote)
<1> DEFINE D == Destinations(S)
<1>1. DOMAIN shots \subseteq All /\ shots \in [DOMAIN shots -> Entry]
      /\ Fits(shots, taken, made, remote)
  BY ListsAre DEF GalleryInv, ShownFits, Fits
<1>2. /\ DOMAIN D = S /\ D = [s \in DOMAIN D |-> D[s]]
      /\ \A s \in S : D[s] = [host |-> shots[s].host, path |-> shots[s].path]
  BY DEF Destinations
<1>3. \A s \in S : D[s] \in Entry /\ D[s].path = shots[s].path /\ D[s].host = shots[s].host
  BY <1>1, <1>2 DEF Entry
<1> HIDE DEF D
<1>4. D \in Lists
  BY <1>1, <1>2, <1>3, ListsAre
<1>5. Fits(D, taken, made, remote)
  BY <1>1, <1>2, <1>3, <1>4, PartFits
<1> QED  BY <1>5 DEF D

LEMMA AskKeepsGallery == ASSUME GalleryInv, NEW k \in Keys, AskDelete(k) PROVE GalleryInv'
<1>1. Forward /\ Copies' /\ ReadFits' /\ StoredFits' /\ ShownFits' /\ RepliesFit' /\ Gone'
  BY SameFiles, PartsKept, GoneKept DEF AskDelete, view
<1>2. PICK S \in SUBSET DOMAIN shots :
        IF Unknown(Destinations(S)) = {}
        THEN Send(k, Destinations(S))
        ELSE /\ handler' = [handler EXCEPT ![k] = "status"] /\ UNCHANGED queue
             /\ asked' = [asked EXCEPT ![k] = Destinations(S)]
  BY DEF AskDelete
<1> DEFINE d == Destinations(S)
<1>3. Fits(d, taken', made', remote')
  BY <1>1, DestinationsFit, StillFits
<1> HIDE DEF d
<1>4. CASE Send(k, d)
  BY <1>1, <1>3, <1>4, SendFits DEF GalleryInv
<1>5. CASE /\ handler' = [handler EXCEPT ![k] = "status"] /\ UNCHANGED queue
           /\ asked' = [asked EXCEPT ![k] = d]
  <2>1. AskedFits'
    BY <1>1, <1>3, <1>5, StillFits DEF GalleryInv, AskedFits, Fits
  <2>2. Heard'
    BY <1>5 DEF GalleryInv, Heard, AskedFits, AskDelete, files
  <2> QED  BY <1>1, <1>5, <2>1, <2>2, PartsKept DEF GalleryInv
<1> QED  BY <1>2, <1>4, <1>5 DEF d

LEMMA DestinationKeeps ==
  ASSUME GalleryInv, NEW k \in Keys, screenshotDestination(k)
  PROVE  GalleryInv'
<1>1. Forward /\ Copies' /\ ReadFits' /\ ShownFits' /\ Gone'
  BY SameFiles, PartsKept, GoneKept DEF screenshotDestination
<1>2. Fits(asked[k], taken, made, remote)
  BY DEF GalleryInv, AskedFits
<1>3. CASE Send(k, asked[k]) /\ UNCHANGED <<storage, replies>>
  <2>1. Fits(asked[k], taken', made', remote')
    BY <1>1, <1>2, StillFits
  <2> QED  BY <1>1, <1>3, <2>1, SendFits, PartsKept DEF GalleryInv
<1>4. ASSUME NEW host \in Hosts,
             asked' = [asked EXCEPT ![k] =
               [s \in DOMAIN @ |-> IF s \in Unknown(@) THEN [@[s] EXCEPT !.host = host] ELSE @[s]]],
             handler' = [handler EXCEPT ![k] = "record"],
             saveScreenshots([s \in DOMAIN shots |->
               IF s \in Unknown(asked[k]) THEN [shots[s] EXCEPT !.host = host] ELSE shots[s]], k),
             UNCHANGED queue
      PROVE  GalleryInv'
  <2> DEFINE U == Unknown(asked[k])
             d == [s \in DOMAIN asked[k] |-> IF s \in U THEN [asked[k][s] EXCEPT !.host = host]
                                                        ELSE asked[k][s]]
             L == [s \in DOMAIN shots |-> IF s \in U THEN [shots[s] EXCEPT !.host = host]
                                                     ELSE shots[s]]
  <2>1. U \cap Shots = {} /\ \A s \in U : s \in DOMAIN asked[k] /\ asked[k][s].path
    BY <1>2, UnknownOld DEF Unknown
  <2>2. \A e \in Entry : LET f == [e EXCEPT !.host = host] IN
          f \in Entry /\ f.path = e.path
    BY DEF Entry, Server
  <2>3. /\ DOMAIN asked[k] \subseteq All /\ asked[k] \in [DOMAIN asked[k] -> Entry]
        /\ DOMAIN shots \subseteq All /\ shots \in [DOMAIN shots -> Entry]
        /\ Fits(shots, taken, made, remote) /\ Whole(shots)
    BY <1>2, ListsAre DEF GalleryInv, ShownFits, Fits
  <2>4. Fits(d, taken, made, remote)
    <3>1. d \in Lists
      BY <2>2, <2>3, ListsAre
    <3>2. \A s \in DOMAIN d : /\ s \in DOMAIN asked[k] /\ d[s].path = asked[k][s].path
                              /\ d[s].host = asked[k][s].host \/ (s \notin Shots /\ asked[k][s].path)
      BY <2>1, <2>2, <2>3
    <3> HIDE DEF d
    <3> QED  BY <1>2, <3>1, <3>2, PartFits
  <2>5. Fits(L, taken, made, remote) /\ Whole(L)
    <3>1. L \in Lists
      BY <2>2, <2>3, ListsAre
    <3>2. \A s \in DOMAIN shots : s \in U => s \notin Shots /\ shots[s].path
      BY <2>1, <2>3 DEF Whole, All
    <3>3. \A s \in DOMAIN L : /\ s \in DOMAIN shots /\ L[s].path = shots[s].path
                              /\ L[s].host = shots[s].host \/ (s \notin Shots /\ shots[s].path)
      BY <2>2, <2>3, <3>2
    <3> HIDE DEF L
    <3> QED  BY <2>3, <3>1, <3>3, PartFits DEF Whole
  <2>6. asked' = [asked EXCEPT ![k] = d]
    BY <1>4
  <2>7. storage' = L /\ replies' = Append(replies, Answer(L, k))
    BY <1>4 DEF saveScreenshots
  <2> HIDE DEF d, L
  <2>8. Fits(d, taken', made', remote') /\ Fits(L, taken', made', remote')
    BY <1>1, <2>4, <2>5, StillFits
  <2>9. StoredFits' /\ RepliesFit'
    BY <1>1, <2>5, <2>7, <2>8, AppendFits DEF StoredFits
  <2>10. AskedFits'
    BY <1>1, <2>6, <2>8, StillFits DEF GalleryInv, AskedFits, Fits
  <2>11. Heard'
    BY <1>4, <2>6 DEF GalleryInv, Heard, AskedFits, screenshotDestination, files
  <2> QED  BY <1>1, <1>4, <2>9, <2>10, <2>11, PartsKept DEF GalleryInv
<1> QED  BY <1>3, <1>4 DEF screenshotDestination

LEMMA HeadOfQueue ==
  ASSUME GalleryInv, queue # <<>>
  PROVE  /\ Head(queue) = queue[1] /\ 1 \in 1 .. Len(queue) /\ Head(queue).kind \in Keys
         /\ Fits(Head(queue).shots, taken, made, remote) /\ Emptied(Head(queue))
<1> DEFINE R == [kind : Keys, shots : Lists, reply : BOOLEAN, here : BOOLEAN]
<1>1. /\ queue \in Seq(R)
      /\ \A i \in 1 .. Len(queue) : Fits(queue[i].shots, taken, made, remote) /\ Emptied(queue[i])
  BY DEF GalleryInv, QueueFits, CopiesNext
<1>2. Head(queue) = queue[1] /\ 1 \in 1 .. Len(queue) /\ Head(queue) \in R
  <2> HIDE DEF R
  <2> QED  BY <1>1
<1> QED  BY <1>1, <1>2

LEMMA TakenFromQueue ==
  ASSUME GalleryInv, Forward, queue # <<>>, queue' = Tail(queue)
  PROVE  QueueFits' /\ CopiesNext'
<1> DEFINE R == [kind : Keys, shots : Lists, reply : BOOLEAN, here : BOOLEAN]
<1>1. /\ queue \in Seq(R)
      /\ \A i \in 1 .. Len(queue) : Fits(queue[i].shots, taken, made, remote) /\ Emptied(queue[i])
  BY DEF GalleryInv, QueueFits, CopiesNext
<1>2. /\ queue' \in Seq(R) /\ Len(queue') = Len(queue) - 1
      /\ \A i \in 1 .. Len(queue') : i + 1 \in 1 .. Len(queue) /\ queue'[i] = queue[i + 1]
  <2> HIDE DEF R
  <2> QED  BY <1>1
<1>3. \A i \in 1 .. Len(queue') : Fits(queue'[i].shots, taken', made', remote')
  BY <1>1, <1>2, StillFits
<1>4. \A i \in 1 .. Len(queue) : ~queue[i].here => DOMAIN queue[i].shots \cap local' = {}
  BY <1>1 DEF Emptied, Fits, Forward
<1>5. CopiesNext'
  BY <1>2, <1>4 DEF CopiesNext, Emptied
<1> QED  BY <1>2, <1>3, <1>5 DEF QueueFits

\* The head of the queue has no local file left.
LEMMA GoesOn ==
  ASSUME GalleryInv, Forward, queue # <<>>, queue' = [queue EXCEPT ![1].here = FALSE],
         DOMAIN Head(queue).shots \cap local' = {}
  PROVE  QueueFits' /\ CopiesNext'
<1> DEFINE R == [kind : Keys, shots : Lists, reply : BOOLEAN, here : BOOLEAN]
<1>1. /\ queue \in Seq(R)
      /\ \A i \in 1 .. Len(queue) : Fits(queue[i].shots, taken, made, remote) /\ Emptied(queue[i])
  BY DEF GalleryInv, QueueFits, CopiesNext
<1>2. ASSUME NEW q \in R
      PROVE  /\ [q EXCEPT !.here = FALSE] \in R /\ [q EXCEPT !.here = FALSE].shots = q.shots
             /\ ~[q EXCEPT !.here = FALSE].here
  OBVIOUS
<1> DEFINE next == [queue[1] EXCEPT !.here = FALSE]
<1> HIDE DEF R
<1>3. 1 \in 1 .. Len(queue) /\ queue[1] \in R /\ next \in R
  BY <1>1, <1>2, HeadOfQueue
<1>4. /\ queue' \in Seq(R) /\ Len(queue') = Len(queue)
      /\ \A i \in 1 .. Len(queue) : i # 1 => queue'[i] = queue[i]
      /\ queue'[1] = [queue[1] EXCEPT !.here = FALSE]
  <2>1. queue' = [queue EXCEPT ![1] = next]
    OBVIOUS
  <2> HIDE DEF next
  <2>2. queue \in Seq(R)
    BY <1>1
  <2>3. /\ [queue EXCEPT ![1] = next] \in Seq(R) /\ Len([queue EXCEPT ![1] = next]) = Len(queue)
        /\ \A j \in 1 .. Len(queue) :
             [queue EXCEPT ![1] = next][j] = IF j = 1 THEN next ELSE queue[j]
    BY <1>3, <2>2, ExceptSeq
  <2>4. queue' \in Seq(R) /\ Len(queue') = Len(queue)
    BY <2>1, <2>3
  <2>5. \A j \in 1 .. Len(queue) : queue'[j] = IF j = 1 THEN next ELSE queue[j]
    BY <2>1, <2>3
  <2> QED  BY <1>3, <2>4, <2>5 DEF next
<1>5. \A i \in 1 .. Len(queue) : queue'[i].shots = queue[i].shots
  BY <1>2, <1>3, <1>4
<1>6. \A i \in 1 .. Len(queue') : Fits(queue'[i].shots, taken', made', remote')
  <2>1. \A i \in 1 .. Len(queue) : Fits(queue[i].shots, taken', made', remote')
    BY <1>1, StillFits
  <2> QED  BY <1>4, <1>5, <2>1
<1>7. CopiesNext'
  <2>1. \A i \in 1 .. Len(queue) : ~queue[i].here => DOMAIN queue[i].shots \cap local' = {}
    BY <1>1 DEF Emptied, Fits, Forward
  <2>2. DOMAIN queue'[1].shots \cap local' = {}
    BY <1>5, HeadOfQueue
  <2> QED  BY <1>4, <2>1, <2>2 DEF CopiesNext, Emptied
<1> QED  BY <1>4, <1>6, <1>7 DEF QueueFits, R

\* The popup hears of a request.
LEMMA TellsKeeps ==
  ASSUME GalleryInv, Forward, NEW r, r.kind \in Keys, NEW pc \in {"answer", "none"},
         NEW d, Fits(d, taken', made', remote'), pc = "answer" => DOMAIN d \cap local' = {},
         Tells(r, pc, d)
  PROVE  AskedFits' /\ Heard'
<1>1. CASE UNCHANGED <<handler, asked>>
  BY <1>1, PartsKept, HeardKept
<1>2. CASE /\ handler' = [handler EXCEPT ![r.kind] = pc]
           /\ asked' = [asked EXCEPT ![r.kind] = d]
  <2>1. /\ asked \in [Keys -> Lists] /\ d \in Lists
        /\ handler \in [Keys -> {"none", "status", "record", "files", "answer"}]
    BY DEF GalleryInv, AskedFits, Heard, Fits
  <2>2. AskedFits'
    BY <1>2, <2>1, StillFits DEF GalleryInv, AskedFits
  <2>3. ASSUME NEW j \in Keys, handler'[j] = "answer", NEW s \in DOMAIN asked'[j]
        PROVE  s \notin local'
    <3>1. CASE j = r.kind
      BY <1>2, <2>1, <2>3, <3>1
    <3>2. CASE j # r.kind
      <4>1. handler[j] = "answer" /\ s \in DOMAIN asked[j]
        BY <1>2, <2>1, <2>3, <3>2
      <4>2. s \notin local /\ (s \in Shots => taken[s] = "in")
        BY <4>1 DEF GalleryInv, Heard, AskedFits, Fits
      <4> QED  BY <4>2 DEF Forward
    <3> QED  BY <3>1, <3>2
  <2> QED  BY <1>2, <2>1, <2>2, <2>3 DEF Heard
<1> QED  BY <1>1, <1>2 DEF Tells

LEMMA LocalKeeps == ASSUME GalleryInv, DeleteLocal PROVE GalleryInv'
<1> DEFINE r == Head(queue)
<1>1. PICK gone \in SUBSET LocalFiles(r) :
        /\ local' = local \ gone
        /\ \/ /\ gone = LocalFiles(r) /\ queue' = [queue EXCEPT ![1].here = FALSE]
              /\ UNCHANGED <<handler, asked>>
           \/ queue' = Tail(queue) /\ Tells(r, "none", Empty)
  BY DEF DeleteLocal, LocalDeleted
<1>2. Forward /\ Copies' /\ Gone'
  <2>1. local' \subseteq local
    BY <1>1
  <2>2. Forward /\ Copies'
    BY <2>1 DEF Forward, GalleryInv, Copies, DeleteLocal, takes
  <2> QED  BY <2>2, GoneKept DEF DeleteLocal
<1>3. ASSUME gone = LocalFiles(r), queue' = [queue EXCEPT ![1].here = FALSE],
             UNCHANGED <<handler, asked>>
      PROVE  QueueFits' /\ CopiesNext' /\ AskedFits' /\ Heard'
  <2>1. DOMAIN r.shots \cap local' = {}
    BY <1>1, <1>3 DEF LocalFiles
  <2> QED  BY <1>2, <1>3, <2>1, GoesOn, PartsKept, HeardKept DEF DeleteLocal
<1>4. ASSUME queue' = Tail(queue), Tells(r, "none", Empty)
      PROVE  QueueFits' /\ CopiesNext' /\ AskedFits' /\ Heard'
  BY <1>2, <1>4, TakenFromQueue, HeadOfQueue, TellsKeeps, EmptyFits DEF DeleteLocal
<1>5. QueueFits' /\ CopiesNext' /\ AskedFits' /\ Heard'
  BY <1>1, <1>3, <1>4
<1> QED  BY <1>2, <1>5, PartsKept DEF GalleryInv, DeleteLocal, takes, view

LEMMA DeleteKeeps == ASSUME GalleryInv, DeleteFiles PROVE GalleryInv'
<1> DEFINE r == Head(queue)
           Left(there) == [s \in DOMAIN r.shots |->
             [host |-> r.shots[s].host, path |-> r.shots[s].path /\ s \notin there]]
           Deleted(host, there) ==
             /\ remote' = remote \ {<<host[s], s>> : s \in there}
             /\ Tells(r, "answer", Left(there)) \/ Tells(r, "none", Empty)
<1>1. PICK host \in [DOMAIN r.shots -> Server] :
        \E there \in SUBSET DeletedRemote(r.shots, host) : Deleted(host, there)
  BY DEF DeleteFiles
<1>2. PICK there \in SUBSET DeletedRemote(r.shots, host) : Deleted(host, there)
  <2> HIDE DEF Deleted
  <2> QED  BY <1>1
<1>3. Forward /\ Copies' /\ Gone'
  <2>1. local' \subseteq local /\ remote' \subseteq remote
    BY <1>2 DEF DeleteFiles
  <2>2. Forward /\ Copies'
    BY <2>1 DEF Forward, GalleryInv, Copies, DeleteFiles, takes
  <2> QED  BY <2>2, GoneKept DEF DeleteFiles
<1>4. /\ QueueFits' /\ CopiesNext' /\ r.kind \in Keys
      /\ Fits(r.shots, taken, made, remote) /\ Emptied(r) /\ ~r.here /\ local' = local
  BY <1>3, TakenFromQueue, HeadOfQueue DEF DeleteFiles
<1> DEFINE d == r.shots
           a == Left(there)
<1> HIDE DEF r
<1>5. DOMAIN d \subseteq All /\ d \in [DOMAIN d -> Entry]
  BY <1>4, ListsAre DEF Fits
<1>6. Tells(r, "answer", a) \/ Tells(r, "none", Empty)
  BY <1>2
<1>7. Fits(a, taken', made', remote')
  <2>1. \A s \in DOMAIN d : /\ a[s] \in Entry /\ a[s].host = d[s].host
                            /\ a[s].path = (d[s].path /\ s \notin there)
    BY <1>5 DEF Entry
  <2>2. DOMAIN a = DOMAIN d /\ a = [s \in DOMAIN a |-> a[s]]
    OBVIOUS
  <2>3. Fits(d, taken', made', remote')
    BY <1>3, <1>4, StillFits
  <2>4. \A s \in there : d[s].path => <<d[s].host, s>> \notin remote'
    BY <1>2 DEF DeletedRemote
  <2> HIDE DEF a, d
  <2>5. a \in Lists
    BY <1>5, <2>1, <2>2, ListsAre
  <2> QED  BY <2>1, <2>2, <2>3, <2>4, <2>5 DEF Fits
<1>8. DOMAIN a \cap local' = {}
  BY <1>4 DEF Emptied
<1> HIDE DEF a
<1>9. AskedFits' /\ Heard'
  BY <1>3, <1>4, <1>6, <1>7, <1>8, TellsKeeps, EmptyFits
<1> QED  BY <1>3, <1>4, <1>9, PartsKept DEF GalleryInv, DeleteFiles, takes, view

LEMMA RefuseKeeps == ASSUME GalleryInv, RefuseFiles PROVE GalleryInv'
<1>1. Forward /\ Copies' /\ ReadFits' /\ StoredFits' /\ ShownFits' /\ RepliesFit' /\ Gone'
  BY SameFiles, PartsKept, GoneKept DEF RefuseFiles, view
<1>2. QueueFits' /\ CopiesNext' /\ Head(queue).kind \in Keys
  BY <1>1, TakenFromQueue, HeadOfQueue DEF RefuseFiles
<1>3. AskedFits' /\ Heard'
  BY <1>1, <1>2, TellsKeeps, EmptyFits DEF RefuseFiles
<1> QED  BY <1>1, <1>2, <1>3 DEF GalleryInv

LEMMA RemoveKeeps == ASSUME GalleryInv, NEW k \in Keys, RemoveEntries(k) PROVE GalleryInv'
<1>1. Forward /\ Copies' /\ ReadFits' /\ ShownFits' /\ QueueFits' /\ CopiesNext'
  BY SameFiles, PartsKept DEF RemoveEntries
<1> DEFINE L == [s \in DOMAIN shots \ Dropped(k) |-> shots[s]]
<1>2. DOMAIN shots \subseteq All /\ shots \in [DOMAIN shots -> Entry]
      /\ Fits(shots, taken, made, remote) /\ Whole(shots)
  BY ListsAre DEF GalleryInv, ShownFits, Fits
<1>3. Fits(L, taken', made', remote') /\ Whole(L)
  <2>1. L \in Lists /\ DOMAIN L \subseteq DOMAIN shots /\ \A s \in DOMAIN L : L[s] = shots[s]
    BY <1>2, ListsAre
  <2> HIDE DEF L
  <2>2. Fits(L, taken, made, remote)
    BY <1>2, <2>1, PartFits
  <2> QED  BY <1>1, <1>2, <2>1, <2>2, StillFits DEF Whole
<1>4. StoredFits' /\ RepliesFit'
  <2>1. storage' = L /\ replies' = Append(replies, Answer(L, "none"))
    BY DEF RemoveEntries, saveScreenshots
  <2> HIDE DEF L
  <2> QED  BY <1>1, <1>3, <2>1, AppendFits DEF StoredFits
<1>5. AskedFits' /\ Heard'
  <2>1. /\ handler' = [handler EXCEPT ![k] = "none"] /\ asked' = [asked EXCEPT ![k] = Empty]
        /\ local' = local /\ Empty \in Lists
    BY EmptyFits DEF RemoveEntries, files, Fits
  <2>2. AskedFits'
    BY <1>1, <2>1, StillFits, EmptyFits DEF GalleryInv, AskedFits
  <2>3. Heard'
    BY <2>1 DEF GalleryInv, Heard, AskedFits
  <2> QED  BY <2>2, <2>3
<1>6. Gone'
  <2>1. local' = local /\ remote' = remote /\ taken' = taken
    BY DEF RemoveEntries, files, takes
  <2>2. ASSUME NEW s \in Dropped(k)
        PROVE  /\ <<asked[k][s].host, s>> \in Server \X All
               /\ s \notin local /\ <<asked[k][s].host, s>> \notin remote
               /\ s \in Shots => taken[s] = "in"
    <3>1. s \in DOMAIN asked[k] /\ ~asked[k][s].path
      BY DEF Dropped
    <3>2. Fits(asked[k], taken, made, remote)
      BY DEF GalleryInv, AskedFits
    <3>3. s \in All /\ asked[k][s] \in Entry
      BY <3>1, <3>2, ListsAre DEF Fits
    <3>4. s \notin local
      BY <3>1 DEF GalleryInv, Heard, RemoveEntries
    <3> QED  BY <3>1, <3>2, <3>3, <3>4 DEF Fits, Entry
  <2>3. removed' = removed \cup {<<asked[k][s].host, s>> : s \in Dropped(k)}
    BY DEF RemoveEntries
  <2>4. \A r \in removed' : \/ r \in removed
                            \/ \E s \in Dropped(k) : r = <<asked[k][s].host, s>>
    BY <2>3
  <2> QED  BY <2>1, <2>2, <2>4 DEF GalleryInv, Gone
<1> QED  BY <1>1, <1>4, <1>5, <1>6 DEF GalleryInv

-----------------------------------------------------------------------------

LEMMA GalleryStarts == ASSUME GalleryInit PROVE GalleryInv
<1>1. PICK h \in Hosts :
        /\ remote = {h} \X Old
        /\ storage \in {[s \in Old |-> Kept(h, TRUE)], [s \in Old |-> Kept(NoServer, TRUE)]}
  BY DEF GalleryInit
<1>2. /\ local = Old /\ made = remote
      /\ taken = [s \in Shots |-> "no"] /\ entry = [s \in Shots |-> Kept(NoServer, FALSE)]
      /\ got = [s \in Shots |-> Empty] /\ shots = Empty /\ replies = <<>>
      /\ handler = [k \in Keys |-> "none"] /\ asked = [k \in Keys |-> Empty]
      /\ queue = <<>> /\ removed = {}
  BY DEF GalleryInit
<1>3. Empty \in Lists
  BY EmptyFits DEF Fits
<1>4. StoredFits
  <2>1. ASSUME NEW g \in Server, storage = [s \in Old |-> Kept(g, TRUE)]
        PROVE  StoredFits
    <3>1. Kept(g, TRUE) \in Entry /\ Kept(g, TRUE).path
      BY DEF Kept, Entry
    <3>2. /\ DOMAIN storage = Old /\ storage \in [DOMAIN storage -> Entry]
          /\ \A s \in Old : storage[s].path
      BY <2>1, <3>1
    <3>3. storage \in Lists
      BY <3>2, ListsAre DEF All
    <3> QED  BY <3>2, <3>3, ShotsAssumption DEF StoredFits, Fits, Whole
  <2> QED  BY <1>1, <2>1 DEF Server
<1>5. ShownFits /\ ReadFits /\ AskedFits
  BY <1>2, <1>3, EmptyFits DEF ShownFits, ReadFits, AskedFits
<1>6. RepliesFit /\ QueueFits /\ CopiesNext
  BY <1>2 DEF RepliesFit, QueueFits, CopiesNext
<1>7. Copies
  <2>1. Kept(NoServer, FALSE) \in Entry /\ ~Kept(NoServer, FALSE).path
        /\ Kept(NoServer, FALSE).host = NoServer
    BY DEF Kept, Entry, Server
  <2> QED  BY <1>1, <1>2, <2>1 DEF Copies, All
<1>8. Heard /\ Gone
  BY <1>2 DEF Heard, Gone
<1> QED  BY <1>4, <1>5, <1>6, <1>7, <1>8 DEF GalleryInv

LEMMA GalleryInductive == ASSUME GalleryInv, [GalleryNext]_gallery PROVE GalleryInv'
<1>1. CASE UNCHANGED gallery
  <2>1. Forward /\ Copies' /\ ReadFits'
    BY <1>1, SameFiles DEF gallery
  <2> QED  BY <1>1, <2>1, PartsKept, HandlersAlone DEF GalleryInv, gallery, view
<1>2. CASE selectTab \/ OpenPopup \/ ClosePopup \/ Reply \/ Comment
  BY <1>2, SelectKeeps, OpenKeeps, CloseKeeps, ReplyKeepsGallery, CommentKeeps
<1>3. ASSUME NEW s \in Shots,
             Capture(s) \/ SaveShot(s) \/ AddViewed(s) \/ ReadGallery(s) \/ AddArea(s)
      PROVE  GalleryInv'
  BY <1>3, CaptureKeeps, SaveKeeps, AddViewedKeeps, ReadKeeps, AddAreaKeeps
<1>4. ASSUME NEW k \in Keys, AskDelete(k) \/ screenshotDestination(k) \/ RemoveEntries(k)
      PROVE  GalleryInv'
  BY <1>4, AskKeepsGallery, DestinationKeeps, RemoveKeeps
<1>5. CASE DeleteLocal \/ DeleteFiles \/ RefuseFiles
  BY <1>5, LocalKeeps, DeleteKeeps, RefuseKeeps
<1> QED  BY <1>1, <1>2, <1>3, <1>4, <1>5 DEF GalleryNext

LEMMA GalleryHolds == GallerySpec => []GalleryInv
<1>1. GalleryInit => GalleryInv
  BY GalleryStarts
<1>2. GalleryInv /\ [GalleryNext]_gallery => GalleryInv'
  BY GalleryInductive
<1> QED  BY <1>1, <1>2, PTL DEF GallerySpec

\* The gallery, and the report that is copied from it, name a server for a capture
\* only if its copy was made there, whatever the popup and the worker write over
\* each other's lists (screenshots.go:236-250, popup.js:739-768).
THEOREM NamedCopiesWereMade == GallerySpec => []ServerPathIsCopy
<1>1. GalleryInv => ServerPathIsCopy
  <2> SUFFICES ASSUME GalleryInv PROVE ServerPathIsCopy
    OBVIOUS
  <2>1. ASSUME NEW L, Fits(L, taken, made, remote), NEW c \in updateShotsUI(L), c[2] \in Shots
        PROVE  c \in made
    BY <2>1 DEF updateShotsUI, Fits
  <2> QED  BY <2>1 DEF ServerPathIsCopy, GalleryInv, StoredFits, ShownFits, formatScreenshotsReport
<1> QED  BY <1>1, GalleryHolds, PTL

\* What Delete or Clear took out of the gallery has no local file and no copy on the
\* server its entry named, for any number of captures and servers, though answers
\* are lost and popups closed (popup.js:134-152, 770-803; screenshots.go:147-167).
THEOREM RemovedStaysGone == GallerySpec => []RemovedIsGone
<1>1. GalleryInv => RemovedIsGone
  BY DEF GalleryInv, Gone, RemovedIsGone
<1> QED  BY <1>1, GalleryHolds, PTL
=============================================================================
