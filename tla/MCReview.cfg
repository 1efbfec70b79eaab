CONSTANTS
  Elements = {e1, e2}
  None = None
  MaxNotes = 2
  Crops = {j1, j2}
  MaxReloads = 1
SPECIFICATION Spec
INVARIANTS TypeOK NotesAgree QuietWhenStopped OwnArea CleanShot CaptureEnds
SYMMETRY Alike
