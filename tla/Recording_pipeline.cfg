SPECIFICATION Spec
CONSTANTS
  Recordings = {r1, r2}
  NoRecording = NoRecording
  Workers = {w1, w2}
  Teachers = {t1}
  Size <- MCSize
  StorageLimit = 1
  Timely = TRUE
  MaxAssets = 2
SYMMETRY MCSymmetry
INVARIANTS StorageWithinLimit AvailableIsPlayable 
