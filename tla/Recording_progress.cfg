SPECIFICATION FairSpec
CONSTANTS
  Recordings = {r1}
  NoRecording = NoRecording
  Workers = {w1, w2}
  Teachers = {t1}
  Size <- MCSize
  StorageLimit <- MCUnlimited
  Timely = FALSE
  MaxAssets = 1
PROPERTIES EverySessionSettles
