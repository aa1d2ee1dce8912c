SPECIFICATION Spec
CONSTANTS
  Rtp = {rtp}
  Srt = {s1, s2}
  rtp = rtp
  s1 = s1
  s2 = s2
  ConfigSrt = s1
  NoSource = none
  Requests = {r1, r2}
  MaxOpen = 2
  MaxDowns = 1
SYMMETRY SessionSymmetry
INVARIANTS TypeOK FilesTrue SessionFollowed
