SPECIFICATION Spec
CONSTANTS
  Windows = {1, 2}
  SegSecs = 2
  ResetGap = 2
  MaxSeg <- Segments
  MaxRuns = 2
INVARIANTS TypeOK PlaylistStaysPlayable WipedExplained DatesRight CleanAfterStop
