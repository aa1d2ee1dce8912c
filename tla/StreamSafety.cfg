SPECIFICATION Spec
CONSTANTS
  aac = aac
  srt = srt
  Order <- MCOrder
  ExitOrder <- MCExitOrder
  Commanders = {control, cue}
  Gain = gainMonitor
  Main = main
  NoThread = noThread
  Gains = {1, 2}
  InitGain = 1
  MaxPids = 2
  MaxCommands = 2
  MaxGainChanges = 1
INVARIANT TypeOK
INVARIANT ProcessesAccountedFor
INVARIANT PublishedWhenQuiet
