SPECIFICATION FairSpec
CONSTANTS
  aac = aac
  srt = srt
  Order <- OneOrder
  ExitOrder <- MCExitOrder
  Commanders = {control}
  Gain = gainMonitor
  Main = main
  NoThread = noThread
  Gains = {1, 2}
  InitGain = 1
  MaxPids = 2
  MaxCommands = 2
  MaxGainChanges = 1
PROPERTY MonitorsWork
PROPERTY CommandsEnd
