SPECIFICATION FairSpec
CONSTANTS
  Fd = {f1}
  MaxClients = 1
  MaxEvents = 3
  SendQ = 1
  Faults = {"eof", "reset", "stall", "silence"}
  Listen = listen
  None = none
PROPERTIES OverflowEnds GonePeerIsFreed SilentIsDropped SessionsEnd
