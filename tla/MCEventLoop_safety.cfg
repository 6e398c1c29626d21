SPECIFICATION Spec
CONSTANTS
  Fd = {f1, f2}
  MaxClients = 2
  MaxEvents = 2
  SendQ = 2
  Faults = {"eof", "reset", "stall"}
  Listen = listen
  None = none
SYMMETRY Symmetry
INVARIANTS IInv EventsAreCurrent LeavingIsNotRead NoLostWakeup
PROPERTIES SessionsAreSafe
