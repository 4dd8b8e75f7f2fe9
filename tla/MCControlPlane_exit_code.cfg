CONSTANTS
  Modes = {TRUE, FALSE}
  MaxFaults = 1
  c1 = c1
  c2 = c2
  Clients <- MCClients
  Calls <- MCCalls
  NoCall = NoCall
  NoClient = NoClient
  Backlog = 0
SPECIFICATION Spec
CHECK_DEADLOCK FALSE
INVARIANT DoneExitsZero
