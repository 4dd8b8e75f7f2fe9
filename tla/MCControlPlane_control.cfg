CONSTANTS
  Modes = {FALSE}
  MaxFaults = 1
  c1 = c1
  c2 = c2
  Clients <- MCClients
  Calls <- MCCalls
  NoCall = NoCall
  NoClient = NoClient
  Backlog = 0
SPECIFICATION FairSpec
CHECK_DEADLOCK FALSE
INVARIANTS TypeOK CoresHaveTheirPorts ExitIsTruth HupNotLost
PROPERTIES HupServed QuitExits FwCtlEnds
