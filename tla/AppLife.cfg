\* A socket and the timer busy at once, commands among the datagrams; launchers
\* of script, monitor and operator in any order, a second instance, an end of a
\* process or a start by the operator at any step; commands that reboot the board.
CONSTANTS
  Order <- TwoDevices
  Sockets = {"testServer"}
  Alpha = TRUE
  Capacity = 2
  HardwareAt = 1
  MaxTroubles = 1
SPECIFICATION FairLife
INVARIANTS
  AnnouncesItself
  ReadyBoard
PROPERTIES
  ServesFairly
  ServesAll
  ObeysShutdown
  Recovers
