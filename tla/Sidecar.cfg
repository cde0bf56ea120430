SPECIFICATION TimedSpec
CONSTANTS
  MaxIds = 4
  Room = 2
INVARIANTS WindowIsTrue NoUnknownResponse
PROPERTIES CommandsSettle StopReturns
CHECK_DEADLOCK FALSE
