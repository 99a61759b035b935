\* A user who may edit flows changes the tab of a page.
SPECIFICATION CoPilotSpec
CONSTANTS
  None = None
  PanelUsers = {ann}
  PermissionsOf <- MayEditFlows
  Pages <- SomePages
  AskedTools <- SomeAnswers
  PerPage = 2
  MaxConversations = 2
  MaxMoves = 4
  MaxSends = 1
  MaxTurnRounds = 2
INVARIANT OffersOnlyUsable
\* moves are bounded
CHECK_DEADLOCK FALSE
