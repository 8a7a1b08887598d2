CONSTANTS
  K <- TwoK
  Ids <- EveryId
  Clients <- TwoClients
  MaxSent = 2
SPECIFICATION Spec
INVARIANTS RoundTrip OwnClient AnswersRouteBack
\* the clients stop sending
CHECK_DEADLOCK FALSE
