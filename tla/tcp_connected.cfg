\* The server closes the connection.
SPECIFICATION Spec
CONSTANTS
  Goroutines = {g1}
  Nobody = nobody
  MaxCalls = 4
  MaxConns = 1
  UserTickets = {}
  TicketModulus = 8
  Deadlines = TRUE
INVARIANT ConnectedMeansUsable
