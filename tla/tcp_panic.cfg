\* Close between the test of connected and the use of conn.
SPECIFICATION Spec
CONSTANTS
  Goroutines = {g1, g2}
  Nobody = nobody
  MaxCalls = 4
  MaxConns = 1
  UserTickets = {}
  TicketModulus = 8
  Deadlines = TRUE
INVARIANT NoPanic
