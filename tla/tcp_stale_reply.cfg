\* A reply that comes after its read deadline.
SPECIFICATION Spec
CONSTANTS
  Goroutines = {g1}
  Nobody = nobody
  MaxCalls = 4
  MaxConns = 1
  UserTickets = {9}
  TicketModulus = 8
  Deadlines = TRUE
INVARIANT SuccessIsOwn
