\* Fair scheduling, a read deadline, a server that may stay silent for ever, and a
\* ticket counter that comes round.
SPECIFICATION FairSpec
CONSTANTS
  Goroutines = {g1, g2}
  Nobody = nobody
  MaxCalls = 3
  MaxConns = 1
  UserTickets = {1}
  TicketModulus = 2
  Deadlines = TRUE
INVARIANT TypeOK
PROPERTIES
  EveryCallReturns
  ImplementsExchange
